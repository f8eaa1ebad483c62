------------------------------ MODULE CliProofs ------------------------------
(***************************************************************************)
(* The command line.  For every argv flag.Parse may leave: a mode is       *)
(* called only with lists its own module assumes, and a list is refused    *)
(* only with nothing printed and a token to blame.                         *)
(*                                                                         *)
(* First what the three parsers return for any tokens at all, then the     *)
(* invariant IInv, main's steps, and the steps of the modes, which leave   *)
(* alone everything the invariant speaks of but the counts' order.         *)
(*                                                                         *)
(* Last, the composition: the proofs of the four modes are instanced for   *)
(* the command lines main makes, each mode begins where its own Init says, *)
(* and so the program keeps what the mode that was called promises.        *)
(***************************************************************************)
EXTENDS Cli, FormulaProofs, SequenceTheorems, FunctionTheorems

(* The tokens a parser keeps are some of those it was given.               *)
LEMMA GivenType ==
  ASSUME NEW T, NEW tokens \in Seq(T)
  PROVE  Given(tokens) \in Seq(T)
<1> DEFINE n    == Len(tokens)
           step == [pair \in Nat \X Seq(T) |->
                      IF pair[1] \notin 1 .. n \/ tokens[pair[1]].kind = "blank" THEN pair[2]
                      ELSE Append(pair[2], tokens[pair[1]])]
           none == [k \in Nat |-> <<>>]
           prev == [k \in Nat |-> IF k = 0 THEN 0 ELSE k - 1]
           Loops(f) == f = [k \in 0 .. n |->
                             IF k = 0 THEN <<>>
                             ELSE IF tokens[k].kind = "blank" THEN f[k - 1]
                             ELSE Append(f[k - 1], tokens[k])]
           given == CHOOSE f : Loops(f)
<1>1. n \in Nat /\ \A k \in 1 .. n : tokens[k] \in T
  OBVIOUS
<1>2. none \in [Nat -> Seq(T)] /\ prev \in [Nat -> Nat] /\ \A k \in Nat \ {0} : prev[k] < k
  OBVIOUS
<1>3. step \in [Nat \X Seq(T) -> Seq(T)]
  OBVIOUS
<1>4. /\ none[0] = <<>>
      /\ \A k \in 1 .. n : prev[k] = k - 1
      /\ \A k \in 1 .. n : \A s \in Seq(T) :
           step[<<k, s>>] = IF tokens[k].kind = "blank" THEN s ELSE Append(s, tokens[k])
  OBVIOUS
<1> HIDE DEF step, none, prev
<1>5. PICK f \in [Nat -> Seq(T)] : \A k \in Nat : Recurs(f, k, {0}, none, prev, step)
  BY <1>2, <1>3, RecursionExists
<1> DEFINE g == [k \in 0 .. n |-> f[k]]
<1>6. ASSUME NEW k \in 0 .. n
      PROVE  g[k] = IF k = 0 THEN <<>>
                    ELSE IF tokens[k].kind = "blank" THEN g[k - 1] ELSE Append(g[k - 1], tokens[k])
  <2>1. CASE k = 0
    BY <1>4, <1>5, <2>1 DEF Recurs
  <2>2. CASE k # 0
    <3>1. k \in Nat /\ k \in 1 .. n /\ k - 1 \in Nat /\ k - 1 \in 0 .. n
      BY <1>1, <2>2
    <3>2. f[k] = step[<<k, f[k - 1]>>]
      BY <1>4, <1>5, <2>2, <3>1 DEF Recurs
    <3> QED BY <1>4, <1>5, <2>2, <3>1, <3>2
  <2> QED BY <2>1, <2>2
<1>7. Loops(g)
  BY <1>6
<1>8. Loops(given)
  BY <1>7
<1> HIDE DEF given
<1> DEFINE U == {k \in Nat : k <= n => given[k] \in Seq(T)}
<1>9. ASSUME NEW k \in Nat, \A j \in 0 .. k - 1 : j \in U, k <= n PROVE given[k] \in Seq(T)
  <2>1. CASE k = 0
    BY <1>8, <2>1
  <2>2. CASE k # 0
    <3>1. k \in 1 .. n /\ k \in 0 .. n /\ k - 1 \in 0 .. k - 1 /\ k - 1 <= n
      BY <1>1, <1>9, <2>2
    <3>2. given[k - 1] \in Seq(T)
      BY <1>9, <3>1
    <3>3. given[k] = IF tokens[k].kind = "blank" THEN given[k - 1] ELSE Append(given[k - 1], tokens[k])
      BY <1>8, <2>2, <3>1
    <3> QED BY <1>1, <3>1, <3>2, <3>3
  <2> QED BY <2>1, <2>2
<1>10. Nat \subseteq U
  <2>1. \A k \in Nat : (\A j \in 0 .. k - 1 : j \in U) => k \in U
    BY <1>9
  <2> HIDE DEF U
  <2> QED BY <2>1, Induction
<1>11. given[n] \in Seq(T)
  <2>1. n <= n
    BY <1>1
  <2> QED BY <1>1, <1>10, <2>1
<1>12. Given(tokens) = given[n]
  BY DEF Given, given
<1> QED BY <1>11, <1>12

(* What a number is, and what it is without a denominator.                 *)
LEMMA TokenTypes ==
  ASSUME NEW t \in Tokens, t.kind = "number"
  PROVE  /\ t.value[1] \in Int /\ t.value[2] \in Nat /\ t.value = <<t.value[1], t.value[2]>>
         /\ t.value[2] = 0 => t.value[1] \in {-1, 0, 1}
         /\ t.unit \in DOMAIN Units
<1>1. t \notin {Blank, Junk}
  BY DEF Blank, Junk
<1>2. t.value \in Fractions /\ t.unit \in DOMAIN Units
  BY <1>1 DEF Tokens
<1> QED BY <1>2 DEF Fractions

(* What a parser makes of the tokens of a flag: a list of the kind the     *)
(* modes want, or nothing, and then a token is to blame or there is none.  *)
ParsedAs(Good, flag, list, tokens) ==
  /\ list \in Seq(Good)
  /\ list # <<>> => Len(list) = Len(Given(tokens))
  /\ list = <<>> => Given(tokens) = <<>> \/ \E t \in Range(Given(tokens)) : Bad(flag, t)

(* All tokens were accepted, and list holds their values.                  *)
LEMMA AllAccepted ==
  ASSUME NEW Good, NEW flag, NEW tokens \in Seq(Tokens), NEW list,
         list = [k \in DOMAIN Given(tokens) |-> list[k]],
         \A k \in DOMAIN Given(tokens) : list[k] \in Good
  PROVE  ParsedAs(Good, flag, list, tokens)
<1> DEFINE given == Given(tokens)
<1>1. given \in Seq(Tokens)
  BY GivenType
<1>2. Len(given) \in Nat /\ DOMAIN given = 1 .. Len(given)
  BY <1>1, LenProperties
<1>3. list \in [1 .. Len(given) -> Good]
  BY <1>2
<1> HIDE DEF given
<1>4. list \in Seq(Good) /\ Len(list) = Len(given)
  BY <1>2, <1>3
<1>5. list = <<>> => Len(given) = 0
  BY <1>4
<1> QED BY <1>1, <1>4, <1>5 DEF ParsedAs, given

(* A token was refused.                                                    *)
LEMMA OneRefused ==
  ASSUME NEW Good, NEW flag, NEW tokens, NEW t \in Range(Given(tokens)), Bad(flag, t)
  PROVE  ParsedAs(Good, flag, <<>>, tokens)
BY EmptySeq DEF ParsedAs

(* Every place of the list a parser keeps holds a token.                   *)
LEMMA GivenTokens ==
  ASSUME NEW tokens \in Seq(Tokens)
  PROVE  /\ \A t \in Range(Given(tokens)) : t \in Tokens
         /\ \A k \in DOMAIN Given(tokens) : Given(tokens)[k] \in Range(Given(tokens))
<1> DEFINE given == Given(tokens)
<1>1. given \in Seq(Tokens)
  BY GivenType
<1> HIDE DEF given
<1>2. /\ \A t \in Range(given) : t \in Tokens
      /\ \A k \in DOMAIN given : given[k] \in Range(given)
  BY <1>1 DEF Range
<1> QED BY <1>2 DEF given

(* parseInts: positive integers of the word, without a unit.               *)
LEMMA IntsParsed ==
  ASSUME NEW tokens \in Seq(Tokens), NEW flag \in {"validators", "peers"}
  PROVE  ParsedAs(1 .. MaxInt, flag, parseInts(tokens), tokens)
<1> DEFINE given   == Given(tokens)
           Fits(t) == t.unit = "none" /\ t.value[2] = 1 /\ t.value[1] \in 1 .. MaxInt
           values  == [k \in DOMAIN given |-> given[k].value[1]]
           AllFit  == \A t \in Range(given) : t.kind = "number" /\ Fits(t)
<1>1. parseInts(tokens) = IF AllFit THEN values ELSE <<>>
  BY DEF parseInts, parseList
<1>2. CASE AllFit
  <2> DEFINE Good == 1 .. MaxInt
  <2>1. \A k \in DOMAIN given : values[k] \in Good
    BY <1>2, GivenTokens
  <2> HIDE DEF Good
  <2>2. ParsedAs(Good, flag, values, tokens)
    BY <2>1, AllAccepted
  <2> QED BY <1>1, <1>2, <2>2 DEF Good
<1>3. CASE ~AllFit
  <2>1. PICK t \in Range(given) : ~(t.kind = "number" /\ Fits(t))
    BY <1>3
  <2>2. ASSUME t.kind = "number" PROVE Bad(flag, t)
    <3> DEFINE a == t.value[1]  b == t.value[2]
    <3>1. a \in Int /\ b \in Nat
      BY <2>1, <2>2, GivenTokens, TokenTypes
    <3>2. t.unit # "none" \/ b # 1 \/ a \notin 1 .. MaxInt
      BY <2>1, <2>2
    <3>3. b # 1 \/ a \in 1 .. MaxInt \/ a < 0 \/ (a = 0 /\ b # 0) \/ a > MaxInt
      <4> HIDE DEF a, b
      <4> QED BY <3>1, MaxIntAssumption
    <3> HIDE DEF a, b
    <3> QED BY <3>2, <3>3 DEF Bad, a, b
  <2>3. Bad(flag, t)
    BY <2>2 DEF Bad
  <2> QED BY <1>1, <1>3, <2>1, <2>3, OneRefused
<1> QED BY <1>2, <1>3

(* parseFloats: positive, infinite, or not a number, without a unit.       *)
LEMMA FloatsParsed ==
  ASSUME NEW tokens \in Seq(Tokens)
  PROVE  ParsedAs(Rounds, "rounds", parseFloats(tokens), tokens)
<1> DEFINE given   == Given(tokens)
           Fits(t) == t.unit = "none" /\ ~NotPositive(t.value)
           values  == [k \in DOMAIN given |-> given[k].value]
           AllFit  == \A t \in Range(given) : t.kind = "number" /\ Fits(t)
<1>1. parseFloats(tokens) = IF AllFit THEN values ELSE <<>>
  BY DEF parseFloats, parseList
<1>2. CASE AllFit
  <2>1. ASSUME NEW t \in Range(given) PROVE t.value \in Rounds
    <3>1. t \in Tokens /\ t.kind = "number" /\ ~NotPositive(t.value)
      BY <1>2, <2>1, GivenTokens
    <3> DEFINE a == t.value[1]  b == t.value[2]
    <3>2. /\ a \in Int /\ b \in Nat /\ t.value = <<a, b>>
          /\ b = 0 => a \in {-1, 0, 1}
      BY <3>1, TokenTypes
    <3>3. ~(a < 0) /\ ~(a = 0 /\ b > 0)
      BY <3>1 DEF NotPositive
    <3> HIDE DEF a, b
    <3>4. <<a, b>> \in Rounds
      BY <3>2, <3>3 DEF Rounds
    <3> QED BY <3>2, <3>4
  <2>2. \A k \in DOMAIN given : values[k] \in Rounds
    BY <2>1, GivenTokens
  <2>3. ParsedAs(Rounds, "rounds", values, tokens)
    BY <2>2, AllAccepted
  <2> QED BY <1>1, <1>2, <2>3
<1>3. CASE ~AllFit
  <2>1. PICK t \in Range(given) : ~(t.kind = "number" /\ Fits(t))
    BY <1>3
  <2>2. ASSUME t.kind = "number" PROVE Bad("rounds", t)
    <3>1. t.unit # "none" \/ NotPositive(t.value)
      BY <2>1, <2>2
    <3>2. NotPositive(t.value) => t.value[1] < 0 \/ (t.value[1] = 0 /\ t.value[2] # 0)
      BY DEF NotPositive
    <3> QED BY <3>1, <3>2 DEF Bad
  <2>3. Bad("rounds", t)
    BY <2>2 DEF Bad
  <2> QED BY <1>1, <1>3, <2>1, <2>3, OneRefused
<1> QED BY <1>2, <1>3

(* parseLinks: whole bits per second, as far as they fit the word.         *)
LEMMA LinksParsed ==
  ASSUME NEW tokens \in Seq(Tokens)
  PROVE  ParsedAs(Int64, "links", parseLinks(tokens), tokens)
<1> DEFINE given   == Given(tokens)
           Bits(t) == FloatToInt(argv.arch, <<t.value[1] * Units[t.unit], t.value[2]>>)
           values  == [k \in DOMAIN given |-> Bits(given[k])]
           AllFit  == \A t \in Range(given) : t.kind = "number" /\ ~NotPositive(t.value)
<1>1. parseLinks(tokens) = IF AllFit THEN values ELSE <<>>
  BY DEF parseLinks, parseList
<1>2. CASE AllFit
  <2>1. ASSUME NEW t \in Range(given) PROVE Bits(t) \in Int64
    <3>1. t \in Tokens /\ t.kind = "number"
      BY <1>2, <2>1, GivenTokens
    <3> DEFINE a == t.value[1]  b == t.value[2]  u == Units[t.unit]
    <3>2. a \in Int /\ b \in Nat /\ t.unit \in DOMAIN Units
      BY <3>1, TokenTypes
    <3>3. \A unit \in DOMAIN Units : Units[unit] \in Int
      BY DEF Units
    <3>4. u \in Int
      BY <3>2, <3>3
    <3> HIDE DEF a, b, u
    <3>5. a * u \in Int
      BY <3>2, <3>4
    <3>6. FloatToInt(argv.arch, <<a * u, b>>) \in Int64
      BY <3>2, <3>5, FloatToIntInWord
    <3> QED BY <3>6 DEF a, b, u
  <2>2. \A k \in DOMAIN given : values[k] \in Int64
    <3> HIDE DEF Bits
    <3> QED BY <2>1, GivenTokens
  <2> HIDE DEF Bits
  <2>3. ParsedAs(Int64, "links", values, tokens)
    BY <2>2, AllAccepted
  <2> QED BY <1>1, <1>2, <2>3 DEF Bits
<1>3. CASE ~AllFit
  <2>1. PICK t \in Range(given) : ~(t.kind = "number" /\ ~NotPositive(t.value))
    BY <1>3
  <2>2. NotPositive(t.value) => t.value[1] < 0 \/ (t.value[1] = 0 /\ t.value[2] # 0)
    BY DEF NotPositive
  <2>3. Bad("links", t)
    BY <2>1, <2>2 DEF Bad
  <2> QED BY <1>1, <1>3, <2>1, <2>3, OneRefused
<1> QED BY <1>2, <1>3

(* The lists there are, and what a list may hold.                          *)
Kinds == [validators |-> 1 .. MaxInt, links |-> Int64, rounds |-> Rounds, peers |-> 1 .. MaxInt]

(* Each flag's parser returns a list of its kind, or has a reason not to.  *)
LEMMA ParseIsRight ==
  ASSUME argv \in Argvs, NEW flag \in DOMAIN Kinds
  PROVE  ParsedAs(Kinds[flag], flag, parse(flag), argv[flag])
<1>1. \A f \in {"validators", "links", "rounds", "peers"} : argv[f] \in Seq(Tokens)
  BY ArgvsAssumption DEF ArgvSet
<1>2. CASE flag = "validators"
  <2>1. parse(flag) = parseInts(argv[flag]) /\ Kinds[flag] = 1 .. MaxInt
    BY <1>2 DEF parse, Kinds
  <2> QED BY <1>1, <1>2, <2>1, IntsParsed
<1>3. CASE flag = "links"
  <2>1. parse(flag) = parseLinks(argv[flag]) /\ Kinds[flag] = Int64
    BY <1>3 DEF parse, Kinds
  <2> QED BY <1>1, <1>3, <2>1, LinksParsed
<1>4. CASE flag = "rounds"
  <2>1. parse(flag) = parseFloats(argv[flag]) /\ Kinds[flag] = Rounds
    BY <1>4 DEF parse, Kinds
  <2> QED BY <1>1, <1>4, <2>1, FloatsParsed
<1>5. CASE flag = "peers"
  <2>1. parse(flag) = parseInts(argv[flag]) /\ Kinds[flag] = 1 .. MaxInt
    BY <1>5 DEF parse, Kinds
  <2> QED BY <1>1, <1>5, <2>1, IntsParsed
<1> QED BY <1>2, <1>3, <1>4, <1>5 DEF Kinds
-----------------------------------------------------------------------------
(* The mode is decided once, before any list is parsed.                    *)
Decided ==
  /\ pc = "main" => next = 1
  /\ pc # "main" => mode \in DOMAIN ListsOf

(* The lists parsed so far are what the parsers made of their flags.       *)
ListsParsed ==
  /\ DOMAIN parsed = DOMAIN Kinds
  /\ pc # "main" =>
       /\ next \in 1 .. Len(ListsOf[mode]) + 1
       /\ \A k \in 1 .. next - 1 :
            LET flag == ListsOf[mode][k]
            IN  parsed[flag] = parse(flag) /\ parsed[flag] # <<>>

(* Nothing is printed or refused before the last list of the mode.         *)
SilentSoFar == pc \in {"main", "parse"} => refused = "none" /\ stdout = <<>>

Called ==
  Entered =>
    /\ next = Len(ListsOf[mode]) + 1
    /\ Accepted
    /\ mode = "default" => counts \in Seq(Nat \ {0})

RefusedOne ==
  refused # "none" =>
    /\ stdout = <<>> /\ pc = "exit 1"
    /\ refused \in Range(ListsOf[mode])
    /\ parse(refused) = <<>>

IInv ==
  /\ argv \in Argvs
  /\ Decided /\ ListsParsed /\ SilentSoFar /\ Called /\ RefusedOne

(* The lists of a mode are those of some flags.                            *)
LEMMA ModeLists ==
  ASSUME NEW m \in DOMAIN ListsOf
  PROVE  /\ Len(ListsOf[m]) \in Nat /\ DOMAIN ListsOf[m] = 1 .. Len(ListsOf[m])
         /\ \A k \in 1 .. Len(ListsOf[m]) : ListsOf[m][k] \in DOMAIN Kinds \cap Range(ListsOf[m])
         /\ Range(ListsOf[m]) \subseteq DOMAIN Kinds
<1>1. m \in {"list", "solve", "migration", "handshake", "default"}
  BY DEF ListsOf
<1>2. ListsOf[m] \in Seq(DOMAIN Kinds)
  <2>1. {"validators", "links", "rounds", "peers"} \subseteq DOMAIN Kinds
    BY DEF Kinds
  <2>2. CASE m \in {"list", "handshake"}
    <3>1. ListsOf[m] = <<>>
      BY <2>2 DEF ListsOf
    <3> QED BY <3>1, EmptySeq
  <2>3. CASE m = "solve"
    BY <2>1, <2>3 DEF ListsOf
  <2>4. CASE m = "migration"
    BY <2>1, <2>4 DEF ListsOf
  <2>5. CASE m = "default"
    BY <2>1, <2>5 DEF ListsOf
  <2> QED BY <1>1, <2>2, <2>3, <2>4, <2>5
<1> DEFINE lists == ListsOf[m]
<1> HIDE DEF lists
<1>3. lists \in Seq(DOMAIN Kinds)
  BY <1>2 DEF lists
<1>4. /\ Len(lists) \in Nat /\ DOMAIN lists = 1 .. Len(lists)
      /\ \A k \in 1 .. Len(lists) : lists[k] \in DOMAIN Kinds
  BY <1>3, LenProperties, ElementOfSeq
<1>5. /\ \A k \in 1 .. Len(lists) : lists[k] \in Range(lists)
      /\ \A x \in Range(lists) : \E k \in 1 .. Len(lists) : x = lists[k]
  BY <1>4 DEF Range
<1> QED BY <1>4, <1>5 DEF lists

-----------------------------------------------------------------------------
(* What a step of a mode leaves alone, and where it leads.                 *)
ModeStep ==
  /\ pc \notin {"main", "parse", "exit 1"} /\ pc' \notin {"main", "parse"}
  /\ flags' = flags

(* The default mode; it alone touches the counts.                          *)
LEMMA ReportStep == R!Next => ModeStep /\ (counts' = counts \/ counts' \in R!Rearrangements(counts))
<1> SUFFICES ASSUME R!Next
    PROVE  ModeStep /\ (counts' = counts \/ counts' \in R!Rearrangements(counts))
  OBVIOUS
<1>1. CASE R!Lookup
  BY <1>1 DEF R!Lookup, R!Goto, R!Fail, ModeStep
<1>2. CASE R!MeasureScheme
  BY <1>2 DEF R!MeasureScheme, R!Goto, R!Fail, ModeStep
<1>3. CASE R!PrintSizes
  BY <1>3 DEF R!PrintSizes, R!Goto, R!Fail, ModeStep
<1>4. CASE R!PrintBreakdown
  BY <1>4 DEF R!PrintBreakdown, R!Goto, R!Fail, ModeStep
<1>5. CASE R!PrintStorage
  BY <1>5 DEF R!PrintStorage, R!Goto, ModeStep
<1>6. CASE R!DeriveCell
  BY <1>6 DEF R!DeriveCell, ModeStep
<1>7. CASE R!PrintCeilings
  BY <1>7 DEF R!PrintCeilings, R!Goto, ModeStep
<1>8. CASE R!Compare
  BY <1>8 DEF R!Compare, ModeStep
<1>9. CASE R!PrintBinding
  BY <1>9 DEF R!PrintBinding, R!Goto, ModeStep
<1> QED BY <1>1, <1>2, <1>3, <1>4, <1>5, <1>6, <1>7, <1>8, <1>9 DEF R!Next

(* --solve.                                                                *)
LEMMA SolveStep == S!Next => ModeStep
<1> SUFFICES ASSUME S!Next PROVE ModeStep
  OBVIOUS
<1>1. CASE S!RequireTarget
  BY <1>1 DEF S!RequireTarget, S!Goto, ModeStep
<1>2. CASE S!RequirementsDone
  BY <1>2 DEF S!RequirementsDone, S!Goto, ModeStep
<1>3. CASE S!StartScheme
  BY <1>3 DEF S!StartScheme, S!Goto, ModeStep
<1>4. CASE S!AssessTarget
  BY <1>4 DEF S!AssessTarget, S!Goto, ModeStep
<1>5. CASE S!FinishScheme
  BY <1>5 DEF S!FinishScheme, S!Goto, ModeStep
<1>6. CASE S!PrintReport
  BY <1>6 DEF S!PrintReport, S!Goto, ModeStep
<1> QED BY <1>1, <1>2, <1>3, <1>4, <1>5, <1>6 DEF S!Next

(* --handshake.                                                            *)
LEMMA HandshakeStep == UNCHANGED flags /\ H!Next => ModeStep
<1> SUFFICES ASSUME UNCHANGED flags, H!Next PROVE ModeStep
  OBVIOUS
<1>1. CASE H!MeasureUpstream
  BY <1>1 DEF H!MeasureUpstream, H!Goto, ModeStep
<1>2. CASE H!SkipEd25519
  BY <1>2 DEF H!SkipEd25519, ModeStep
<1>3. CASE H!AddProfiles
  BY <1>3 DEF H!AddProfiles, ModeStep
<1>4. CASE H!FailName
  BY <1>4 DEF H!FailName, H!Goto, ModeStep
<1>5. CASE H!PrintProfiles
  BY <1>5 DEF H!PrintProfiles, H!Goto, ModeStep
<1> QED BY <1>1, <1>2, <1>3, <1>4, <1>5 DEF H!Next

(* --migration.                                                            *)
LEMMA MigrationStep == M!Next => ModeStep
<1> SUFFICES ASSUME M!Next PROVE ModeStep
  OBVIOUS
<1>1. CASE M!StartScheme
  BY <1>1 DEF M!StartScheme, M!Goto, M!Fail, ModeStep
<1>2. CASE M!SampleKey
  BY <1>2 DEF M!SampleKey, M!Goto, M!Fail, ModeStep
<1>3. CASE M!FinishScheme
  BY <1>3 DEF M!FinishScheme, M!Goto, ModeStep
<1>4. CASE M!FlushScheme
  BY <1>4 DEF M!FlushScheme, M!Flush, M!Goto, ModeStep
<1>5. CASE M!AssessRounds
  BY <1>5 DEF M!AssessRounds, M!AddRows, ModeStep
<1>6. CASE M!FlushRounds
  BY <1>6 DEF M!FlushRounds, M!Flush, M!Goto, ModeStep
<1>7. CASE M!MeasureUpdates
  BY <1>7 DEF M!MeasureUpdates, M!AddRows, ModeStep
<1>8. CASE M!FailUpdate
  BY <1>8 DEF M!FailUpdate, M!FailIn, M!Fail, M!Goto, ModeStep
<1>9. CASE M!FlushUpdates
  BY <1>9 DEF M!FlushUpdates, M!Flush, M!Goto, ModeStep
<1>10. CASE M!EstimateAll
  BY <1>10 DEF M!EstimateAll, M!AddRows, ModeStep
<1>11. CASE M!FailGossip
  BY <1>11 DEF M!FailGossip, M!FailIn, M!Fail, M!Goto, ModeStep
<1>12. CASE M!FlushGossip
  BY <1>12 DEF M!FlushGossip, M!Flush, M!Goto, ModeStep
<1>13. CASE M!PrintMitigations
  BY <1>13 DEF M!PrintMitigations, ModeStep
<1>14. CASE M!FailMitigations
  BY <1>14 DEF M!FailMitigations, M!FailIn, M!Fail, M!Goto, ModeStep
<1>15. CASE M!Close
  BY <1>15 DEF M!Close, M!Goto, ModeStep
<1> QED BY <1>1, <1>2, <1>3, <1>4, <1>5, <1>6, <1>7, <1>8, <1>9, <1>10, <1>11, <1>12,
           <1>13, <1>14, <1>15 DEF M!Next
-----------------------------------------------------------------------------
(* Nothing is parsed twice: what has been parsed keeps its meaning as long *)
(* as the command line does not change.                                    *)
LEMMA ParseConstant ==
  ASSUME argv' = argv
  PROVE  \A flag : parse(flag)' = parse(flag)
BY DEF parse, parseLinks, parseList

(* When main begins.                                                       *)
LEMMA CliInit == Init => IInv
<1> SUFFICES ASSUME Init PROVE IInv
  OBVIOUS
<1>1. DOMAIN parsed = DOMAIN Kinds
  BY DEF Init, Kinds
<1> QED BY <1>1 DEF Init, IInv, Decided, ListsParsed, SilentSoFar, Called, Entered, RefusedOne

(* The parts that do not depend on the steps of a mode.                    *)
LEMMA SameLists ==
  ASSUME IInv, UNCHANGED <<argv, mode, parsed, next>>, pc # "main"
  PROVE  argv' \in Argvs /\ ListsParsed' /\ (mode \in DOMAIN ListsOf)'
<1>1. \A flag : parse(flag)' = parse(flag)
  BY ParseConstant
<1> QED BY <1>1 DEF IInv, ListsParsed, Decided

(* The mode flags are looked at.                                           *)
LEMMA DecideStep == IInv /\ Decide => IInv'
<1> SUFFICES ASSUME IInv, Decide PROVE IInv'
  OBVIOUS
<1>1. /\ pc = "main" /\ pc' = "parse" /\ mode' \in DOMAIN ListsOf
      /\ UNCHANGED <<argv, parsed, next, refused, stdout>>
  BY DEF Decide, ListsOf
<1>2. refused = "none" /\ stdout = <<>> /\ next = 1
  BY <1>1 DEF IInv, SilentSoFar, Decided
<1>3. Len(ListsOf[mode']) \in Nat
  BY <1>1, ModeLists
<1>4. ListsParsed'
  <2>1. next' \in 1 .. Len(ListsOf[mode']) + 1 /\ 1 .. next' - 1 = {}
    BY <1>1, <1>2, <1>3
  <2> QED BY <1>1, <2>1 DEF IInv, ListsParsed
<1> QED BY <1>1, <1>2, <1>4 DEF IInv, Decided, SilentSoFar, Called, Entered, RefusedOne

(* One list: refused, or kept until the mode is called.                    *)
LEMMA ParseStep == IInv /\ Parse => IInv'
<1> SUFFICES ASSUME IInv, Parse PROVE IInv'
  OBVIOUS
<1> DEFINE lists == ListsOf[mode]
           flag  == lists[next]
<1>1. /\ pc = "parse" /\ next <= Len(lists) /\ UNCHANGED <<argv, mode, stdout>>
      /\ mode \in DOMAIN ListsOf
      /\ refused = "none" /\ stdout = <<>>
  BY DEF Parse, IInv, SilentSoFar, Decided
<1>2. /\ Len(lists) \in Nat /\ next \in 1 .. Len(lists)
      /\ \A k \in 1 .. Len(lists) : lists[k] \in DOMAIN Kinds \cap Range(lists)
  BY <1>1, ModeLists DEF IInv, ListsParsed
<1>3. \A f : parse(f)' = parse(f)
  BY <1>1, ParseConstant
<1>4. CASE parse(flag) = <<>>
  <2>1. refused' = flag /\ pc' = "exit 1" /\ UNCHANGED <<parsed, next>>
    BY <1>4 DEF Parse
  <2>2. argv' \in Argvs /\ ListsParsed' /\ (mode \in DOMAIN ListsOf)'
    BY <1>1, <2>1, SameLists
  <2>3. flag \in Range(lists) /\ flag # "none"
    BY <1>2 DEF Kinds
  <2>4. RefusedOne'
    BY <1>1, <1>3, <1>4, <2>1, <2>3 DEF RefusedOne
  <2> QED BY <2>1, <2>2, <2>3, <2>4 DEF IInv, Decided, SilentSoFar, Called, Entered
<1>5. CASE parse(flag) # <<>>
  <2>1. /\ parsed' = [parsed EXCEPT ![flag] = parse(flag)]
        /\ next' = next + 1 /\ UNCHANGED <<refused, pc>>
    BY <1>5 DEF Parse
  <2>2. flag \in DOMAIN parsed /\ DOMAIN parsed = DOMAIN Kinds
    BY <1>2 DEF IInv, ListsParsed
  <2>3. ListsParsed'
    <3>1. DOMAIN parsed' = DOMAIN Kinds
      BY <2>1, <2>2
    <3>2. next' \in 1 .. Len(lists) + 1
      BY <1>2, <2>1
    <3>3. ASSUME NEW k \in 1 .. next' - 1
          PROVE  parsed'[lists[k]] = parse(lists[k]) /\ parsed'[lists[k]] # <<>>
      <4>1. k \in 1 .. Len(lists) /\ (k = next \/ k \in 1 .. next - 1)
        BY <1>2, <2>1
      <4>2. lists[k] \in DOMAIN parsed
        BY <1>2, <2>2, <4>1
      <4>3. CASE lists[k] = flag
        BY <1>5, <2>1, <2>2, <4>3
      <4>4. CASE lists[k] # flag
        <5>1. k \in 1 .. next - 1
          BY <4>1, <4>4
        <5>2. parsed[lists[k]] = parse(lists[k]) /\ parsed[lists[k]] # <<>>
          BY <1>1, <5>1 DEF IInv, ListsParsed
        <5> QED BY <2>1, <2>2, <4>2, <4>4, <5>2
      <4> QED BY <4>3, <4>4
    <3> QED BY <1>1, <1>3, <3>1, <3>2, <3>3 DEF ListsParsed
  <2> QED BY <1>1, <2>1, <2>3 DEF IInv, Decided, SilentSoFar, Called, Entered, RefusedOne
<1> QED BY <1>4, <1>5

(* When no list of the mode is left, each is what the modes want.          *)
LEMMA AllParsed ==
  ASSUME IInv, pc = "parse", next > Len(ListsOf[mode])
  PROVE  /\ mode \in DOMAIN ListsOf /\ next = Len(ListsOf[mode]) + 1
         /\ \A flag \in Range(ListsOf[mode]) : parsed[flag] \in Seq(Kinds[flag])
<1> DEFINE lists == ListsOf[mode]
<1>1. mode \in DOMAIN ListsOf
  BY DEF IInv, Decided
<1>2. Len(lists) \in Nat /\ DOMAIN lists = 1 .. Len(lists) /\ Range(lists) \subseteq DOMAIN Kinds
  BY <1>1, ModeLists
<1>3. next \in 1 .. Len(lists) + 1
  BY DEF IInv, ListsParsed
<1>4. next = Len(lists) + 1 /\ next - 1 = Len(lists)
  BY <1>2, <1>3
<1>5. ASSUME NEW flag \in Range(lists) PROVE parsed[flag] \in Seq(Kinds[flag])
  <2>1. PICK k \in 1 .. Len(lists) : flag = lists[k]
    BY <1>2 DEF Range
  <2>2. parsed[flag] = parse(flag)
    BY <1>4, <2>1 DEF IInv, ListsParsed
  <2>3. flag \in DOMAIN Kinds
    BY <1>2
  <2>4. ParsedAs(Kinds[flag], flag, parse(flag), argv[flag])
    BY <2>3, ParseIsRight DEF IInv
  <2> QED BY <2>2, <2>4 DEF ParsedAs
<1> QED BY <1>1, <1>4, <1>5

(* Calling a mode whose assumptions are met.                               *)
LEMMA EnterStep ==
  ASSUME IInv, NEW m, NEW label, Enter(m, label), label \notin {"main", "parse"},
         Accepted', (mode = "default" => counts \in Seq(Nat \ {0}))'
  PROVE  IInv'
<1>1. /\ pc = "parse" /\ mode = m /\ next > Len(ListsOf[mode]) /\ pc' = label
      /\ UNCHANGED <<argv, mode, parsed, next, refused>>
  BY DEF Enter, cli
<1>2. pc # "main" /\ refused = "none"
  BY <1>1 DEF IInv, SilentSoFar
<1>3. argv' \in Argvs /\ ListsParsed' /\ (mode \in DOMAIN ListsOf)'
  BY <1>1, <1>2, SameLists
<1>4. next = Len(ListsOf[mode]) + 1
  BY <1>1, AllParsed
<1>5. Called'
  BY <1>1, <1>4 DEF Called
<1> QED BY <1>1, <1>2, <1>3, <1>5 DEF IInv, Decided, SilentSoFar, RefusedOne

(* The flags that flag.Parse has converted.                                *)
LEMMA ArgvTypes ==
  ASSUME argv \in Argvs
  PROVE  /\ argv.schemes \in Seq(STRING) /\ argv.storageVals \in Int64
         /\ argv.blockSecs \in Int \X Nat /\ argv.cores \in Int64
         /\ argv.suppression \in Float64s /\ argv.arch \in Archs
BY ArgvsAssumption DEF ArgvSet

(* --list-schemes needs no list.                                           *)
LEMMA printSchemesStep == IInv /\ printSchemes => IInv'
<1> SUFFICES ASSUME IInv, printSchemes PROVE IInv'
  OBVIOUS
<1>1. Enter("list", "exit 0") /\ mode' = "list"
  BY DEF printSchemes, Enter, cli
<1>2. Accepted' /\ (mode = "default" => counts \in Seq(Nat \ {0}))'
  BY <1>1 DEF Accepted
<1> QED BY <1>1, <1>2, EnterStep

(* The float64 values of --migration are those of main's flags.            *)
LEMMA SameFloats ==
  (\A a : M!Rounded(a) = Rounded(a)) /\ M!Float64s = Float64s
<1>1. M!spacing = spacing
  BY DEF M!spacing, spacing
<1>2. \A a, b : M!Nearest(a, b) = Nearest(a, b)
  BY DEF M!Nearest, Nearest
<1>3. \A a : M!RoundedNat(a) = RoundedNat(a)
  BY <1>1, <1>2 DEF M!RoundedNat, RoundedNat
<1>4. \A a : M!Rounded(a) = Rounded(a)
  BY <1>3 DEF M!Rounded, Rounded
<1>5. M!Fractions = Fractions
  BY DEF M!Fractions, Fractions
<1>6. M!Float64s = Float64s
  BY <1>1, <1>4, <1>5 DEF M!Float64s, Float64s
<1> QED BY <1>4, <1>6

(* The modes name the same sets as the program.                            *)
LEMMA SameSets ==
  /\ R!Int64 = Int64 /\ R!Rounds = Rounds /\ R!Archs = Archs
  /\ S!Int64 = Int64 /\ S!Rounds = Rounds /\ S!Archs = Archs
  /\ M!Int64 = Int64 /\ M!Archs = Archs
  /\ {r \in Nat \X Nat : r[2] = 0 => r[1] \in {0, 1}} \ {<<0, 1>>} = Rounds
BY DEF R!Int64, R!MinInt, R!Rounds, R!Archs, S!Int64, S!MinInt, S!Rounds, S!Archs,
       M!Int64, M!MinInt, M!Archs, Int64, MinInt, Rounds, Archs

(* SolveReport is called with links, rounds and peers.                     *)
LEMMA EnterSolveStep == IInv /\ EnterSolve => IInv'
<1> SUFFICES ASSUME IInv, EnterSolve PROVE IInv'
  OBVIOUS
<1>1. /\ Enter("solve", "require") /\ mode = "solve" /\ mode' = "solve"
      /\ pc = "parse" /\ next > Len(ListsOf[mode])
  BY DEF EnterSolve, Enter, cli
<1>2. {"links", "rounds", "peers"} \subseteq Range(ListsOf[mode])
  BY <1>1 DEF ListsOf, Range
<1>3. /\ parsed["links"] \in Seq(Int64) /\ parsed["rounds"] \in Seq(Rounds)
      /\ parsed["peers"] \in Seq(1 .. MaxInt)
  BY <1>1, <1>2, AllParsed DEF Kinds
<1>4. flags' \in S!FlagSet
  BY <1>3, ArgvTypes, SameSets DEF EnterSolve, S!FlagSet, IInv
<1>5. Accepted' /\ (mode = "default" => counts \in Seq(Nat \ {0}))'
  BY <1>1, <1>4 DEF Accepted
<1> QED BY <1>1, <1>5, EnterStep

(* Counts in the word are counts.                                          *)
LEMMA CountsPositive == ASSUME NEW s \in Seq(1 .. MaxInt) PROVE s \in Seq(Nat \ {0})
<1>1. Len(s) \in Nat /\ DOMAIN s = 1 .. Len(s) /\ s = [k \in 1 .. Len(s) |-> s[k]]
  OBVIOUS
<1>2. \A k \in 1 .. Len(s) : s[k] \in Nat \ {0}
  BY <1>1, MaxIntAssumption
<1> QED BY <1>1, <1>2

(* reportMigration is called with counts, rounds and peers.                *)
LEMMA EnterMigrationStep == IInv /\ EnterMigration => IInv'
<1> SUFFICES ASSUME IInv, EnterMigration PROVE IInv'
  OBVIOUS
<1>1. /\ Enter("migration", "cpu") /\ mode = "migration" /\ mode' = "migration"
      /\ pc = "parse" /\ next > Len(ListsOf[mode])
  BY DEF EnterMigration, Enter, cli
<1>2. {"validators", "rounds", "peers"} \subseteq Range(ListsOf[mode])
  BY <1>1 DEF ListsOf, Range
<1>3. /\ parsed["validators"] \in Seq(1 .. MaxInt) /\ parsed["rounds"] \in Seq(Rounds)
      /\ parsed["peers"] \in Seq(1 .. MaxInt)
  BY <1>1, <1>2, AllParsed DEF Kinds
<1>4. flags' \in M!FlagSet
  <2>1. parsed["validators"] \in Seq(Nat \ {0})
    BY <1>3, CountsPositive
  <2> QED BY <1>3, <2>1, ArgvTypes, SameSets, SameFloats DEF EnterMigration, M!FlagSet, IInv
<1>5. Accepted' /\ (mode = "default" => counts \in Seq(Nat \ {0}))'
  BY <1>1, <1>4 DEF Accepted
<1> QED BY <1>1, <1>5, EnterStep

(* reportHandshake is called with names only.                              *)
LEMMA EnterHandshakeStep == IInv /\ EnterHandshake => IInv'
<1> SUFFICES ASSUME IInv, EnterHandshake PROVE IInv'
  OBVIOUS
<1>1. Enter("handshake", "upstream") /\ mode' = "handshake"
  BY DEF EnterHandshake, Enter, cli
<1>2. flags'.schemes \in Seq(STRING)
  BY ArgvTypes DEF EnterHandshake, IInv
<1>3. Accepted' /\ (mode = "default" => counts \in Seq(Nat \ {0}))'
  BY <1>1, <1>2 DEF Accepted
<1> QED BY <1>1, <1>3, EnterStep

(* The loop over the names begins, with all four lists.                    *)
LEMMA EnterReportStep == IInv /\ EnterReport => IInv'
<1> SUFFICES ASSUME IInv, EnterReport PROVE IInv'
  OBVIOUS
<1>1. /\ Enter("default", "lookup") /\ mode = "default" /\ mode' = "default"
      /\ pc = "parse" /\ next > Len(ListsOf[mode])
  BY DEF EnterReport, Enter, cli
<1>2. {"validators", "links", "rounds", "peers"} \subseteq Range(ListsOf[mode])
  BY <1>1 DEF ListsOf, Range
<1>3. /\ parsed["validators"] \in Seq(1 .. MaxInt) /\ parsed["links"] \in Seq(Int64)
      /\ parsed["rounds"] \in Seq(Rounds) /\ parsed["peers"] \in Seq(1 .. MaxInt)
  BY <1>1, <1>2, AllParsed DEF Kinds
<1>4. flags' \in R!FlagSet
  <2>1. parsed["validators"] \in Seq(Nat \ {0})
    BY <1>3, CountsPositive
  <2> QED BY <1>3, <2>1, ArgvTypes, SameSets DEF EnterReport, R!FlagSet, IInv
<1>5. counts' = flags'.counts /\ counts' \in Seq(Nat \ {0})
  BY <1>3, CountsPositive DEF EnterReport
<1>6. Accepted' /\ (mode = "default" => counts \in Seq(Nat \ {0}))'
  BY <1>1, <1>4, <1>5 DEF Accepted
<1> QED BY <1>1, <1>6, EnterStep
-----------------------------------------------------------------------------
(* A mode that was called rightly stays so.                                *)
LEMMA ModeStepInv ==
  ASSUME IInv, ModeStep, UNCHANGED cli,
         (Accepted /\ (mode = "default" => counts \in Seq(Nat \ {0}))) =>
           (Accepted /\ (mode = "default" => counts \in Seq(Nat \ {0})))'
  PROVE  IInv'
<1>1. /\ pc \notin {"main", "parse", "exit 1"} /\ pc' \notin {"main", "parse"}
      /\ UNCHANGED <<argv, mode, parsed, next, refused>>
  BY DEF ModeStep, cli
<1>2. refused = "none"
  BY <1>1 DEF IInv, RefusedOne
<1>3. argv' \in Argvs /\ ListsParsed' /\ (mode \in DOMAIN ListsOf)'
  BY <1>1, SameLists
<1>4. next = Len(ListsOf[mode]) + 1 /\ Accepted /\ (mode = "default" => counts \in Seq(Nat \ {0}))
  BY <1>1, <1>2 DEF IInv, Called, Entered
<1>5. Called'
  BY <1>1, <1>4 DEF Called
<1> QED BY <1>1, <1>2, <1>3, <1>5 DEF IInv, Decided, SilentSoFar, RefusedOne

(* Sorting the counts in place leaves the same counts.                     *)
LEMMA SortedCounts ==
  ASSUME NEW s \in Seq(Nat \ {0}), NEW r \in R!Rearrangements(s)
  PROVE  r \in Seq(Nat \ {0}) /\ Range(r) = Range(s)
<1> DEFINE D == DOMAIN s
<1>1. D = 1 .. Len(s) /\ Len(s) \in Nat /\ IsFiniteSet(D)
  BY LenProperties, FS_Interval
<1>2. PICK p \in [D -> D] : IsInjective(p) /\ r = [k \in D |-> s[p[k]]]
  BY DEF R!Rearrangements, R!IsInjective, IsInjective
<1>3. p \in Surjection(D, D)
  <2>1. p \in Injection(D, D)
    BY <1>2 DEF IsInjective, Injection
  <2>2. Cardinality(D) = Cardinality(D) <=> p \in Surjection(D, D)
    BY <1>1, <2>1, FS_Injection
  <2> QED BY <2>2
<1>4. /\ \A t \in D : \E k \in D : p[k] = t
      /\ DOMAIN r = D /\ \A k \in D : p[k] \in D /\ r[k] = s[p[k]]
  BY <1>2, <1>3 DEF Surjection
<1>5. r \in Seq(Nat \ {0})
  <2>1. \A k \in 1 .. Len(s) : s[k] \in Nat \ {0}
    BY ElementOfSeq
  <2>2. \A k \in 1 .. Len(s) : r[k] \in Nat \ {0}
    BY <1>1, <1>4, <2>1
  <2>3. r = [k \in 1 .. Len(s) |-> r[k]]
    BY <1>1, <1>2
  <2> QED BY <1>1, <2>2, <2>3
<1>6. Range(r) = Range(s)
  <2> HIDE DEF D
  <2>1. \A x \in Range(r) : x \in Range(s)
    BY <1>4 DEF Range, D
  <2>2. \A x \in Range(s) : x \in Range(r)
    BY <1>4 DEF Range, D
  <2> QED BY <2>1, <2>2
<1> QED BY <1>5, <1>6

(* A step of the default mode.                                             *)
LEMMA RunReportStep == IInv /\ RunReport => IInv'
<1> SUFFICES ASSUME IInv, RunReport PROVE IInv'
  OBVIOUS
<1>1. mode = "default" /\ mode' = "default" /\ R!Next /\ UNCHANGED cli
  BY DEF RunReport, cli
<1>2. ModeStep /\ flags' = flags /\ (counts' = counts \/ counts' \in R!Rearrangements(counts))
  BY <1>1, ReportStep DEF ModeStep
<1>3. ASSUME Accepted, mode = "default" => counts \in Seq(Nat \ {0})
      PROVE  Accepted' /\ (mode = "default" => counts \in Seq(Nat \ {0}))'
  <2>1. counts' \in Seq(Nat \ {0}) /\ Range(counts') = Range(counts)
    BY <1>1, <1>2, <1>3, SortedCounts
  <2> QED BY <1>1, <1>2, <1>3, <2>1 DEF Accepted
<1> QED BY <1>1, <1>2, <1>3, ModeStepInv

(* A step of --solve.                                                      *)
LEMMA RunSolveStep == IInv /\ RunSolve => IInv'
<1> SUFFICES ASSUME IInv, RunSolve PROVE IInv'
  OBVIOUS
<1>1. mode = "solve" /\ mode' = "solve" /\ S!Next /\ UNCHANGED cli
  BY DEF RunSolve, cli
<1>2. ModeStep /\ flags' = flags
  BY <1>1, SolveStep DEF ModeStep
<1>3. Accepted => Accepted'
  BY <1>1, <1>2 DEF Accepted
<1>4. (mode = "default" => counts \in Seq(Nat \ {0}))'
  BY <1>1
<1> QED BY <1>1, <1>2, <1>3, <1>4, ModeStepInv

(* A step of --handshake.                                                  *)
LEMMA RunHandshakeStep == IInv /\ RunHandshake => IInv'
<1> SUFFICES ASSUME IInv, RunHandshake PROVE IInv'
  OBVIOUS
<1>1. mode = "handshake" /\ mode' = "handshake" /\ UNCHANGED flags /\ H!Next /\ UNCHANGED cli
  BY DEF RunHandshake, cli
<1>2. ModeStep /\ flags' = flags
  BY <1>1, HandshakeStep DEF ModeStep
<1>3. Accepted => Accepted'
  BY <1>1, <1>2 DEF Accepted
<1>4. (mode = "default" => counts \in Seq(Nat \ {0}))'
  BY <1>1
<1> QED BY <1>1, <1>2, <1>3, <1>4, ModeStepInv

(* A step of --migration.                                                  *)
LEMMA RunMigrationStep == IInv /\ RunMigration => IInv'
<1> SUFFICES ASSUME IInv, RunMigration PROVE IInv'
  OBVIOUS
<1>1. mode = "migration" /\ mode' = "migration" /\ M!Next /\ UNCHANGED cli
  BY DEF RunMigration, cli
<1>2. ModeStep /\ flags' = flags
  BY <1>1, MigrationStep DEF ModeStep
<1>3. Accepted => Accepted'
  BY <1>1, <1>2 DEF Accepted
<1>4. (mode = "default" => counts \in Seq(Nat \ {0}))'
  BY <1>1
<1> QED BY <1>1, <1>2, <1>3, <1>4, ModeStepInv

(* Nothing happens.                                                        *)
LEMMA CliStutter == IInv /\ UNCHANGED vars => IInv'
<1> SUFFICES ASSUME IInv, UNCHANGED vars PROVE IInv'
  OBVIOUS
<1>1. UNCHANGED <<argv, mode, parsed, next, refused, flags, pc, stdout, counts>>
  BY DEF vars, cli, report
<1>2. \A flag : parse(flag)' = parse(flag)
  BY <1>1, ParseConstant
<1>3. Accepted' <=> Accepted
  BY <1>1 DEF Accepted
<1> QED BY <1>1, <1>2, <1>3
        DEF IInv, Decided, ListsParsed, SilentSoFar, Called, Entered, RefusedOne

(* The invariant, from whatever command line the program starts.           *)
THEOREM CliInvariant == Spec => []IInv
<1>1. IInv /\ [Next]_vars => IInv'
  BY DecideStep, ParseStep, printSchemesStep, EnterSolveStep, EnterMigrationStep,
     EnterHandshakeStep, EnterReportStep, RunReportStep, RunSolveStep, RunHandshakeStep,
     RunMigrationStep, CliStutter DEF Next
<1> QED BY CliInit, <1>1, PTL DEF Spec

(* No mode is called with lists it does not expect, and no list is refused *)
(* without a token to blame (main.go, 36-110 and 226-292).                 *)
THEOREM ModesMeetTheirAssumptions == Spec => []ModesStartOnWhatTheyAssume
<1>1. IInv => ModesStartOnWhatTheyAssume
  <2> SUFFICES ASSUME IInv PROVE ModesStartOnWhatTheyAssume
    OBVIOUS
  <2> DEFINE lists == ListsOf[mode]
  <2>1. ASSUME Entered
        PROVE  /\ Accepted
               /\ \A flag \in Range(lists) :
                    parsed[flag] # <<>> /\ Len(parsed[flag]) = Len(Given(argv[flag]))
    <3>1. next = Len(lists) + 1 /\ Accepted /\ pc # "main"
      BY <2>1 DEF IInv, Called, Entered
    <3>2. mode \in DOMAIN ListsOf
      BY <3>1 DEF IInv, Decided
    <3>3. /\ Len(lists) \in Nat /\ DOMAIN lists = 1 .. Len(lists)
          /\ Range(lists) \subseteq DOMAIN Kinds
      BY <3>2, ModeLists
    <3>4. next - 1 = Len(lists)
      BY <3>1, <3>3
    <3>5. ASSUME NEW flag \in Range(lists)
          PROVE  parsed[flag] # <<>> /\ Len(parsed[flag]) = Len(Given(argv[flag]))
      <4>1. PICK k \in 1 .. Len(lists) : flag = lists[k]
        BY <3>3 DEF Range
      <4>2. parsed[flag] = parse(flag) /\ parsed[flag] # <<>>
        BY <3>1, <3>4, <4>1 DEF IInv, ListsParsed
      <4>3. ParsedAs(Kinds[flag], flag, parse(flag), argv[flag])
        BY <3>3, ParseIsRight DEF IInv
      <4> QED BY <4>2, <4>3 DEF ParsedAs
    <3> QED BY <3>1, <3>5
  <2>2. ASSUME refused # "none"
        PROVE  /\ stdout = <<>> /\ pc = "exit 1"
               /\ refused \in Range(lists)
               /\ LET given == Given(argv[refused])
                  IN  given = <<>> \/ \E t \in Range(given) : Bad(refused, t)
    <3>1. stdout = <<>> /\ pc = "exit 1" /\ refused \in Range(lists) /\ parse(refused) = <<>>
      BY <2>2 DEF IInv, RefusedOne
    <3>2. mode \in DOMAIN ListsOf
      BY <3>1 DEF IInv, Decided
    <3>3. refused \in DOMAIN Kinds
      BY <3>1, <3>2, ModeLists
    <3>4. ParsedAs(Kinds[refused], refused, <<>>, argv[refused])
      BY <3>1, <3>3, ParseIsRight DEF IInv
    <3> QED BY <3>1, <3>4 DEF ParsedAs
  <2> QED BY <2>1, <2>2 DEF ModesStartOnWhatTheyAssume
<1> QED BY <1>1, CliInvariant, PTL
-----------------------------------------------------------------------------
(* A mode is called with lists that are not empty, which is what its       *)
(* proofs are about.                                                       *)
SolveFlags == {f \in S!FlagSet : <<>> \notin {f.schemes, f.links, f.rounds, f.peers}}

ReportFlags ==
  {f \in R!FlagSet : <<>> \notin {f.schemes, f.counts, f.links, f.rounds, f.peers}}

MigrationFlags ==
  {f \in M!FlagSet : <<>> \notin {f.schemes, f.counts, f.rounds, f.peers}}

PS == INSTANCE SolveProofs WITH Flags <- SolveFlags
PR == INSTANCE ReportProofs WITH Flags <- ReportFlags
PM == INSTANCE MigrationProofs WITH Flags <- MigrationFlags
PH == INSTANCE HandshakeProofs WITH NameLists <- Seq(STRING) \ {<<>>}, names <- flags.schemes

(* S and PS differ only in the command lines they may begin with, which no *)
(* step and no promise depends on: definition by definition they agree.    *)
LEMMA SameSolve ==
  /\ (S!Next <=> PS!Next) /\ (S!ReportIsWholeOrAbsent <=> PS!ReportIsWholeOrAbsent)
<1>1. \A a : S!IsFiniteSet(a) <=> PS!IsFiniteSet(a)
  BY DEF S!IsFiniteSet, PS!IsFiniteSet
<1>2. \A a : S!Cardinality(a) = PS!Cardinality(a)
  BY <1>1 DEF S!Cardinality, PS!Cardinality
<1>3. \A a : S!Range(a) = PS!Range(a)
  BY DEF S!Range, PS!Range
<1>4. S!DefaultTargets = PS!DefaultTargets
  BY DEF S!DefaultTargets, PS!DefaultTargets
<1>5. \A a : S!Wrap(a) = PS!Wrap(a)
  BY DEF S!Wrap, PS!Wrap
<1>6. \A a, b : S!RequirePanics(a, b) <=> PS!RequirePanics(a, b)
  BY <1>5 DEF S!RequirePanics, S!Divisor, PS!RequirePanics, PS!Divisor
<1>7. S!budget = PS!budget
  BY DEF S!budget, PS!budget
<1>8. \A a, b : S!Quo(a, b) = PS!Quo(a, b)
  BY DEF S!Quo, S!AbsVal, PS!Quo, PS!AbsVal
<1>9. \A a : S!NaNToInt(a) = PS!NaNToInt(a)
  BY DEF S!NaNToInt, S!MinInt, PS!NaNToInt, PS!MinInt
<1>10. \A a, b : S!OutOfRange(a, b) = PS!OutOfRange(a, b)
  BY DEF S!OutOfRange, S!MinInt, PS!OutOfRange, PS!MinInt
<1>11. \A a, b : S!FloatToInt(a, b) = PS!FloatToInt(a, b)
  BY <1>8, <1>9, <1>10 DEF S!FloatToInt, S!Int64, S!MinInt, PS!FloatToInt, PS!Int64,
                           PS!MinInt
<1>12. \A a, b : S!BudgetBytes(a, b) = PS!BudgetBytes(a, b)
  BY <1>11 DEF S!BudgetBytes, PS!BudgetBytes
<1>13. \A a, b, c : S!MaxCostPerRound(a, b, c) = PS!MaxCostPerRound(a, b, c)
  BY <1>5, <1>8, <1>12 DEF S!MaxCostPerRound, S!Divisor, PS!MaxCostPerRound, PS!Divisor
<1>14. \A a : S!Demand(a) = PS!Demand(a)
  BY <1>7, <1>13 DEF S!Demand, PS!Demand
<1>15. S!RequireTarget <=> PS!RequireTarget
  BY <1>4, <1>6, <1>7, <1>14 DEF S!RequireTarget, S!Goto, PS!RequireTarget, PS!Goto
<1>16. S!RequirementsDone <=> PS!RequirementsDone
  BY <1>4 DEF S!RequirementsDone, S!Goto, PS!RequirementsDone, PS!Goto
<1>17. \A a, b, c, d : S!Scheme(a, b, c, d) = PS!Scheme(a, b, c, d)
  BY DEF S!Scheme, PS!Scheme
<1>18. S!schemes = PS!schemes
  BY <1>17 DEF S!schemes, PS!schemes
<1>19. S!SchemeNames = PS!SchemeNames
  BY <1>18 DEF S!SchemeNames, PS!SchemeNames
<1>20. \A a : S!lookupScheme(a) = PS!lookupScheme(a)
  BY <1>18 DEF S!lookupScheme, PS!lookupScheme
<1>21. S!varintSteps = PS!varintSteps
  BY DEF S!varintSteps, PS!varintSteps
<1>22. \A a : S!varintLen(a) = PS!varintLen(a)
  BY <1>2, <1>21 DEF S!varintLen, PS!varintLen
<1>23. \A a : S!VarintField(a) = PS!VarintField(a)
  BY <1>22 DEF S!VarintField, PS!VarintField
<1>24. \A a : S!BytesField(a) = PS!BytesField(a)
  BY <1>22 DEF S!BytesField, PS!BytesField
<1>25. \A a, b, c, d : S!Vote(a, b, c, d) = PS!Vote(a, b, c, d)
  BY <1>22, <1>23, <1>24 DEF S!Vote, S!Height, S!MessageField, S!fixedTimestamp,
                             PS!Vote, PS!Height, PS!MessageField, PS!fixedTimestamp
<1>26. \A a, b : S!BlockID(a, b) = PS!BlockID(a, b)
  BY <1>22, <1>24 DEF S!BlockID, S!MessageField, PS!BlockID, PS!MessageField
<1>27. S!sampleBlockID = PS!sampleBlockID
  BY <1>23, <1>24, <1>26 DEF S!sampleBlockID, S!DigestBytes, S!PartSetHeader,
                             PS!sampleBlockID, PS!DigestBytes, PS!PartSetHeader
<1>28. S!emptyBlockID = PS!emptyBlockID
  BY <1>23, <1>24, <1>26 DEF S!emptyBlockID, S!PartSetHeader, PS!emptyBlockID,
                             PS!PartSetHeader
<1>29. \A a, b, c : S!voteBytes(a, b, c) = PS!voteBytes(a, b, c)
  BY <1>25, <1>27, <1>28 DEF S!voteBytes, S!AddressWidth, PS!voteBytes, PS!AddressWidth
<1>30. \A a : S!CommitSig(a) = PS!CommitSig(a)
  BY <1>22, <1>23, <1>24 DEF S!CommitSig, S!AddressWidth, S!MessageField,
                             S!fixedTimestamp, PS!CommitSig, PS!AddressWidth,
                             PS!MessageField, PS!fixedTimestamp
<1>31. \A a, b : S!commitBytes(a, b) = PS!commitBytes(a, b)
  BY <1>22, <1>23, <1>27, <1>30 DEF S!commitBytes, S!Height, S!MessageField,
      PS!commitBytes, PS!Height, PS!MessageField
<1>32. \A a, b : S!MeasureSizes(a, b) = PS!MeasureSizes(a, b)
  BY <1>3, <1>29, <1>31 DEF S!MeasureSizes, S!PrevoteType, S!PrecommitType,
                            PS!MeasureSizes, PS!PrevoteType, PS!PrecommitType
<1>33. \A a : S!CostOf(a) = PS!CostOf(a)
  BY <1>20, <1>32 DEF S!CostOf, S!RoundTripBytes, PS!CostOf, PS!RoundTripBytes
<1>34. S!StartScheme <=> PS!StartScheme
  BY <1>19, <1>20, <1>33 DEF S!StartScheme, S!scheme, S!Goto, PS!StartScheme,
                             PS!scheme, PS!Goto
<1>35. \A a, b, c, d : S!Assess(a, b, c, d) = PS!Assess(a, b, c, d)
  BY <1>13 DEF S!Assess, S!Affordable, PS!Assess, PS!Affordable
<1>36. \A a : S!Cell(a) = PS!Cell(a)
  BY <1>7, <1>20, <1>33, <1>35 DEF S!Cell, S!scheme, PS!Cell, PS!scheme
<1>37. S!AssessTarget <=> PS!AssessTarget
  BY <1>4, <1>36 DEF S!AssessTarget, S!Goto, PS!AssessTarget, PS!Goto
<1>38. S!FinishScheme <=> PS!FinishScheme
  BY <1>4 DEF S!FinishScheme, S!Goto, PS!FinishScheme, PS!Goto
<1>39. S!PrintReport <=> PS!PrintReport
  BY DEF S!PrintReport, S!Goto, PS!PrintReport, PS!Goto
<1>40. S!Next <=> PS!Next
  BY <1>15, <1>16, <1>34, <1>37, <1>38, <1>39 DEF S!Next, PS!Next
<1>41. S!ReportIsWholeOrAbsent <=> PS!ReportIsWholeOrAbsent
  BY <1>3, <1>4, <1>7, <1>33 DEF S!ReportIsWholeOrAbsent, PS!ReportIsWholeOrAbsent
<1> QED BY <1>40, <1>41

(* So do R and PR.                                                         *)
LEMMA SameReport ==
  /\ (R!Next <=> PR!Next) /\ (R!WholeReportsUpToFailure <=> PR!WholeReportsUpToFailure)
<1>1. \A a : R!IsFiniteSet(a) <=> PR!IsFiniteSet(a)
  BY DEF R!IsFiniteSet, PR!IsFiniteSet
<1>2. \A a : R!Cardinality(a) = PR!Cardinality(a)
  BY <1>1 DEF R!Cardinality, PR!Cardinality
<1>3. \A a : R!Range(a) = PR!Range(a)
  BY DEF R!Range, PR!Range
<1>4. \A a : R!IsInjective(a) <=> PR!IsInjective(a)
  BY DEF R!IsInjective, PR!IsInjective
<1>5. \A a, b, c, d : R!Scheme(a, b, c, d) = PR!Scheme(a, b, c, d)
  BY DEF R!Scheme, PR!Scheme
<1>6. R!schemes = PR!schemes
  BY <1>5 DEF R!schemes, PR!schemes
<1>7. R!SchemeNames = PR!SchemeNames
  BY <1>6 DEF R!SchemeNames, PR!SchemeNames
<1>8. R!Lookup <=> PR!Lookup
  BY <1>7 DEF R!Lookup, R!Goto, R!Fail, PR!Lookup, PR!Goto, PR!Fail
<1>9. R!varintSteps = PR!varintSteps
  BY DEF R!varintSteps, PR!varintSteps
<1>10. \A a : R!varintLen(a) = PR!varintLen(a)
  BY <1>2, <1>9 DEF R!varintLen, PR!varintLen
<1>11. \A a : R!VarintField(a) = PR!VarintField(a)
  BY <1>10 DEF R!VarintField, PR!VarintField
<1>12. \A a : R!BytesField(a) = PR!BytesField(a)
  BY <1>10 DEF R!BytesField, PR!BytesField
<1>13. \A a, b, c, d : R!Vote(a, b, c, d) = PR!Vote(a, b, c, d)
  BY <1>10, <1>11, <1>12 DEF R!Vote, R!Height, R!MessageField, R!fixedTimestamp,
                             PR!Vote, PR!Height, PR!MessageField, PR!fixedTimestamp
<1>14. \A a, b : R!BlockID(a, b) = PR!BlockID(a, b)
  BY <1>10, <1>12 DEF R!BlockID, R!MessageField, PR!BlockID, PR!MessageField
<1>15. R!sampleBlockID = PR!sampleBlockID
  BY <1>11, <1>12, <1>14 DEF R!sampleBlockID, R!DigestBytes, R!PartSetHeader,
                             PR!sampleBlockID, PR!DigestBytes, PR!PartSetHeader
<1>16. R!emptyBlockID = PR!emptyBlockID
  BY <1>11, <1>12, <1>14 DEF R!emptyBlockID, R!PartSetHeader, PR!emptyBlockID,
                             PR!PartSetHeader
<1>17. \A a, b, c : R!voteBytes(a, b, c) = PR!voteBytes(a, b, c)
  BY <1>13, <1>15, <1>16 DEF R!voteBytes, R!AddressWidth, PR!voteBytes, PR!AddressWidth
<1>18. \A a : R!lookupScheme(a) = PR!lookupScheme(a)
  BY <1>6 DEF R!lookupScheme, PR!lookupScheme
<1>19. \A a : R!CommitSig(a) = PR!CommitSig(a)
  BY <1>10, <1>11, <1>12 DEF R!CommitSig, R!AddressWidth, R!MessageField,
                             R!fixedTimestamp, PR!CommitSig, PR!AddressWidth,
                             PR!MessageField, PR!fixedTimestamp
<1>20. \A a, b : R!commitBytes(a, b) = PR!commitBytes(a, b)
  BY <1>10, <1>11, <1>15, <1>19 DEF R!commitBytes, R!Height, R!MessageField,
      PR!commitBytes, PR!Height, PR!MessageField
<1>21. \A a, b : R!MeasureSizes(a, b) = PR!MeasureSizes(a, b)
  BY <1>3, <1>17, <1>20 DEF R!MeasureSizes, R!PrevoteType, R!PrecommitType,
                            PR!MeasureSizes, PR!PrevoteType, PR!PrecommitType
<1>22. R!MeasureScheme <=> PR!MeasureScheme
  BY <1>18, <1>21 DEF R!MeasureScheme, R!scheme, R!Goto, R!Fail, R!FirstCell,
                      PR!MeasureScheme, PR!scheme, PR!Goto, PR!Fail, PR!FirstCell
<1>23. \A a : R!Rearrangements(a) = PR!Rearrangements(a)
  BY <1>4 DEF R!Rearrangements, PR!Rearrangements
<1>24. \A a : R!Ascending(a) <=> PR!Ascending(a)
  BY DEF R!Ascending, PR!Ascending
<1>25. R!WorstPrecommit = PR!WorstPrecommit
  BY <1>17, <1>18 DEF R!WorstPrecommit, R!PrecommitType, R!scheme, PR!WorstPrecommit,
                      PR!PrecommitType, PR!scheme
<1>26. R!WorstNotes = PR!WorstNotes
  BY <1>18, <1>25 DEF R!WorstNotes, R!scheme, PR!WorstNotes, PR!scheme
<1>27. \A a, b : R!Section(a, b) = PR!Section(a, b)
  BY DEF R!Section, PR!Section
<1>28. \A a : R!CommitRows(a) = PR!CommitRows(a)
  BY DEF R!CommitRows, PR!CommitRows
<1>29. R!PrintSizes <=> PR!PrintSizes
  BY <1>18, <1>23, <1>24, <1>26, <1>27, <1>28 DEF R!PrintSizes, R!scheme, R!Goto,
      PR!PrintSizes, PR!scheme, PR!Goto
<1>30. \A a, b : R!Emit(a, b) <=> PR!Emit(a, b)
  BY <1>27 DEF R!Emit, PR!Emit
<1>31. \A a : R!Breakdown(a) = PR!Breakdown(a)
  BY <1>13, <1>15, <1>16 DEF R!Breakdown, R!Build, R!PrecommitType, R!AddressWidth,
                             PR!Breakdown, PR!Build, PR!PrecommitType, PR!AddressWidth
<1>32. R!PrintBreakdown <=> PR!PrintBreakdown
  BY <1>18, <1>30, <1>31 DEF R!PrintBreakdown, R!scheme, R!Goto, R!Fail,
                             PR!PrintBreakdown, PR!scheme, PR!Goto, PR!Fail
<1>33. \A a : R!Wrap(a) = PR!Wrap(a)
  BY DEF R!Wrap, PR!Wrap
<1>34. \A a, b : R!Quo(a, b) = PR!Quo(a, b)
  BY DEF R!Quo, R!AbsVal, PR!Quo, PR!AbsVal
<1>35. \A a : R!NaNToInt(a) = PR!NaNToInt(a)
  BY DEF R!NaNToInt, R!MinInt, PR!NaNToInt, PR!MinInt
<1>36. \A a, b : R!OutOfRange(a, b) = PR!OutOfRange(a, b)
  BY DEF R!OutOfRange, R!MinInt, PR!OutOfRange, PR!MinInt
<1>37. \A a, b : R!FloatToInt(a, b) = PR!FloatToInt(a, b)
  BY <1>34, <1>35, <1>36 DEF R!FloatToInt, R!Int64, R!MinInt, PR!FloatToInt, PR!Int64,
                             PR!MinInt
<1>38. \A a : R!BytesPerYear(a) = PR!BytesPerYear(a)
  BY <1>33, <1>37 DEF R!BytesPerYear, PR!BytesPerYear
<1>39. R!PrintStorage <=> PR!PrintStorage
  BY <1>30, <1>38 DEF R!PrintStorage, R!HasProjection, R!Goto, PR!PrintStorage,
                      PR!HasProjection, PR!Goto
<1>40. \A a, b : R!BudgetBytes(a, b) = PR!BudgetBytes(a, b)
  BY <1>37 DEF R!BudgetBytes, PR!BudgetBytes
<1>41. \A a, b, c : R!Quotient(a, b, c) = PR!Quotient(a, b, c)
  BY <1>33, <1>34, <1>40 DEF R!Quotient, R!perValidator, PR!Quotient, PR!perValidator
<1>42. \A a : R!ClampToSearch(a) = PR!ClampToSearch(a)
  BY DEF R!ClampToSearch, R!BeyondSearch, PR!ClampToSearch, PR!BeyondSearch
<1>43. \A a, b, c : R!DeriveCeiling(a, b, c) = PR!DeriveCeiling(a, b, c)
  BY <1>33, <1>40, <1>41, <1>42 DEF R!DeriveCeiling, R!perValidator, R!BeyondSearch,
      PR!DeriveCeiling, PR!perValidator, PR!BeyondSearch
<1>44. \A a : R!BudgetAt(a) = PR!BudgetAt(a)
  BY DEF R!BudgetAt, PR!BudgetAt
<1>45. \A a : R!NextCell(a) = PR!NextCell(a)
  BY DEF R!NextCell, PR!NextCell
<1>46. R!DeriveCell <=> PR!DeriveCell
  BY <1>43, <1>44, <1>45 DEF R!DeriveCell, R!RoundTripBytes, PR!DeriveCell,
                             PR!RoundTripBytes
<1>47. R!PrintCeilings <=> PR!PrintCeilings
  BY <1>30 DEF R!PrintCeilings, R!Goto, PR!PrintCeilings, PR!Goto
<1>48. R!Compare <=> PR!Compare
  BY DEF R!Compare, R!Tighter, PR!Compare, PR!Tighter
<1>49. R!PrintBinding <=> PR!PrintBinding
  BY <1>27 DEF R!PrintBinding, R!RoundTripBytes, R!Goto, PR!PrintBinding,
               PR!RoundTripBytes, PR!Goto
<1>50. R!Next <=> PR!Next
  BY <1>8, <1>22, <1>29, <1>32, <1>39, <1>46, <1>47, <1>48, <1>49 DEF R!Next, PR!Next
<1>51. R!Ended <=> PR!Ended
  BY DEF R!Ended, PR!Ended
<1>52. R!Kinds = PR!Kinds
  BY DEF R!Kinds, PR!Kinds
<1>53. \A a, b : R!Printed(a, b) = PR!Printed(a, b)
  BY <1>3 DEF R!Printed, PR!Printed
<1>54. \A a : R!WholeReport(a) <=> PR!WholeReport(a)
  BY <1>2, <1>52, <1>53 DEF R!WholeReport, PR!WholeReport
<1>55. R!WholeReportsUpToFailure <=> PR!WholeReportsUpToFailure
  BY <1>7, <1>51, <1>52, <1>53, <1>54 DEF R!WholeReportsUpToFailure,
      PR!WholeReportsUpToFailure
<1> QED BY <1>50, <1>55

(* So do H and PH.                                                         *)
LEMMA SameHandshake ==
  /\ (H!Next <=> PH!Next) /\ (H!TableIsWholeOrAbsent <=> PH!TableIsWholeOrAbsent)
<1>1. \A a : H!IsFiniteSet(a) <=> PH!IsFiniteSet(a)
  BY DEF H!IsFiniteSet, PH!IsFiniteSet
<1>2. \A a : H!Cardinality(a) = PH!Cardinality(a)
  BY <1>1 DEF H!Cardinality, PH!Cardinality
<1>3. \A a : H!Range(a) = PH!Range(a)
  BY DEF H!Range, PH!Range
<1>4. \A a, b, c, d : H!Profile(a, b, c, d) = PH!Profile(a, b, c, d)
  BY DEF H!Profile, PH!Profile
<1>5. H!x25519PublicKeyBytes = PH!x25519PublicKeyBytes
  BY DEF H!x25519PublicKeyBytes, PH!x25519PublicKeyBytes
<1>6. H!varintSteps = PH!varintSteps
  BY DEF H!varintSteps, PH!varintSteps
<1>7. \A a : H!varintLen(a) = PH!varintLen(a)
  BY <1>2, <1>6 DEF H!varintLen, PH!varintLen
<1>8. \A a : H!BytesField(a) = PH!BytesField(a)
  BY <1>7 DEF H!BytesField, PH!BytesField
<1>9. \A a, b : H!AuthSigMessage(a, b) = PH!AuthSigMessage(a, b)
  BY <1>7, <1>8 DEF H!AuthSigMessage, H!MessageField, PH!AuthSigMessage, PH!MessageField
<1>10. \A a : H!authSigMessageBytes(a) = PH!authSigMessageBytes(a)
  BY <1>7, <1>9 DEF H!authSigMessageBytes, H!ed25519PubKeySize, H!varintGrowth,
                    PH!authSigMessageBytes, PH!ed25519PubKeySize, PH!varintGrowth
<1>11. \A a, b, c, d : H!Scheme(a, b, c, d) = PH!Scheme(a, b, c, d)
  BY DEF H!Scheme, PH!Scheme
<1>12. H!UpstreamHandshake = PH!UpstreamHandshake
  BY <1>4, <1>5, <1>10, <1>11 DEF H!UpstreamHandshake, PH!UpstreamHandshake
<1>13. H!MeasureUpstream <=> PH!MeasureUpstream
  BY <1>12 DEF H!MeasureUpstream, H!Goto, PH!MeasureUpstream, PH!Goto
<1>14. H!SkipEd25519 <=> PH!SkipEd25519
  BY DEF H!SkipEd25519, PH!SkipEd25519
<1>15. H!schemes = PH!schemes
  BY <1>11 DEF H!schemes, PH!schemes
<1>16. H!SchemeNames = PH!SchemeNames
  BY <1>15 DEF H!SchemeNames, PH!SchemeNames
<1>17. \A a : H!PQAuthOnlyHandshake(a) = PH!PQAuthOnlyHandshake(a)
  BY <1>4, <1>5, <1>10 DEF H!PQAuthOnlyHandshake, PH!PQAuthOnlyHandshake
<1>18. \A a : H!lookupScheme(a) = PH!lookupScheme(a)
  BY <1>15 DEF H!lookupScheme, PH!lookupScheme
<1>19. H!mlkem768EncapsulationKeyBytes = PH!mlkem768EncapsulationKeyBytes
  BY DEF H!mlkem768EncapsulationKeyBytes, PH!mlkem768EncapsulationKeyBytes
<1>20. H!mlkem768CiphertextBytes = PH!mlkem768CiphertextBytes
  BY DEF H!mlkem768CiphertextBytes, PH!mlkem768CiphertextBytes
<1>21. \A a : H!HybridKEMHandshake(a) = PH!HybridKEMHandshake(a)
  BY <1>4, <1>5, <1>10, <1>19, <1>20 DEF H!HybridKEMHandshake, PH!HybridKEMHandshake
<1>22. H!AddProfiles <=> PH!AddProfiles
  BY <1>16, <1>17, <1>18, <1>21 DEF H!AddProfiles, H!scheme, PH!AddProfiles, PH!scheme
<1>23. H!FailName <=> PH!FailName
  BY DEF H!FailName, H!Goto, PH!FailName, PH!Goto
<1>24. \A a, b : H!Leg(a, b) = PH!Leg(a, b)
  BY DEF H!Leg, PH!Leg
<1>25. \A a : H!Total(a) = PH!Total(a)
  BY <1>24 DEF H!Total, PH!Total
<1>26. H!PrintProfiles <=> PH!PrintProfiles
  BY <1>25 DEF H!PrintProfiles, H!Goto, PH!PrintProfiles, PH!Goto
<1>27. H!Next <=> PH!Next
  BY <1>13, <1>14, <1>22, <1>23, <1>26 DEF H!Next, PH!Next
<1>28. \A a : H!Upgraded(a) = PH!Upgraded(a)
  BY DEF H!Upgraded, PH!Upgraded
<1>29. H!TableIsWholeOrAbsent <=> PH!TableIsWholeOrAbsent
  BY <1>2, <1>3, <1>12, <1>16, <1>28 DEF H!TableIsWholeOrAbsent, H!Rank,
      PH!TableIsWholeOrAbsent, PH!Rank
<1> QED BY <1>27, <1>29

(* The floats of PM are main's too.                                        *)
LEMMA SameFloatsProved ==
  (\A a : PM!Rounded(a) = Rounded(a)) /\ PM!Float64s = Float64s
<1>1. PM!spacing = spacing
  BY DEF PM!spacing, spacing
<1>2. \A a, b : PM!Nearest(a, b) = Nearest(a, b)
  BY DEF PM!Nearest, Nearest
<1>3. \A a : PM!RoundedNat(a) = RoundedNat(a)
  BY <1>1, <1>2 DEF PM!RoundedNat, RoundedNat
<1>4. \A a : PM!Rounded(a) = Rounded(a)
  BY <1>3 DEF PM!Rounded, Rounded
<1>5. PM!Fractions = Fractions
  BY DEF PM!Fractions, Fractions
<1>6. PM!Float64s = Float64s
  BY <1>1, <1>4, <1>5 DEF PM!Float64s, Float64s
<1> QED BY <1>4, <1>6

(* So do M and PM.                                                         *)
LEMMA SameMigration ==
  /\ (M!Next <=> PM!Next) /\ (M!TablesAreWholeOrAbsent <=> PM!TablesAreWholeOrAbsent)
<1>1. \A a : M!IsFiniteSet(a) <=> PM!IsFiniteSet(a)
  BY DEF M!IsFiniteSet, PM!IsFiniteSet
<1>2. \A a : M!Cardinality(a) = PM!Cardinality(a)
  BY <1>1 DEF M!Cardinality, PM!Cardinality
<1>3. \A a : M!Range(a) = PM!Range(a)
  BY DEF M!Range, PM!Range
<1>4. \A a, b, c, d : M!Scheme(a, b, c, d) = PM!Scheme(a, b, c, d)
  BY DEF M!Scheme, PM!Scheme
<1>5. M!schemes = PM!schemes
  BY <1>4 DEF M!schemes, PM!schemes
<1>6. M!Implemented = PM!Implemented
  BY DEF M!Implemented, PM!Implemented
<1>7. \A a : M!keyRounds(a) = PM!keyRounds(a)
  BY DEF M!keyRounds, PM!keyRounds
<1>8. M!SchemeNames = PM!SchemeNames
  BY <1>5 DEF M!SchemeNames, PM!SchemeNames
<1>9. \A a : M!lookupScheme(a) = PM!lookupScheme(a)
  BY <1>5 DEF M!lookupScheme, PM!lookupScheme
<1>10. M!StartScheme <=> PM!StartScheme
  BY <1>6, <1>7, <1>8 DEF M!StartScheme, M!MoreNames, M!name, M!Goto, M!Fail,
                          PM!StartScheme, PM!MoreNames, PM!name, PM!Goto, PM!Fail
<1>11. M!PerKey = PM!PerKey
  BY <1>7 DEF M!PerKey, M!name, PM!PerKey, PM!name
<1>12. M!Sample = PM!Sample
  BY <1>11 DEF M!Sample, PM!Sample
<1>13. M!SampleKey <=> PM!SampleKey
  BY <1>12 DEF M!SampleKey, M!Fail, M!Goto, PM!SampleKey, PM!Fail, PM!Goto
<1>14. \A a, b : M!pct(a, b) = PM!pct(a, b)
  BY DEF M!pct, PM!pct
<1>15. \A a, b, c : M!profileFrom(a, b, c) = PM!profileFrom(a, b, c)
  BY <1>14 DEF M!profileFrom, M!Median, M!Tail95, PM!profileFrom, PM!Median, PM!Tail95
<1>16. \A a, b : M!Below(a, b) = PM!Below(a, b)
  BY <1>2 DEF M!Below, PM!Below
<1>17. \A a, b : M!Within(a, b) = PM!Within(a, b)
  BY <1>2 DEF M!Within, PM!Within
<1>18. \A a : M!sortDurations(a) = PM!sortDurations(a)
  BY <1>3, <1>16, <1>17 DEF M!sortDurations, PM!sortDurations
<1>19. M!Profile = PM!Profile
  BY <1>15, <1>18 DEF M!Profile, M!name, PM!Profile, PM!name
<1>20. M!FinishScheme <=> PM!FinishScheme
  BY <1>19 DEF M!FinishScheme, M!ProfilePanics, M!Goto, M!name, M!SizedOn,
               PM!FinishScheme, PM!ProfilePanics, PM!Goto, PM!name, PM!SizedOn
<1>21. \A a, b : M!Table(a, b) = PM!Table(a, b)
  BY DEF M!Table, PM!Table
<1>22. \A a : M!Heading(a) = PM!Heading(a)
  BY DEF M!Heading, PM!Heading
<1>23. \A a, b : M!Flush(a, b) <=> PM!Flush(a, b)
  BY <1>21, <1>22 DEF M!Flush, M!MoreNames, M!Goto, PM!Flush, PM!MoreNames, PM!Goto
<1>24. M!FlushScheme <=> PM!FlushScheme
  BY <1>23 DEF M!FlushScheme, PM!FlushScheme
<1>25. \A a, b : M!AddRows(a, b) <=> PM!AddRows(a, b)
  BY DEF M!AddRows, M!MoreNames, PM!AddRows, PM!MoreNames
<1>26. \A a : M!Wrap(a) = PM!Wrap(a)
  BY DEF M!Wrap, PM!Wrap
<1>27. \A a : M!VotesOfOthers(a) = PM!VotesOfOthers(a)
  BY <1>26 DEF M!VotesOfOthers, PM!VotesOfOthers
<1>28. \A a, b : M!Quo(a, b) = PM!Quo(a, b)
  BY DEF M!Quo, M!AbsVal, PM!Quo, PM!AbsVal
<1>29. \A a : M!NaNToInt(a) = PM!NaNToInt(a)
  BY DEF M!NaNToInt, M!MinInt, PM!NaNToInt, PM!MinInt
<1>30. \A a, b : M!OutOfRange(a, b) = PM!OutOfRange(a, b)
  BY DEF M!OutOfRange, M!MinInt, PM!OutOfRange, PM!MinInt
<1>31. \A a, b : M!FloatToInt(a, b) = PM!FloatToInt(a, b)
  BY <1>28, <1>29, <1>30 DEF M!FloatToInt, M!Int64, M!MinInt, PM!FloatToInt, PM!Int64,
                             PM!MinInt
<1>32. \A a, b, c, d, e : M!AssessRound(a, b, c, d, e) = PM!AssessRound(a, b, c, d, e)
  BY <1>26, <1>27, <1>28, <1>31 DEF M!AssessRound, M!AtLeastOne, M!FitsBefore,
      PM!AssessRound, PM!AtLeastOne, PM!FitsBefore
<1>33. \A a, b : M!RoundRow(a, b) = PM!RoundRow(a, b)
  BY <1>32 DEF M!RoundRow, M!name, PM!RoundRow, PM!name
<1>34. M!AssessRounds <=> PM!AssessRounds
  BY <1>25, <1>33 DEF M!AssessRounds, M!name, M!Pairs, PM!AssessRounds, PM!name,
                      PM!Pairs
<1>35. M!FlushRounds <=> PM!FlushRounds
  BY <1>23 DEF M!FlushRounds, PM!FlushRounds
<1>36. M!varintSteps = PM!varintSteps
  BY DEF M!varintSteps, PM!varintSteps
<1>37. \A a : M!varintLen(a) = PM!varintLen(a)
  BY <1>2, <1>36 DEF M!varintLen, PM!varintLen
<1>38. \A a : M!VarintField(a) = PM!VarintField(a)
  BY <1>37 DEF M!VarintField, PM!VarintField
<1>39. \A a : M!BytesField(a) = PM!BytesField(a)
  BY <1>37 DEF M!BytesField, PM!BytesField
<1>40. \A a, b : M!BlockID(a, b) = PM!BlockID(a, b)
  BY <1>37, <1>39 DEF M!BlockID, M!MessageField, PM!BlockID, PM!MessageField
<1>41. M!sampleBlockID = PM!sampleBlockID
  BY <1>38, <1>39, <1>40 DEF M!sampleBlockID, M!DigestBytes, M!PartSetHeader,
                             PM!sampleBlockID, PM!DigestBytes, PM!PartSetHeader
<1>42. \A a : M!CommitSig(a) = PM!CommitSig(a)
  BY <1>37, <1>38, <1>39 DEF M!CommitSig, M!AddressWidth, M!MessageField,
                             M!fixedTimestamp, PM!CommitSig, PM!AddressWidth,
                             PM!MessageField, PM!fixedTimestamp
<1>43. \A a, b : M!commitBytes(a, b) = PM!commitBytes(a, b)
  BY <1>37, <1>38, <1>41, <1>42 DEF M!commitBytes, M!Height, M!MessageField,
      PM!commitBytes, PM!Height, PM!MessageField
<1>44. \A a : M!Validator(a) = PM!Validator(a)
  BY <1>37, <1>38, <1>39 DEF M!Validator, M!AddressWidth, M!MessageField,
                             M!VotingPower, PM!Validator, PM!AddressWidth,
                             PM!MessageField, PM!VotingPower
<1>45. \A a, b : M!MeasureClientUpdate(a, b) = PM!MeasureClientUpdate(a, b)
  <2>1. M!shiftLoop = PM!shiftLoop
    BY DEF M!shiftLoop, PM!shiftLoop
  <2>2. \A a : M!Int64Field(a) = PM!Int64Field(a)
    BY <2>1 DEF M!Int64Field, PM!Int64Field
  <2> QED BY <1>26, <1>37, <1>38, <1>43, <1>44, <2>2 DEF M!MeasureClientUpdate,
          M!MessageField, M!VotingPower, PM!MeasureClientUpdate, PM!MessageField,
          PM!VotingPower
<1>46. M!MeasureUpdates <=> PM!MeasureUpdates
  BY <1>9, <1>25, <1>45 DEF M!MeasureUpdates, M!scheme, M!name, PM!MeasureUpdates,
                            PM!scheme, PM!name
<1>47. \A a : M!FailIn(a) <=> PM!FailIn(a)
  BY DEF M!FailIn, M!MoreNames, M!Fail, M!Goto, PM!FailIn, PM!MoreNames, PM!Fail,
         PM!Goto
<1>48. M!FlushUpdates <=> PM!FlushUpdates
  BY <1>23 DEF M!FlushUpdates, PM!FlushUpdates
<1>49. \A a : M!ClampFraction(a) = PM!ClampFraction(a)
  BY DEF M!ClampFraction, PM!ClampFraction
<1>50. \A a, b, c : M!EstimateGossip(a, b, c) = PM!EstimateGossip(a, b, c)
  <2>1. \A a : M!Rounded(a) = PM!Rounded(a)
    BY SameFloats, SameFloatsProved
  <2>2. \A u : M!Modelled(u) = PM!Modelled(u)
    BY <1>31, <1>49, <2>1 DEF M!Modelled, PM!Modelled
  <2> QED BY <1>9, <1>26, <2>2 DEF M!EstimateGossip, M!scheme, M!name,
                                   PM!EstimateGossip, PM!scheme, PM!name
<1>51. \A a, b, c, d : M!Vote(a, b, c, d) = PM!Vote(a, b, c, d)
  BY <1>37, <1>38, <1>39 DEF M!Vote, M!Height, M!MessageField, M!fixedTimestamp,
                             PM!Vote, PM!Height, PM!MessageField, PM!fixedTimestamp
<1>52. M!emptyBlockID = PM!emptyBlockID
  BY <1>38, <1>39, <1>40 DEF M!emptyBlockID, M!PartSetHeader, PM!emptyBlockID,
                             PM!PartSetHeader
<1>53. \A a, b, c : M!voteBytes(a, b, c) = PM!voteBytes(a, b, c)
  BY <1>41, <1>51, <1>52 DEF M!voteBytes, M!AddressWidth, PM!voteBytes, PM!AddressWidth
<1>54. \A a, b : M!MeasureSizes(a, b) = PM!MeasureSizes(a, b)
  BY <1>3, <1>43, <1>53 DEF M!MeasureSizes, M!PrevoteType, M!PrecommitType,
                            PM!MeasureSizes, PM!PrevoteType, PM!PrecommitType
<1>55. M!EstimateAll <=> PM!EstimateAll
  BY <1>9, <1>25, <1>50, <1>54 DEF M!EstimateAll, M!Pairs, M!RoundTripBytes, M!scheme,
                                   M!name, PM!EstimateAll, PM!Pairs, PM!RoundTripBytes,
                                   PM!scheme, PM!name
<1>56. M!FlushGossip <=> PM!FlushGossip
  BY <1>23 DEF M!FlushGossip, PM!FlushGossip
<1>57. \A a, b, c : M!Change(a, b, c) = PM!Change(a, b, c)
  BY DEF M!Change, PM!Change
<1>58. \A a : M!compact(a) = PM!compact(a)
  BY DEF M!compact, M!RoundTripBytes, PM!compact, PM!RoundTripBytes
<1>59. \A a : M!Mitigations(a) = PM!Mitigations(a)
  BY <1>57, <1>58 DEF M!Mitigations, M!RoundTripBytes, PM!Mitigations, PM!RoundTripBytes
<1>60. M!PrintMitigations <=> PM!PrintMitigations
  BY <1>9, <1>21, <1>54, <1>59 DEF M!PrintMitigations, M!MoreNames, M!scheme, M!name,
                                   PM!PrintMitigations, PM!MoreNames, PM!scheme, PM!name
<1>61. M!Close <=> PM!Close
  BY DEF M!Close, M!MoreNames, M!Goto, PM!Close, PM!MoreNames, PM!Goto
<1>62. M!Next <=> PM!Next
  BY <1>10, <1>13, <1>20, <1>24, <1>34, <1>35, <1>46, <1>47, <1>48, <1>55, <1>56, <1>60, <1>61 DEF
      M!Next, M!FailUpdate, M!FailGossip, M!FailMitigations, PM!Next, PM!FailUpdate,
      PM!FailGossip, PM!FailMitigations
<1>63. M!Sections = PM!Sections
  BY DEF M!Sections, PM!Sections
<1>64. \A a : M!Printed(a) = PM!Printed(a)
  BY <1>3 DEF M!Printed, PM!Printed
<1>65. \A a, b : M!RowsOf(a, b) = PM!RowsOf(a, b)
  BY DEF M!RowsOf, PM!RowsOf
<1>66. \A a : M!Times(a) = PM!Times(a)
  BY <1>2 DEF M!Times, PM!Times
<1>67. \A a, b : M!Size(a, b) = PM!Size(a, b)
  BY <1>6 DEF M!Size, PM!Size
<1>68. M!MitigationTables = PM!MitigationTables
  BY DEF M!MitigationTables, PM!MitigationTables
<1>69. M!TablesAreWholeOrAbsent <=> PM!TablesAreWholeOrAbsent
  <2>1. /\ \A table, n : M!Cardinality(M!RowsOf(table, n)) = PM!Cardinality(PM!RowsOf(table, n))
        /\ \A section, n : M!Times(n) * M!Size(section, n) = PM!Times(n) * PM!Size(section, n)
        /\ M!Range(M!Sections) = PM!Range(PM!Sections)
        /\ M!Range(flags.schemes) = PM!Range(flags.schemes)
        /\ M!Cardinality(M!MitigationTables) = PM!Cardinality(PM!MitigationTables)
    BY <1>2, <1>3, <1>63, <1>65, <1>66, <1>67, <1>68
  <2> DEFINE Whole(section, table) ==
               /\ \A n \in M!Range(flags.schemes) :
                    M!Cardinality(M!RowsOf(table, n)) = M!Times(n) * M!Size(section, n)
               /\ \A k \in DOMAIN table : table[k].scheme \in M!Range(flags.schemes)
             PWhole(section, table) ==
               /\ \A n \in PM!Range(flags.schemes) :
                    PM!Cardinality(PM!RowsOf(table, n)) = PM!Times(n) * PM!Size(section, n)
               /\ \A k \in DOMAIN table : table[k].scheme \in PM!Range(flags.schemes)
  <2>2. ASSUME NEW section, NEW table PROVE Whole(section, table) <=> PWhole(section, table)
    <3>1. \A n : M!Cardinality(M!RowsOf(table, n)) = M!Times(n) * M!Size(section, n)
                  <=> PM!Cardinality(PM!RowsOf(table, n)) = PM!Times(n) * PM!Size(section, n)
      BY <2>1
    <3> QED BY <2>1, <3>1
  <2>6. \A section : M!Printed(section) = PM!Printed(section)
    BY <1>64
  <2> HIDE DEF Whole, PWhole
  <2>7. (\A section \in M!Range(M!Sections) \ {"mitigations"} :
           \A table \in M!Printed(section) : Whole(section, table))
        <=> (\A section \in PM!Range(PM!Sections) \ {"mitigations"} :
               \A table \in PM!Printed(section) : PWhole(section, table))
    BY <2>1, <2>2, <2>6
  <2>3. (\A k \in 1 .. 4 : M!Printed(M!Sections[k]) = {} => M!Printed(M!Sections[k + 1]) = {})
        <=> (\A k \in 1 .. 4 : PM!Printed(PM!Sections[k]) = {} => PM!Printed(PM!Sections[k + 1]) = {})
    <3>1. \A j : M!Printed(M!Sections[j]) = PM!Printed(PM!Sections[j])
      BY <1>63, <1>64
    <3> QED BY <3>1
  <2>4. (M!Range(flags.schemes) \subseteq M!SchemeNames \/ M!Printed("cpu") = {})
        <=> (PM!Range(flags.schemes) \subseteq PM!SchemeNames \/ PM!Printed("cpu") = {})
    BY <1>8, <1>64, <2>1, Zenon
  <2>5. (\A section \in M!Range(M!Sections) : M!Printed(section) # {})
        <=> (\A section \in PM!Range(PM!Sections) : PM!Printed(section) # {})
    BY <1>64, <2>1, Zenon
  <2> QED BY <2>1, <2>7, <2>3, <2>4, <2>5, Zenon
          DEF Whole, PWhole, M!TablesAreWholeOrAbsent, PM!TablesAreWholeOrAbsent
<1> QED BY <1>62, <1>69
-----------------------------------------------------------------------------
(* The proofs assume what the flag sets say.                               *)
LEMMA SolveAssumed ==
  /\ SolveFlags \subseteq PS!FlagSet
  /\ \A f \in SolveFlags : <<>> \notin {f.schemes, f.links, f.rounds, f.peers}
<1>1. S!FlagSet = PS!FlagSet
  BY DEF S!FlagSet, PS!FlagSet, S!Int64, PS!Int64, S!MinInt, PS!MinInt, S!Rounds, PS!Rounds,
         S!Archs, PS!Archs
<1> QED BY <1>1 DEF SolveFlags

(* The same of the default mode.                                           *)
LEMMA ReportAssumed ==
  /\ ReportFlags \subseteq PR!FlagSet
  /\ \A f \in ReportFlags : <<>> \notin {f.schemes, f.counts, f.links, f.rounds, f.peers}
<1>1. R!FlagSet = PR!FlagSet
  BY DEF R!FlagSet, PR!FlagSet, R!Int64, PR!Int64, R!MinInt, PR!MinInt, R!Rounds, PR!Rounds,
         R!Archs, PR!Archs
<1> QED BY <1>1 DEF ReportFlags

(* The same of --migration.                                                *)
LEMMA MigrationAssumed ==
  /\ MigrationFlags \subseteq PM!FlagSet
  /\ \A f \in MigrationFlags : <<>> \notin {f.schemes, f.counts, f.rounds, f.peers}
<1>1. M!FlagSet = PM!FlagSet
  BY SameFloats, SameFloatsProved DEF M!FlagSet, PM!FlagSet, M!Int64,
         PM!Int64, M!MinInt, PM!MinInt, M!Archs, PM!Archs
<1> QED BY <1>1 DEF MigrationFlags

(* What SolveProofs says of the mode that main calls.                      *)
LEMMA SolveProved ==
  /\ PS!Init => PS!IInv
  /\ PS!IInv /\ (S!Next \/ UNCHANGED PS!vars) => PS!IInv'
  /\ PS!IInv => S!ReportIsWholeOrAbsent
<1>1. PS!Init => PS!IInv
  BY PS!SolveInit, SolveAssumed, MaxIntAssumption, searchMaxAssumption
<1>2. PS!IInv /\ [PS!Next]_PS!vars => PS!IInv'
  BY PS!SolveNext, SolveAssumed, MaxIntAssumption, searchMaxAssumption
<1>3. PS!IInv => PS!ReportIsWholeOrAbsent
  BY PS!SolveWholes, SolveAssumed, MaxIntAssumption, searchMaxAssumption
<1> QED BY <1>1, <1>2, <1>3, SameSolve

(* What ReportProofs says.                                                 *)
LEMMA ReportProved ==
  /\ PR!Init => PR!IInv /\ PR!BindingInv /\ PR!SectionInv
  /\ PR!IInv /\ PR!BindingInv /\ PR!SectionInv /\ (R!Next \/ UNCHANGED PR!vars)
       => (PR!IInv /\ PR!BindingInv /\ PR!SectionInv)'
  /\ PR!SectionInv => R!WholeReportsUpToFailure
<1>1. YearSeconds \in Nat \ {0}
  BY ModesAssumption
<1>2. PR!Init => PR!IInv
  BY <1>1, PR!InitInv, ReportAssumed, MaxIntAssumption, searchMaxAssumption
<1>3. PR!Init => PR!BindingInv
  BY <1>1, PR!BindingInit, ReportAssumed, MaxIntAssumption, searchMaxAssumption
<1>4. PR!Init => PR!SectionInv
  BY <1>1, PR!SectionInit, ReportAssumed, MaxIntAssumption, searchMaxAssumption
<1>5. PR!IInv /\ [PR!Next]_PR!vars => PR!IInv'
  BY <1>1, PR!NextInv, ReportAssumed, MaxIntAssumption, searchMaxAssumption
<1>6. PR!IInv /\ PR!BindingInv /\ [PR!Next]_PR!vars => PR!BindingInv'
  BY <1>1, PR!BindingNext, ReportAssumed, MaxIntAssumption, searchMaxAssumption
<1>7. PR!IInv /\ PR!BindingInv /\ PR!SectionInv /\ [PR!Next]_PR!vars => PR!SectionInv'
  BY <1>1, PR!SectionNext, ReportAssumed, MaxIntAssumption, searchMaxAssumption
<1>8. PR!SectionInv => PR!WholeReportsUpToFailure
  BY <1>1, PR!WholeReports, ReportAssumed, MaxIntAssumption, searchMaxAssumption
<1> QED BY <1>2, <1>3, <1>4, <1>5, <1>6, <1>7, <1>8, SameReport

(* What MigrationProofs says.                                              *)
LEMMA MigrationProved ==
  /\ PM!Init => PM!IInv
  /\ PM!IInv /\ (M!Next \/ UNCHANGED PM!vars) => PM!IInv'
  /\ PM!IInv => M!TablesAreWholeOrAbsent
<1>1. /\ Durations \subseteq Nat /\ Iterations \in Nat \ {0}
      /\ {Second, KeyStep, LeastKeys, MostKeys} \subseteq Nat \ {0} /\ LeastKeys <= MostKeys
  BY ModesAssumption
<1>2. PM!Init => PM!IInv
  BY <1>1, PM!MigrationInit, MigrationAssumed, MaxIntAssumption, PrecisionAssumption,
         searchMaxAssumption
<1>3. PM!IInv /\ [PM!Next]_PM!vars => PM!IInv'
  BY <1>1, PM!MigrationNext, MigrationAssumed, MaxIntAssumption, PrecisionAssumption,
         searchMaxAssumption
<1>4. PM!IInv => PM!TablesAreWholeOrAbsent
  BY <1>1, PM!WholeTables, MigrationAssumed, MaxIntAssumption, PrecisionAssumption,
         searchMaxAssumption
<1> QED BY <1>2, <1>3, <1>4, SameMigration

(* What HandshakeProofs says.                                              *)
LEMMA HandshakeProved ==
  /\ PH!Init => PH!IInv
  /\ PH!IInv /\ (H!Next \/ UNCHANGED PH!vars) => PH!IInv'
  /\ PH!IInv => H!TableIsWholeOrAbsent
<1>1. PH!Init => PH!IInv
  BY PH!HandshakeInit, MaxIntAssumption, searchMaxAssumption
<1>2. PH!IInv /\ [PH!Next]_PH!vars => PH!IInv'
  BY PH!HandshakeNext, MaxIntAssumption, searchMaxAssumption
<1>3. PH!IInv => PH!TableIsWholeOrAbsent
  BY PH!HandshakeWholes, MaxIntAssumption, searchMaxAssumption
<1> QED BY <1>1, <1>2, <1>3, SameHandshake
-----------------------------------------------------------------------------
(* Nothing has been done on behalf of a mode.                              *)
Untouched ==
  /\ turn = 1 /\ stdout = <<>>
  /\ sizes = <<>> /\ cell = <<1, 1, 1>> /\ ceilings = <<>> /\ scan = 1 /\ best = <<>>
  /\ target = 1 /\ demands = <<>>
  /\ profiles = <<>>
  /\ keys = 0 /\ signs = <<>> /\ verifies = <<>> /\ verifyFor = <<>>
  /\ rows = <<>>

ListPrinted == pc = "exit 0" /\ Len(stdout) = Len(schemes)

ReportInv == PR!IInv /\ PR!BindingInv /\ PR!SectionInv

(* The mode that was called is in a state its own proofs know.             *)
ModeInv ==
  /\ mode = "list" => ListPrinted
  /\ mode = "solve" => PS!IInv
  /\ mode = "migration" => PM!IInv
  /\ mode = "handshake" => PH!IInv
  /\ mode = "default" => ReportInv

ModesInv ==
  /\ pc \in {"main", "parse"} => Untouched
  /\ Entered => ModeInv

(* The modes begin in states their proofs know.                            *)
LEMMA ModesBegin ==
  /\ PS!Init' => PS!IInv'
  /\ PM!Init' => PM!IInv'
  /\ PH!Init' => PH!IInv'
  /\ PR!Init' => ReportInv'
<1>1. PS!Init => PS!IInv
  BY SolveProved
<1>2. PM!Init => PM!IInv
  BY MigrationProved
<1>3. PH!Init => PH!IInv
  BY HandshakeProved
<1>4. PR!Init => ReportInv
  BY ReportProved DEF ReportInv
<1> QED BY <1>1, <1>2, <1>3, <1>4, PTL

(* The lists of the mode that is called have all been parsed, and none of  *)
(* them is empty.                                                          *)
LEMMA NoneEmpty ==
  ASSUME IInv, pc = "parse", next > Len(ListsOf[mode])
  PROVE  \A flag \in Range(ListsOf[mode]) : parsed[flag] # <<>>
<1> DEFINE lists == ListsOf[mode]
<1>1. mode \in DOMAIN ListsOf /\ next = Len(lists) + 1
  BY AllParsed
<1>2. Len(lists) \in Nat /\ DOMAIN lists = 1 .. Len(lists)
  BY <1>1, ModeLists
<1>3. next - 1 = Len(lists)
  BY <1>1, <1>2
<1> SUFFICES ASSUME NEW flag \in Range(lists) PROVE parsed[flag] # <<>>
  OBVIOUS
<1>4. PICK k \in 1 .. Len(lists) : flag = lists[k]
  BY <1>2 DEF Range
<1> QED BY <1>3, <1>4 DEF IInv, ListsParsed

(* --solve is entered as its specification begins.                         *)
LEMMA SolveEntered == IInv /\ ModesInv /\ EnterSolve => PS!Init'
<1> SUFFICES ASSUME IInv, ModesInv, EnterSolve PROVE PS!Init'
  OBVIOUS
<1>1. /\ pc = "parse" /\ mode = "solve" /\ mode' = "solve" /\ next > Len(ListsOf[mode])
      /\ pc' = "require" /\ UNCHANGED <<turn, target, demands, rows, stdout>>
      /\ refused' = refused
  BY DEF EnterSolve, Enter, cli, solve
<1>2. Untouched
  BY <1>1 DEF ModesInv
<1>3. flags' \in S!FlagSet
  <2>1. Entered'
    BY <1>1 DEF Entered, IInv, SilentSoFar
  <2>2. Accepted'
    BY <2>1, EnterSolveStep DEF IInv, Called
  <2> QED BY <1>1, <2>2 DEF Accepted
<1>4. {"links", "rounds", "peers"} \subseteq Range(ListsOf[mode])
  BY <1>1 DEF ListsOf, Range
<1>5. <<>> \notin {parsed["links"], parsed["rounds"], parsed["peers"], argv.schemes}
  BY <1>1, <1>4, NoneEmpty, ArgvsAssumption DEF IInv, ArgvSet
<1>6. flags' \in SolveFlags
  BY <1>3, <1>5 DEF EnterSolve, SolveFlags
<1> QED BY <1>1, <1>2, <1>6 DEF PS!Init, Untouched

(* --migration.                                                            *)
LEMMA MigrationEntered == IInv /\ ModesInv /\ EnterMigration => PM!Init'
<1> SUFFICES ASSUME IInv, ModesInv, EnterMigration PROVE PM!Init'
  OBVIOUS
<1>1. /\ pc = "parse" /\ mode = "migration" /\ mode' = "migration"
      /\ next > Len(ListsOf[mode])
      /\ pc' = "cpu" /\ UNCHANGED <<turn, keys, signs, verifies, verifyFor, rows>>
      /\ stdout' = <<M!Heading("cpu")>> /\ refused' = refused
  BY DEF EnterMigration, Enter, cli, migration
<1>2. Untouched
  BY <1>1 DEF ModesInv
<1>3. flags' \in M!FlagSet
  <2>1. Entered'
    BY <1>1 DEF Entered, IInv, SilentSoFar
  <2>2. Accepted'
    BY <2>1, EnterMigrationStep DEF IInv, Called
  <2> QED BY <1>1, <2>2 DEF Accepted
<1>4. {"validators", "rounds", "peers"} \subseteq Range(ListsOf[mode])
  BY <1>1 DEF ListsOf, Range
<1>5. <<>> \notin {parsed["validators"], parsed["rounds"], parsed["peers"], argv.schemes}
  BY <1>1, <1>4, NoneEmpty, ArgvsAssumption DEF IInv, ArgvSet
<1>6. flags' \in MigrationFlags
  BY <1>3, <1>5 DEF EnterMigration, MigrationFlags
<1> QED BY <1>1, <1>2, <1>6 DEF PM!Init, Untouched, M!Heading, PM!Heading

(* --handshake, which parses no list.                                      *)
LEMMA HandshakeEntered == IInv /\ ModesInv /\ EnterHandshake => PH!Init'
<1> SUFFICES ASSUME IInv, ModesInv, EnterHandshake PROVE PH!Init'
  OBVIOUS
<1>1. /\ pc = "parse" /\ pc' = "upstream" /\ UNCHANGED <<turn, profiles, stdout>>
      /\ flags' = [schemes |-> argv.schemes]
  BY DEF EnterHandshake, Enter
<1>2. Untouched
  BY <1>1 DEF ModesInv
<1>3. flags'.schemes \in Seq(STRING) \ {<<>>}
  BY <1>1, ArgvsAssumption DEF IInv, ArgvSet
<1> QED BY <1>1, <1>2, <1>3 DEF PH!Init, Untouched

(* The default mode.                                                       *)
LEMMA ReportEntered == IInv /\ ModesInv /\ EnterReport => PR!Init'
<1> SUFFICES ASSUME IInv, ModesInv, EnterReport PROVE PR!Init'
  OBVIOUS
<1>1. /\ pc = "parse" /\ mode = "default" /\ mode' = "default"
      /\ next > Len(ListsOf[mode])
      /\ pc' = "lookup" /\ UNCHANGED <<turn, sizes, cell, ceilings, scan, best, stdout>>
      /\ counts' = parsed["validators"] /\ flags'.counts = parsed["validators"]
      /\ refused' = refused
  BY DEF EnterReport, Enter, cli
<1>2. Untouched
  BY <1>1 DEF ModesInv
<1>3. flags' \in R!FlagSet
  <2>1. Entered'
    BY <1>1 DEF Entered, IInv, SilentSoFar
  <2>2. Accepted'
    BY <2>1, EnterReportStep DEF IInv, Called
  <2> QED BY <1>1, <2>2 DEF Accepted
<1>4. {"validators", "links", "rounds", "peers"} \subseteq Range(ListsOf[mode])
  BY <1>1 DEF ListsOf, Range
<1>5. <<>> \notin {parsed["validators"], parsed["links"], parsed["rounds"], parsed["peers"],
                   argv.schemes}
  BY <1>1, <1>4, NoneEmpty, ArgvsAssumption DEF IInv, ArgvSet
<1>6. flags' \in ReportFlags
  BY <1>3, <1>5 DEF EnterReport, ReportFlags
<1> QED BY <1>1, <1>2, <1>6 DEF PR!Init, PR!FirstCell, Untouched

-----------------------------------------------------------------------------
(* When main begins.                                                       *)
LEMMA ModesInit == Init => ModesInv
BY DEF Init, ModesInv, Entered, Untouched

(* While the program is deciding and parsing nothing else changes, and a   *)
(* list that is refused ends it.                                           *)
LEMMA MainSteps == IInv /\ ModesInv /\ (Decide \/ Parse) => ModesInv'
<1> SUFFICES ASSUME IInv, ModesInv, Decide \/ Parse PROVE ModesInv'
  OBVIOUS
<1>1. pc \in {"main", "parse"} /\ Untouched
  <2>1. pc = "main" \/ pc = "parse"
    BY Zenon DEF Decide, Parse
  <2> QED BY <2>1 DEF ModesInv
<1>2. UNCHANGED <<turn, stdout, report, solve, profiles, migration, rows>>
  <2>1. CASE Decide
    BY <2>1 DEF Decide
  <2>2. CASE Parse
    <3>1. /\ UNCHANGED <<argv, mode, flags, turn, stdout>>
          /\ UNCHANGED <<report, solve, profiles, migration, rows>>
      BY <2>2, Zenon DEF Parse
    <3> QED BY <3>1
  <2> QED BY <2>1, <2>2
<1>3. Untouched'
  BY <1>1, <1>2 DEF Untouched, report, solve, migration
<1>4. ~Entered'
  <2>1. CASE Decide
    BY <2>1 DEF Decide, Entered
  <2>2. CASE Parse
    <3> DEFINE lists == ListsOf[mode]
    <3>1. pc = "parse" /\ next <= Len(lists)
      BY <2>2, Zenon DEF Parse
    <3>2. mode \in DOMAIN ListsOf
      BY <3>1 DEF IInv, Decided
    <3>3. next \in 1 .. Len(lists)
      BY <3>1, <3>2, ModeLists DEF IInv, ListsParsed
    <3>4. lists[next] \in DOMAIN Kinds
      BY <3>2, <3>3, ModeLists
    <3>5. lists[next] # "none"
      BY <3>4 DEF Kinds
    <3>6. refused' = lists[next] \/ pc' = pc
      BY <2>2, Zenon DEF Parse
    <3> QED BY <3>1, <3>5, <3>6 DEF Entered
  <2> QED BY <2>1, <2>2
<1> QED BY <1>3, <1>4 DEF ModesInv

(* --list-schemes prints a line for each scheme.                           *)
LEMMA ListStep == printSchemes => ListPrinted' /\ mode' = "list"
<1> SUFFICES ASSUME printSchemes PROVE ListPrinted' /\ mode' = "list"
  OBVIOUS
<1> DEFINE line == [k \in DOMAIN schemes |->
                      <<schemes[k].name, schemes[k].sigBytes, schemes[k].pubKeyBytes>>]
<1>1. stdout' = line /\ pc' = "exit 0" /\ mode' = "list"
  <2>1. stdout' = line /\ pc' = "exit 0" /\ mode = "list" /\ cli' = cli
    BY Zenon DEF printSchemes, Enter
  <2> QED BY <2>1, Zenon DEF cli
<1>2. Len(line) = Len(schemes)
  <2>1. schemes \in Seq(Range(schemes))
    BY DEF schemes, Range
  <2>2. Len(schemes) \in Nat /\ DOMAIN schemes = 1 .. Len(schemes)
    BY <2>1, LenProperties
  <2> HIDE DEF line
  <2>3. DOMAIN line = 1 .. Len(schemes)
    BY <2>2 DEF line
  <2>4. line \in Seq(Range(line))
    BY <2>2 DEF line, Range
  <2> QED BY <2>2, <2>3, <2>4, LenProperties
<1> HIDE DEF line
<1> QED BY <1>1, <1>2, Zenon DEF ListPrinted

(* main calls a mode.                                                      *)
LEMMA EnterSteps ==
  /\ IInv /\ ModesInv
  /\ printSchemes \/ EnterSolve \/ EnterMigration \/ EnterHandshake \/ EnterReport
  => ModesInv'
<1> SUFFICES ASSUME IInv, ModesInv,
                    printSchemes \/ EnterSolve \/ EnterMigration \/ EnterHandshake \/ EnterReport
             PROVE  ModesInv'
  OBVIOUS
<1>1. CASE printSchemes
  <2>1. ListPrinted' /\ mode' = "list"
    BY <1>1, ListStep
  <2>2. pc' # "main" /\ pc' # "parse"
    BY <2>1, Zenon DEF ListPrinted
  <2> QED BY <2>1, <2>2 DEF ModesInv, ModeInv
<1>2. CASE EnterSolve
  <2>1. PS!IInv'
    BY <1>2, SolveEntered, ModesBegin
  <2>2. mode' = "solve" /\ pc' = "require"
    BY <1>2 DEF EnterSolve, Enter, cli
  <2> QED BY <2>1, <2>2 DEF ModesInv, ModeInv
<1>3. CASE EnterMigration
  <2>1. PM!IInv'
    BY <1>3, MigrationEntered, ModesBegin
  <2>2. mode' = "migration" /\ pc' = "cpu"
    BY <1>3 DEF EnterMigration, Enter, cli
  <2> QED BY <2>1, <2>2 DEF ModesInv, ModeInv
<1>4. CASE EnterHandshake
  <2>1. PH!IInv'
    BY <1>4, HandshakeEntered, ModesBegin
  <2>2. mode' = "handshake" /\ pc' = "upstream"
    BY <1>4 DEF EnterHandshake, Enter, cli
  <2> QED BY <2>1, <2>2 DEF ModesInv, ModeInv
<1>5. CASE EnterReport
  <2>1. ReportInv'
    BY <1>5, ReportEntered, ModesBegin
  <2>2. mode' = "default" /\ pc' = "lookup"
    BY <1>5 DEF EnterReport, Enter, cli
  <2> QED BY <2>1, <2>2 DEF ModesInv, ModeInv
<1> QED BY <1>1, <1>2, <1>3, <1>4, <1>5

(* A mode that takes a step has been called.                               *)
LEMMA RunsOnlyWhenCalled == IInv /\ ModesInv /\ ModeStep => ModeInv
<1> SUFFICES ASSUME IInv, ModesInv, ModeStep PROVE ModeInv
  OBVIOUS
<1>1. Entered
  <2>1. pc # "exit 1" /\ pc \notin {"main", "parse"}
    BY Zenon DEF ModeStep
  <2>2. refused # "none" => pc = "exit 1"
    BY Zenon DEF IInv, RefusedOne
  <2> QED BY <2>1, <2>2, Zenon DEF Entered
<1> QED BY <1>1 DEF ModesInv

(* The modes' own steps, by the modes' own proofs.                         *)
LEMMA RunSteps ==
  IInv /\ ModesInv /\ (RunSolve \/ RunMigration \/ RunHandshake \/ RunReport) => ModesInv'
<1> SUFFICES ASSUME IInv, ModesInv, RunSolve \/ RunMigration \/ RunHandshake \/ RunReport
             PROVE  ModesInv'
  OBVIOUS
<1>1. CASE RunSolve
  <2>1. S!Next /\ mode = "solve" /\ mode' = mode
    BY <1>1 DEF RunSolve, cli
  <2>2. ModeStep /\ pc' \notin {"main", "parse"}
    BY <2>1, SolveStep, Zenon DEF ModeStep
  <2>3. PS!IInv
    BY <2>1, <2>2, RunsOnlyWhenCalled DEF ModeInv
  <2>4. PS!IInv'
    BY <2>1, <2>3, SolveProved
  <2> QED BY <2>1, <2>2, <2>4 DEF ModesInv, ModeInv
<1>2. CASE RunMigration
  <2>1. M!Next /\ mode = "migration" /\ mode' = mode
    BY <1>2 DEF RunMigration, cli
  <2>2. ModeStep /\ pc' \notin {"main", "parse"}
    BY <2>1, MigrationStep, Zenon DEF ModeStep
  <2>3. PM!IInv
    BY <2>1, <2>2, RunsOnlyWhenCalled DEF ModeInv
  <2>4. PM!IInv'
    BY <2>1, <2>3, MigrationProved
  <2> QED BY <2>1, <2>2, <2>4 DEF ModesInv, ModeInv
<1>3. CASE RunHandshake
  <2>1. H!Next /\ UNCHANGED flags /\ mode = "handshake" /\ mode' = mode
    BY <1>3 DEF RunHandshake, cli
  <2>2. ModeStep /\ pc' \notin {"main", "parse"}
    BY <2>1, HandshakeStep, Zenon DEF ModeStep
  <2>3. PH!IInv
    BY <2>1, <2>2, RunsOnlyWhenCalled DEF ModeInv
  <2>4. PH!IInv'
    BY <2>1, <2>3, HandshakeProved
  <2> QED BY <2>1, <2>2, <2>4 DEF ModesInv, ModeInv
<1>4. CASE RunReport
  <2>1. R!Next /\ mode = "default" /\ mode' = mode
    BY <1>4 DEF RunReport, cli
  <2>2. ModeStep /\ pc' \notin {"main", "parse"}
    BY <2>1, ReportStep, Zenon DEF ModeStep
  <2>3. ReportInv
    BY <2>1, <2>2, RunsOnlyWhenCalled DEF ModeInv
  <2>4. ReportInv'
    BY <2>1, <2>3, ReportProved DEF ReportInv
  <2> QED BY <2>1, <2>2, <2>4 DEF ModesInv, ModeInv
<1> QED BY <1>1, <1>2, <1>3, <1>4

(* Nothing changes.                                                        *)
LEMMA ModesStutter == ModesInv /\ UNCHANGED vars => ModesInv'
<1> SUFFICES ASSUME ModesInv, UNCHANGED vars PROVE ModesInv'
  OBVIOUS
<1>1. /\ UNCHANGED <<flags, pc, mode, refused, turn, stdout, rows, profiles>>
      /\ UNCHANGED <<counts, sizes, cell, ceilings, scan, best, target, demands>>
      /\ UNCHANGED <<keys, signs, verifies, verifyFor>>
  BY DEF vars, cli, report, solve, migration
<1>2. Untouched => Untouched'
  BY <1>1 DEF Untouched
<1>3. PS!IInv => PS!IInv'
  BY <1>1, SolveProved DEF PS!vars
<1>4. PM!IInv => PM!IInv'
  BY <1>1, MigrationProved DEF PM!vars
<1>5. PH!IInv => PH!IInv'
  BY <1>1, HandshakeProved DEF PH!vars
<1>6. ReportInv => ReportInv'
  BY <1>1, ReportProved DEF PR!vars, ReportInv
<1>7. ListPrinted => ListPrinted'
  BY <1>1, Zenon DEF ListPrinted
<1>8. ModeInv => ModeInv'
  BY <1>1, <1>3, <1>4, <1>5, <1>6, <1>7 DEF ModeInv
<1> QED BY <1>1, <1>2, <1>8 DEF ModesInv, Entered

(* Whatever mode was called, its inductive invariant holds of the whole    *)
(* program: the four modes' proofs speak of the program that main runs.    *)
THEOREM ModesInvariant == Spec => []ModesInv
<1>1. Init => ModesInv
  BY ModesInit
<1>2. IInv /\ ModesInv /\ [Next]_vars => ModesInv'
  BY MainSteps, EnterSteps, RunSteps, ModesStutter DEF Next
<1>3. Spec => []IInv
  BY CliInvariant
<1> QED BY <1>1, <1>2, <1>3, PTL DEF Spec

(* The program keeps the promise of whatever mode was called.              *)
THEOREM ProgramKeepsItsWord == Spec => []KeepsItsWord
<1>1. IInv /\ ModesInv => KeepsItsWord
  <2> SUFFICES ASSUME IInv, ModesInv, Ended, refused = "none" PROVE Kept
    BY DEF KeepsItsWord
  <2>1. Entered
    BY Zenon DEF Ended, Entered
  <2>2. ModeInv
    BY <2>1 DEF ModesInv
  <2>3. mode \in {"list", "solve", "migration", "handshake", "default"}
    BY <2>1 DEF IInv, Decided, ListsOf, Entered
  <2>4. CASE mode = "list"
    <3>1. Len(stdout) = Len(schemes)
      BY <2>2, <2>4, Zenon DEF ModeInv, ListPrinted
    <3> QED BY <2>4, <3>1, Zenon DEF Kept
  <2>5. CASE mode = "solve"
    <3>1. S!ReportIsWholeOrAbsent
      BY <2>2, <2>5, SolveProved DEF ModeInv
    <3> QED BY <2>5, <3>1, Zenon DEF Kept
  <2>6. CASE mode = "migration"
    <3>1. M!TablesAreWholeOrAbsent
      BY <2>2, <2>6, MigrationProved DEF ModeInv
    <3> QED BY <2>6, <3>1, Zenon DEF Kept
  <2>7. CASE mode = "handshake"
    <3>1. H!TableIsWholeOrAbsent
      BY <2>2, <2>7, HandshakeProved DEF ModeInv
    <3> QED BY <2>7, <3>1, Zenon DEF Kept
  <2>8. CASE mode = "default"
    <3>1. R!WholeReportsUpToFailure
      BY <2>2, <2>8, ReportProved DEF ModeInv, ReportInv
    <3> QED BY <2>8, <3>1, Zenon DEF Kept
  <2> QED BY <2>3, <2>4, <2>5, <2>6, <2>7, <2>8
<1> QED BY <1>1, CliInvariant, ModesInvariant, PTL
=============================================================================
