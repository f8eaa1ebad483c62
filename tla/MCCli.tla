------------------------------- MODULE MCCli -------------------------------
(***************************************************************************)
(* Command lines for the whole program, in a word that has room for the    *)
(* figures the project publishes.  PublishedArgvs reproduces them; the     *)
(* others give each flag, in every mode, the values its parser refuses or  *)
(* the models behind it must cope with.                                    *)
(***************************************************************************)
EXTENDS Cli, TLC

N(value)      == Number(<<value, 1>>, "none")
Ints(ns)      == [k \in DOMAIN ns |-> N(ns[k])]
Mbit(value)   == Number(<<value, 1>>, "mbit")

Inf  == Number(<<1, 0>>, "none")
NaN  == Number(<<0, 0>>, "none")
Half == Number(<<1, 2>>, "none")

(* The mode flags; several may be given.                                   *)
Modes(given) ==
  [list_schemes |-> "list-schemes" \in given, solve |-> "solve" \in given,
   migration |-> "migration" \in given, handshake |-> "handshake" \in given]

ModeFlags == {"list-schemes", "solve", "migration", "handshake"}
SingleMode == {Modes({})} \cup {Modes({m}) : m \in ModeFlags}

(* The command line of docs/RESULTS_20260906.md.                           *)
Published(names) ==
  [schemes |-> names, validators |-> Ints(<<100, 32, 64, 128>>),
   links |-> <<Mbit(100), Mbit(500)>>, rounds |-> Ints(<<1, 3>>), peers |-> Ints(<<10, 50>>),
   storageVals |-> 100, blockSecs |-> <<6, 1>>, cores |-> 8, suppression |-> <<1, 2>>,
   arch |-> "amd64"]

PublishedArgvs ==
  {Published(<<name>>) @@ chosen : name \in SchemeNames, chosen \in SingleMode}

-----------------------------------------------------------------------------
(* One value each of the lists a parser takes and those it refuses.  The   *)
(* mode runs on with a link of 0, of a Gbit that overflows the word, and   *)
(* with rounds that are infinite or not a number.                          *)
Counts == {Ints(<<3, 1>>), <<Blank, N(2), Blank>>, <<>>, <<Blank>>, Ints(<<2, 0>>),
           Ints(<<-1>>), <<Half>>, <<N(2), Junk>>, <<Inf>>, <<Mbit(1)>>, Ints(<<MaxInt + 1>>)}

Links == {<<Mbit(100), Blank>>, <<Half, N(1)>>, <<Number(<<1, 1>>, "gbit")>>,
          <<Number(<<1, 2>>, "kbit"), Inf, NaN>>, <<>>, <<Blank, Blank>>, Ints(<<0>>),
          <<Number(<<-1, 2>>, "gbit")>>, <<Junk, N(1)>>}

Times == {Ints(<<2>>), <<Half, Blank>>, <<Inf, NaN>>, <<>>, <<Blank>>, Ints(<<1, 0>>),
          <<Number(<<-1, 0>>, "none")>>, <<Junk>>, <<Mbit(1)>>}

(* A trailing comma leaves an empty name, which is no scheme.              *)
NameLists == {<<"ed25519", "ml-dsa-65">>, <<"falcon-512", "">>, <<"">>}

Plain == [Published(<<"ed25519">>) EXCEPT !.validators = Ints(<<3, 1>>), !.links = <<Mbit(100)>>,
            !.rounds = Ints(<<1>>), !.peers = Ints(<<2>>)]

FaultyArgvs ==
  {line @@ chosen : chosen \in SingleMode, line \in
    {[Plain EXCEPT !.validators = list] : list \in Counts}
      \cup {[Plain EXCEPT !.peers = list] : list \in Counts}
      \cup {[Plain EXCEPT !.links = list, !.arch = arch] : list \in Links, arch \in Archs}
      \cup {[Plain EXCEPT !.rounds = list, !.arch = arch] : list \in Times, arch \in Archs}
      \cup {[Plain EXCEPT !.schemes = names] : names \in NameLists}
      \cup {[Plain EXCEPT !.links = <<Junk>>, !.peers = <<Junk>>, !.rounds = <<>>]}}

(* Any combination of mode flags.                                          *)
CombinedArgvs == {Plain @@ Modes(given) : given \in SUBSET ModeFlags}

mcArgvs == PublishedArgvs \cup FaultyArgvs \cup CombinedArgvs

-----------------------------------------------------------------------------
(* A published command line has run to its end in the mode m.              *)
Finished(m) == mode = m /\ pc = "exit 0" /\ argv \in PublishedArgvs

(* Published figures are known for some of the schemes.                    *)
Matches(known, value) ==
  argv.schemes[1] \in DOMAIN known => value = known[argv.schemes[1]]

Precommits ==
  [ed25519 |-> 181] @@ ("falcon-512" :> 784) @@ ("ml-dsa-44" :> 2538) @@ ("ml-dsa-65" :> 3427)
  @@ ("ml-dsa-87" :> 4745) @@ ("slh-dsa-128s" :> 7974) @@ ("composite-ed25519-ml-dsa-65" :> 3499)
  @@ ("composite-ml-dsa-65-slh-dsa-128s" :> 11291)

CommitsAt100 ==
  [ed25519 |-> 10578] @@ ("falcon-512" :> 70978) @@ ("ml-dsa-44" :> 246378)
  @@ ("ml-dsa-65" :> 335278) @@ ("ml-dsa-87" :> 467078) @@ ("slh-dsa-128s" :> 789978)
  @@ ("composite-ed25519-ml-dsa-65" :> 342478) @@ ("composite-ml-dsa-65-slh-dsa-128s" :> 1121678)

TightestCeilings ==
  [ed25519 |-> 690] @@ ("ml-dsa-44" :> 49) @@ ("ml-dsa-65" :> 36) @@ ("ml-dsa-87" :> 26)
  @@ ("composite-ed25519-ml-dsa-65" :> 35) @@ ("slh-dsa-128s" :> 15)
  @@ ("composite-ml-dsa-65-slh-dsa-128s" :> 11)

ClientUpdates ==
  [ed25519 |-> 16983] @@ ("ml-dsa-65" :> 533983) @@ ("composite-ed25519-ml-dsa-65" :> 545183)
  @@ ("composite-ml-dsa-65-slh-dsa-128s" :> 1324383)

Breakdowns ==
  "ml-dsa-65" :> [signature |-> 3312, blockID |-> 70, address |-> 22, rest |-> 23, total |-> 3427]

Handshakes == "ml-dsa-65" :> <<134, 5301, 7573>>

(***************************************************************************)
(* The figures the project publishes come out of the program on one        *)
(* command line per scheme and mode: votes, commits, the parts of a vote   *)
(* and the ceilings; client updates and mitigations; handshakes.  The      *)
(* commit in a client update is the commit of the default mode.            *)
(***************************************************************************)
PublishedFigures ==
  /\ Finished("default") =>
       /\ \A votes \in R!Printed("votes", 1) : Matches(Precommits, votes.precommitBlock)
       /\ \A table \in R!Printed("commits", 1) : Matches(CommitsAt100, table[3][2])
       /\ \A parts \in R!Printed("breakdown", 1) : Matches(Breakdowns, parts)
       /\ \A bound \in R!Printed("binding", 1) : Matches(TightestCeilings, bound.maxValidators)
  /\ Finished("migration") =>
       /\ \A table \in M!Printed("ibc") : \A u \in Range(table) : u.validators = 100 =>
            Matches(CommitsAt100, u.commit) /\ Matches(ClientUpdates, u.total)
       /\ \A table \in M!Printed("mitigations") :
            Matches("ml-dsa-65" :> <<6854, 6722>>, <<table[1].cost, table[2].cost>>)
  /\ Finished("handshake") =>
       Matches(Handshakes, [k \in DOMAIN stdout |-> stdout[k][2]])
=============================================================================
