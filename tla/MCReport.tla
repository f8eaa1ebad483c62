------------------------------ MODULE MCReport ------------------------------
(***************************************************************************)
(* Command lines for the default mode.  TablesFlags varies what the tables *)
(* depend on over a small budget grid, GridFlags varies the grid.  Both    *)
(* are meant for a 16-bit word, in which storage, budgets and products     *)
(* reach the limits of the integers.                                       *)
(***************************************************************************)
EXTENDS ReportRefinement

CommandLine(names, ns, links, rounds, peers, storage, secs, arch) ==
  [schemes |-> names, counts |-> ns, links |-> links, rounds |-> rounds, peers |-> peers,
   storageVals |-> storage, blockSecs |-> secs, arch |-> arch]

second == <<1, 1>>

TablesFlags ==
  {CommandLine(names, ns, <<30000, 8000>>, <<second>>, <<2>>, storage, secs, arch) :
     names   \in {<<"ed25519">>, <<"falcon-512", "ed25519">>,
                  <<"ml-dsa-65", "rsa-2048", "ed25519">>,
                  <<"ed25519", "ml-dsa-65", "falcon-512">>},
     ns      \in {<<4>>, <<3, 1, 3>>, <<2, 4, 1>>},
     storage \in {1, 4, 100},
     secs    \in {<<6, 1>>, <<-6, 1>>, <<0, 1>>, <<0, 0>>, <<1, 0>>},
     arch    \in Archs}

(* The rounds <<1, 0>> and <<0, 0>> are what --rounds inf,nan parses to;   *)
(* the link 0 is --links 0.5, MinInt an overflowing number of Gbit.        *)
GridFlags ==
  {CommandLine(names, <<1, 2>>, links, rounds, peers, 2, <<6, 1>>, arch) :
     names  \in {<<"ed25519">>, <<"falcon-512", "ml-dsa-65">>},
     links  \in {<<30000>>, <<8000, 30000, 16000>>, <<0, 30000>>, <<MinInt>>},
     rounds \in {<<second>>, <<<<3, 1>>, <<1, 2>>>>, <<<<1, 0>>, <<0, 0>>>>, <<second, <<7, 1>>>>},
     peers  \in {<<1>>, <<1, 2>>, <<3, 1, 2>>, <<MaxInt, 1>>},
     arch   \in Archs}

mcSmallFlags == TablesFlags \cup GridFlags

-----------------------------------------------------------------------------
(* Two links of which each admits more validators than the search bound of *)
(* 10: the first 22 of them, the second 11.                                *)
FastLinks ==
  {CommandLine(<<"ed25519">>, <<1>>, <<64000, 32000>>, <<second>>, <<1>>, 1, <<6, 1>>, "amd64")}
=============================================================================
