------------------------------ MODULE MCSolve ------------------------------
(***************************************************************************)
(* Command lines for --solve.  In a 17-bit word the requirement of every   *)
(* target still differs, 4096 peers make the divisor wrap for the larger   *)
(* ones, and 4 x 65536 peers make it 0.                                    *)
(***************************************************************************)
EXTENDS Solve

CommandLine(names, link, round, peers, arch) ==
  [schemes |-> names, links |-> <<link, 8>>, rounds |-> <<round, <<1, 1>>>>,
   peers |-> <<peers, 1>>, arch |-> arch]

mcFlags ==
  {CommandLine(names, link, round, peers, arch) :
     names \in {<<"ed25519">>, <<"ml-dsa-65", "ed25519", "falcon-512">>,
                <<"ed25519", "">>, <<"ml-dsa-44", "ml-dsa-44">>},
     link  \in {0, 11583, 11584, 130000, MinInt},
     round \in {<<1, 1>>, <<8, 1>>, <<1, 0>>, <<0, 0>>},
     peers \in {1, 12, 4096, 65536},
     arch  \in Archs}

(* A 1 Mbit link with 50 peers: the largest target leaves no whole byte.   *)
mcSlowLink == {CommandLine(<<"ed25519">>, 1000000, <<1, 1>>, 50, "amd64")}
=============================================================================
