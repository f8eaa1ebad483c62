---------------------------- MODULE MCMigration ----------------------------
(***************************************************************************)
(* Command lines for --migration in a 16-bit word, with two durations, ten *)
(* nanoseconds to the second and four timings of an operation, two for     *)
(* each of the two keys of a lattice scheme.                               *)
(***************************************************************************)
EXTENDS Migration

CommandLine(names, ns, rounds, peers, cores, suppression, arch) ==
  [schemes |-> names, counts |-> ns, rounds |-> rounds, peers |-> peers,
   cores |-> cores, suppression |-> suppression, arch |-> arch]

(* What the timings decide: names timed, untimed, repeated and unknown.    *)
TimedFlags ==
  {CommandLine(names, <<4, 2>>, <<<<1, 1>>, <<3, 2>>>>, <<1>>, cores, <<1, 2>>, "amd64") :
     names \in {<<"ml-dsa-65">>, <<"composite-ed25519-ml-dsa-65", "rsa-2048">>,
                <<"falcon-512", "ed25519", "slh-dsa-128s">>, <<"ed25519", "ed25519">>,
                <<"ed25519", "">>},
     cores \in {-1, 0, 1, 3}}

(* What the other figures depend on: products that overflow, rounds that   *)
(* are infinite, not a number or shorter than a nanosecond, and every kind *)
(* of suppression the flag parser lets through.                            *)
FigureFlags ==
  {CommandLine(names, ns, rounds, <<2, 1, 50>>, 3, suppression, arch) :
     names       \in {<<"ed25519">>, <<"falcon-512", "ml-dsa-44">>},
     ns          \in {<<3, 1>>, <<2, 2000>>},
     rounds      \in {<<<<3, 1>>>>, <<<<1, 0>>, <<0, 0>>, <<1, 1000>>, <<40000, 1>>>>},
     suppression \in {<<-1, 1>>, <<0, 1>>, <<3, 8>>, <<1, 4096>>, <<1, 1>>, <<2, 1>>, <<1, 0>>, <<-1, 0>>, <<0, 0>>},
     arch        \in Archs}

mcFlags == TimedFlags \cup FigureFlags

-----------------------------------------------------------------------------
(* 362 bytes from 181 validators are 65522: in a word of 17 bits no        *)
(* product overflows, but the float64 of ten bits next to it is 65536.     *)
RoundedFlags ==
  {CommandLine(<<"ed25519">>, <<181>>, <<<<1, 1>>>>, <<1>>, 1, <<0, 1>>, arch) : arch \in Archs}
=============================================================================
