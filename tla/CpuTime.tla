------------------------------ MODULE CpuTime ------------------------------
(***************************************************************************)
(* cputime.go: what is made of measured durations.  How long an operation  *)
(* takes is the machine's choice; how many samples are drawn, which of     *)
(* them a percentile is and whether a round's verification fits are the    *)
(* code's, and so are the integers they are computed in.                   *)
(***************************************************************************)
EXTENDS GoArith, Sequences, FiniteSets, Functions

CONSTANTS
  Second,     (* nanoseconds of a second: 10^9 *)
  KeyStep,    (* iterations for which one more key is sampled: 100 *)
  LeastKeys,  (* the least number of keys: 8 *)
  MostKeys    (* the largest number of keys: 32 *)

ASSUME CpuTimeAssumption ==
  /\ {Second, KeyStep, LeastKeys, MostKeys} \subseteq Nat \ {0}
  /\ LeastKeys <= MostKeys

keyRounds(iterations) ==
  LET k == iterations \div KeyStep
  IN  IF k < LeastKeys THEN LeastKeys ELSE IF k > MostKeys THEN MostKeys ELSE k

(* How many of the samples are below d, and how many up to d.              *)
Below(samples, d)  == Cardinality({j \in DOMAIN samples : samples[j] < d})
Within(samples, d) == Cardinality({j \in DOMAIN samples : samples[j] <= d})

(* Mutant: the samples of the keys are concatenated and left as they are.  *)
concatenated(samples) == samples

(* sort.Slice: at k comes the sample with less than k below it and at      *)
(* least k up to it.                                                       *)
sortDurations(samples) ==
  [k \in DOMAIN samples |->
     CHOOSE d \in Range(samples) : Below(samples, d) < k /\ k <= Within(samples, d)]

(* The sample at fraction p = p[1] / p[2] of the way, 0 if there is none.  *)
pct(sorted, p) ==
  IF sorted = <<>> THEN 0 ELSE sorted[((Len(sorted) - 1) * p[1]) \div p[2] + 1]

Median == <<50, 100>>
Tail95 == <<95, 100>>

(* Taking the first of no signing samples panics.                          *)
ProfilePanics(signs) == signs = <<>>

profileFrom(name, signs, verifies) ==
  [scheme    |-> name,
   signP50   |-> pct(signs, Median),
   signP95   |-> pct(signs, Tail95),
   signMin   |-> signs[1],
   signMax   |-> signs[Len(signs)],
   verifyP50 |-> pct(verifies, Median),
   verifyP95 |-> pct(verifies, Tail95)]

(* p95 / p50, and 0 when the clock was too coarse to see the operation.    *)
SignSpread(p) == IF p.signP50 <= 0 THEN <<0, 1>> ELSE <<p.signP95, p.signP50>>

-----------------------------------------------------------------------------
AtLeastOne(cores) == IF cores < 1 THEN 1 ELSE cores

(* Mutant: a round that is exactly used up still fits.                     *)
FitsExactly(time, budget) == time <= budget

FitsBefore(time, budget) == time < budget

(* Two votes of every other validator.                                     *)
VotesOfOthers(validators) ==
  LET votes == Wrap(2 * (validators - 1)) IN IF votes < 0 THEN 0 ELSE votes

(* The product wraps, the quotient is truncated, and the round time may be *)
(* infinite, not a number or longer than the word.                         *)
AssessRound(arch, validators, round, verify, cores) ==
  LET serial    == Wrap(VotesOfOthers(validators) * verify)
      withCores == Quo(serial, AtLeastOne(cores))
      budget    == FloatToInt(arch, <<round[1] * Second, round[2]>>)
  IN  [validators |-> validators,
       round      |-> round,
       verify     |-> verify,
       withCores  |-> withCores,
       share      |-> <<withCores, budget>>,
       fits       |-> FitsBefore(withCores, budget)]
=============================================================================
