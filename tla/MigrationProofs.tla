-------------------------- MODULE MigrationProofs --------------------------
(***************************************************************************)
(* The --migration mode, for every command line, word size, clock and      *)
(* number of samples.                                                      *)
(*                                                                         *)
(* Sorting comes first, then how many rows of a name a table has, then     *)
(* what a name adds to each section.  IInv ties together the three places  *)
(* where a figure can be: the tab writer, the times rounds are sized on    *)
(* and standard output; the properties of the module Migration follow from *)
(* where a line is printed.                                                *)
(***************************************************************************)
EXTENDS Migration, FormulaProofs, SequenceTheorems, FunctionTheorems

(* The least-number principle, for sets.                                   *)
LEMMA LeastNatural ==
  ASSUME NEW T, T \subseteq Nat, T # {}
  PROVE  \E x \in T : \A y \in T : x <= y
<1>1. \E x \in T : \A y \in T : ~(<<y, x>> \in OpToRel(<, Nat))
  BY NatLessThanWellFounded, WFMin
<1>2. \A x, y \in Nat : <<y, x>> \in OpToRel(<, Nat) <=> y < x
  BY DEF OpToRel
<1>3. PICK x \in T : \A y \in T : ~(<<y, x>> \in OpToRel(<, Nat))
  BY <1>1
<1>4. ASSUME NEW y \in T PROVE x <= y
  <2>1. x \in Nat /\ y \in Nat
    OBVIOUS
  <2>2. ~(y < x)
    BY <1>2, <1>3, <2>1
  <2> QED BY <2>1, <2>2
<1> QED BY <1>4

(* And the greatest number of a set with a bound.                          *)
LEMMA GreatestNatural ==
  ASSUME NEW b \in Nat, NEW T, T \subseteq 0 .. b, T # {}
  PROVE  \E x \in T : \A y \in T : y <= x
<1> DEFINE U == {b - x : x \in T}
<1>1. U \subseteq Nat /\ U # {}
  <2>1. ASSUME NEW x \in T PROVE b - x \in Nat
    <3>1. x \in 0 .. b
      OBVIOUS
    <3> QED BY <3>1
  <2> QED BY <2>1
<1>2. PICK u \in U : \A v \in U : u <= v
  BY <1>1, LeastNatural
<1>3. PICK x \in T : u = b - x
  BY <1>2
<1>4. ASSUME NEW y \in T PROVE y <= x
  <2>1. u <= b - y
    BY <1>2
  <2> QED BY <1>3, <2>1
<1> QED BY <1>4

(* A sequence has one length.                                              *)
LEMMA EqualIntervals ==
  ASSUME NEW a \in Nat, NEW b \in Nat, 1 .. a = 1 .. b
  PROVE  a = b
<1>1. a <= b
  <2>1. a = 0 \/ a \in 1 .. b
    OBVIOUS
  <2> QED BY <2>1
<1>2. b <= a
  <2>1. b = 0 \/ b \in 1 .. a
    OBVIOUS
  <2> QED BY <2>1
<1> QED BY <1>1, <1>2

(* A sequence over a set is one over a larger set.                         *)
LEMMA WiderSequence ==
  ASSUME NEW S, NEW T, S \subseteq T, NEW s \in Seq(S)
  PROVE  s \in Seq(T)
<1> DEFINE n == Len(s)
           F(i) == s[i]
<1>1. n \in Nat /\ DOMAIN s = 1 .. n /\ \A i \in 1 .. n : F(i) \in T
  BY LenProperties, ElementOfSeq
<1>2. s = [i \in 1 .. n |-> F(i)]
  BY <1>1, SeqDef
<1> HIDE DEF n, F
<1>3. [i \in 1 .. n |-> F(i)] \in Seq(T)
  BY <1>1, IsASeq
<1> QED BY <1>2, <1>3

(* How many samples are below a value, and how many are up to it.          *)
LEMMA SampleCounts ==
  ASSUME NEW samples \in Seq(Nat), NEW d \in Nat
  PROVE  LET below  == {j \in DOMAIN samples : samples[j] < d}
             within == {j \in DOMAIN samples : samples[j] <= d}
         IN  /\ DOMAIN samples = 1 .. Len(samples) /\ Len(samples) \in Nat
             /\ IsFiniteSet(below) /\ IsFiniteSet(within)
             /\ Below(samples, d) = Cardinality(below)
             /\ Within(samples, d) = Cardinality(within)
             /\ Below(samples, d) \in 0 .. Len(samples)
             /\ Within(samples, d) \in 0 .. Len(samples)
<1> DEFINE below  == {j \in DOMAIN samples : samples[j] < d}
           within == {j \in DOMAIN samples : samples[j] <= d}
           n == Len(samples)
<1>1. DOMAIN samples = 1 .. n /\ n \in Nat
  BY LenProperties
<1>2. IsFiniteSet(1 .. n) /\ Cardinality(1 .. n) = n
  <2> HIDE DEF n
  <2>1. /\ IsFiniteSet(1 .. n)
        /\ Cardinality(1 .. n) = IF 1 > n THEN 0 ELSE n - 1 + 1
    BY <1>1, FS_Interval
  <2> QED BY <1>1, <2>1
<1>3. below \in SUBSET (1 .. n) /\ within \in SUBSET (1 .. n)
  BY <1>1
<1>4. /\ IsFiniteSet(below) /\ Cardinality(below) <= n /\ Cardinality(below) \in Nat
      /\ IsFiniteSet(within) /\ Cardinality(within) <= n /\ Cardinality(within) \in Nat
  <2> HIDE DEF below, within, n
  <2>1. /\ IsFiniteSet(below) /\ Cardinality(below) <= Cardinality(1 .. n)
        /\ IsFiniteSet(within) /\ Cardinality(within) <= Cardinality(1 .. n)
    BY <1>2, <1>3, FS_Subset
  <2>2. Cardinality(below) \in Nat /\ Cardinality(within) \in Nat
    BY <2>1, FS_CardinalityType
  <2> QED BY <1>2, <2>1, <2>2
<1>5. Below(samples, d) = Cardinality(below) /\ Within(samples, d) = Cardinality(within)
  BY DEF Below, Within
<1> HIDE DEF below, within, n
<1>6. Below(samples, d) \in 0 .. n /\ Within(samples, d) \in 0 .. n
  BY <1>1, <1>4, <1>5
<1> QED BY <1>1, <1>4, <1>5, <1>6 DEF below, within, n

(* A larger value that occurs has more samples up to it.                   *)
LEMMA WithinGrows ==
  ASSUME NEW samples \in Seq(Nat), NEW d \in Nat, NEW j \in DOMAIN samples, d < samples[j]
  PROVE  Within(samples, d) < Within(samples, samples[j])
<1> DEFINE e == samples[j]
           small == {i \in DOMAIN samples : samples[i] <= d}
           large == {i \in DOMAIN samples : samples[i] <= e}
<1>1. e \in Nat /\ \A i \in DOMAIN samples : samples[i] \in Nat
  BY ElementOfSeq, LenProperties
<1>2. small \in SUBSET large /\ j \in large /\ j \notin small
  BY <1>1
<1>3. /\ IsFiniteSet(large) /\ IsFiniteSet(small)
      /\ Within(samples, d) = Cardinality(small) /\ Within(samples, e) = Cardinality(large)
      /\ Within(samples, d) \in Nat /\ Within(samples, e) \in Nat
  <2>1. /\ IsFiniteSet(small) /\ Within(samples, d) = Cardinality(small)
        /\ Within(samples, d) \in 0 .. Len(samples)
    BY SampleCounts
  <2>2. /\ IsFiniteSet(large) /\ Within(samples, e) = Cardinality(large)
        /\ Within(samples, e) \in 0 .. Len(samples)
    BY <1>1, SampleCounts
  <2>3. Len(samples) \in Nat
    BY LenProperties
  <2> QED BY <2>1, <2>2, <2>3
<1>4. Cardinality(small) <= Cardinality(large) /\ Cardinality(small) # Cardinality(large)
  <2> HIDE DEF small, large
  <2> QED BY <1>2, <1>3, FS_Subset
<1> HIDE DEF small, large, e
<1>5. Within(samples, d) < Within(samples, e)
  BY <1>3, <1>4
<1> QED BY <1>5 DEF e

(* There is a sample for every place of the sorted sequence.               *)
LEMMA SampleAt ==
  ASSUME NEW samples \in Seq(Nat), NEW k \in DOMAIN samples
  PROVE  \E d \in Range(samples) : Below(samples, d) < k /\ k <= Within(samples, d)
<1> DEFINE D == DOMAIN samples
           n == Len(samples)
           W(d) == Within(samples, d)
<1>1. /\ D = 1 .. n /\ n \in Nat /\ k \in 1 .. n
      /\ \A i \in D : samples[i] \in Nat
      /\ Range(samples) = {samples[i] : i \in D}
  BY ElementOfSeq, LenProperties DEF Range
<1>2. \A i \in D : W(samples[i]) \in 0 .. n
  BY <1>1, SampleCounts
<1>3. PICK top \in D : \A i \in D : W(samples[i]) <= W(samples[top])
  <2> DEFINE T == {W(samples[i]) : i \in D}
  <2>1. T \subseteq 0 .. n /\ T # {}
    BY <1>1, <1>2
  <2>2. PICK x \in T : \A y \in T : y <= x
    <3> HIDE DEF T, n
    <3> QED BY <1>1, <2>1, GreatestNatural
  <2> QED BY <2>2
<1>4. \A i \in D : samples[i] <= samples[top]
  <2> SUFFICES ASSUME NEW i \in D, samples[top] < samples[i] PROVE FALSE
    BY <1>1
  <2>1. W(samples[top]) < W(samples[i])
    BY <1>1, WithinGrows
  <2>2. W(samples[i]) <= W(samples[top])
    BY <1>3
  <2> QED BY <1>2, <2>1, <2>2
<1>5. W(samples[top]) = n
  <2>1. {j \in D : samples[j] <= samples[top]} = 1 .. n
    BY <1>1, <1>4
  <2>2. Cardinality(1 .. n) = n
    <3> HIDE DEF n
    <3>1. Cardinality(1 .. n) = IF 1 > n THEN 0 ELSE n - 1 + 1
      BY <1>1, FS_Interval
    <3> QED BY <1>1, <3>1
  <2> QED BY <2>1, <2>2 DEF Within
<1> DEFINE S == {samples[i] : i \in {j \in D : k <= W(samples[j])}}
<1>6. S \subseteq Nat /\ samples[top] \in S
  BY <1>1, <1>5
<1>7. PICK d \in S : \A e \in S : d <= e
  BY <1>6, LeastNatural
<1>8. PICK at \in D : d = samples[at] /\ k <= W(d)
  BY <1>7
<1>9. d \in Range(samples) /\ d \in Nat
  BY <1>1, <1>8
<1>10. Below(samples, d) < k
  <2> DEFINE B == Below(samples, d)
             lower == {j \in D : samples[j] < d}
  <2>1. B = Cardinality(lower) /\ IsFiniteSet(lower) /\ B \in Nat
    <3>1. B = Cardinality(lower) /\ IsFiniteSet(lower) /\ B \in 0 .. n
      BY <1>9, SampleCounts
    <3> QED BY <1>1, <3>1
  <2> SUFFICES ASSUME k <= B PROVE FALSE
    BY <1>1, <2>1
  <2>2. lower # {}
    <3> SUFFICES ASSUME lower = {} PROVE FALSE
      OBVIOUS
    <3>1. B = 0
      BY <2>1, FS_EmptySet
    <3> QED BY <1>1, <3>1
  <2>3. PICK last \in lower : \A i \in lower : W(samples[i]) <= W(samples[last])
    <3> DEFINE T == {W(samples[i]) : i \in lower}
    <3>1. T \subseteq 0 .. n /\ T # {}
      BY <1>2, <2>2
    <3>2. PICK x \in T : \A y \in T : y <= x
      <4> HIDE DEF T, n
      <4> QED BY <1>1, <3>1, GreatestNatural
    <3> QED BY <3>2
  <2>4. \A i \in lower : samples[i] <= samples[last]
    <3> SUFFICES ASSUME NEW i \in lower, samples[last] < samples[i] PROVE FALSE
      BY <1>1
    <3>1. W(samples[last]) < W(samples[i])
      BY <1>1, WithinGrows
    <3>2. W(samples[i]) <= W(samples[last])
      BY <2>3
    <3>3. W(samples[i]) \in Nat /\ W(samples[last]) \in Nat
      BY <1>2
    <3> QED BY <3>1, <3>2, <3>3
  <2>5. lower = {j \in D : samples[j] <= samples[last]}
    <3>1. samples[last] \in Nat /\ samples[last] < d
      BY <1>1, <2>3
    <3>2. ASSUME NEW j \in D PROVE samples[j] < d <=> samples[j] <= samples[last]
      <4>1. samples[j] \in Nat
        BY <1>1
      <4>2. samples[j] < d => samples[j] <= samples[last]
        BY <2>4
      <4> QED BY <1>9, <3>1, <4>1, <4>2, SMTT(30)
    <3> QED BY <3>2
  <2>6. W(samples[last]) = B
    BY <2>1, <2>5 DEF Within
  <2>7. samples[last] \in S /\ samples[last] < d
    BY <2>3, <2>6
  <2>8. d <= samples[last]
    BY <1>7, <2>7
  <2> QED BY <1>1, <1>9, <2>3, <2>7, <2>8
<1> QED BY <1>8, <1>9, <1>10

(* What sortDurations (cputime.go) returns: as many samples, each of them  *)
(* one of those given, each at its rank and none below one before it.      *)
LEMMA SortedSamples ==
  ASSUME NEW samples \in Seq(Durations), Durations \subseteq Nat
  PROVE  LET sorted == sortDurations(samples)
         IN  /\ sorted \in Seq(Durations) /\ Len(sorted) = Len(samples)
             /\ DOMAIN sorted = 1 .. Len(samples) /\ DOMAIN samples = 1 .. Len(samples)
             /\ Len(samples) \in Nat
             /\ \A k \in 1 .. Len(samples) :
                  /\ sorted[k] \in Durations
                  /\ Below(samples, sorted[k]) < k /\ k <= Within(samples, sorted[k])
             /\ \A j, k \in 1 .. Len(samples) : j <= k => sorted[j] <= sorted[k]
<1> DEFINE sorted == sortDurations(samples)
           n == Len(samples)
           at(k) == CHOOSE d \in Range(samples) :
                      Below(samples, d) < k /\ k <= Within(samples, d)
<1>1. samples \in Seq(Nat) /\ DOMAIN samples = 1 .. n /\ n \in Nat
  BY LenProperties, WiderSequence
<1>2. ASSUME NEW k \in 1 .. n
      PROVE  /\ at(k) \in Range(samples)
             /\ Below(samples, at(k)) < k /\ k <= Within(samples, at(k))
  <2>1. \E d \in Range(samples) : Below(samples, d) < k /\ k <= Within(samples, d)
    BY <1>1, SampleAt
  <2> QED BY <2>1
<1>3. Range(samples) \subseteq Durations
  BY <1>1, ElementOfSeq DEF Range
<1>4. sorted = [k \in 1 .. n |-> at(k)]
  BY <1>1 DEF sortDurations
<1>5. \A k \in 1 .. n : at(k) \in Durations
  BY <1>2, <1>3
<1> HIDE DEF at, sorted, n
<1>6. sorted \in Seq(Durations) /\ DOMAIN sorted = 1 .. n /\ \A k \in 1 .. n : sorted[k] = at(k)
  <2>1. [k \in 1 .. n |-> at(k)] \in Seq(Durations)
    BY <1>1, <1>5, IsASeq
  <2> QED BY <1>4, <2>1
<1>7. Len(sorted) = n
  <2>1. Len(sorted) \in Nat /\ DOMAIN sorted = 1 .. Len(sorted)
    BY <1>6, LenProperties
  <2> QED BY <1>1, <1>6, <2>1, EqualIntervals
<1>8. ASSUME NEW j \in 1 .. n, NEW k \in 1 .. n, j <= k PROVE sorted[j] <= sorted[k]
  <2> DEFINE d == sorted[j]  e == sorted[k]
  <2>1. d \in Nat /\ e \in Nat
    BY <1>5, <1>6
  <2> SUFFICES ASSUME e < d PROVE FALSE
    BY <2>1
  <2>2. Below(samples, d) < j /\ k <= Within(samples, e)
    BY <1>2, <1>6
  <2> DEFINE below == {i \in DOMAIN samples : samples[i] < d}
             within == {i \in DOMAIN samples : samples[i] <= e}
  <2> HIDE DEF d, e
  <2>3. /\ Below(samples, d) = Cardinality(below) /\ Within(samples, e) = Cardinality(within)
        /\ IsFiniteSet(below) /\ Below(samples, d) \in 0 .. n /\ Within(samples, e) \in 0 .. n
    <3>1. /\ Below(samples, d) = Cardinality(below) /\ IsFiniteSet(below)
          /\ Below(samples, d) \in 0 .. n
      BY <1>1, <2>1, SampleCounts DEF n
    <3>2. Within(samples, e) = Cardinality(within) /\ Within(samples, e) \in 0 .. n
      BY <1>1, <2>1, SampleCounts DEF n
    <3> QED BY <3>1, <3>2
  <2>4. within \in SUBSET below
    <3> SUFFICES ASSUME NEW i \in DOMAIN samples, samples[i] <= e PROVE samples[i] < d
      OBVIOUS
    <3>1. samples[i] \in Nat
      BY <1>1, ElementOfSeq DEF n
    <3> QED BY <2>1, <3>1
  <2>5. Cardinality(within) <= Cardinality(below)
    <3> HIDE DEF within, below
    <3> QED BY <2>3, <2>4, FS_Subset
  <2> QED BY <1>1, <1>8, <2>2, <2>3, <2>5
<1> QED BY <1>1, <1>2, <1>5, <1>6, <1>7, <1>8 DEF sorted, n

(* The rank of a percentile is that of a sample, and the 95th is not below *)
(* the median.                                                             *)
LEMMA PercentileRanks ==
  ASSUME NEW n \in Nat \ {0}
  PROVE  /\ ((n - 1) * Median[1]) \div Median[2] \in 0 .. n - 1
         /\ ((n - 1) * Tail95[1]) \div Tail95[2] \in 0 .. n - 1
         /\ ((n - 1) * Median[1]) \div Median[2] <= ((n - 1) * Tail95[1]) \div Tail95[2]
<1> DEFINE m == n - 1
<1>1. m \in Nat
  OBVIOUS
<1> HIDE DEF m
<1>2. /\ (m * 50) \div 100 \in 0 .. m /\ (m * 95) \div 100 \in 0 .. m
      /\ (m * 50) \div 100 <= (m * 95) \div 100
  BY <1>1, SMT
<1>3. Median[1] = 50 /\ Median[2] = 100 /\ Tail95[1] = 95 /\ Tail95[2] = 100
  BY DEF Median, Tail95
<1> QED BY <1>2, <1>3 DEF m

(* The percentile of samples is one of them, at its rank.                  *)
LEMMA PercentileAtRank ==
  ASSUME Durations \subseteq Nat, NEW samples \in Seq(Durations), samples # <<>>,
         NEW p \in {Median, Tail95}
  PROVE  /\ pct(sortDurations(samples), p) \in Durations
         /\ AtRank(samples, pct(sortDurations(samples), p), p)
         /\ LET before == ((Len(samples) - 1) * p[1]) \div p[2]
            IN  /\ before \in 0 .. Len(samples) - 1
                /\ pct(sortDurations(samples), p) = sortDurations(samples)[before + 1]
<1> DEFINE sorted == sortDurations(samples)
           n == Len(samples)
           before == ((n - 1) * p[1]) \div p[2]
<1>1. n \in Nat \ {0}
  BY EmptySeq, LenProperties
<1>2. before \in 0 .. n - 1
  BY <1>1, PercentileRanks
<1>3. /\ sorted \in Seq(Durations) /\ Len(sorted) = n
      /\ \A k \in 1 .. n : /\ sorted[k] \in Durations
                           /\ Below(samples, sorted[k]) < k /\ k <= Within(samples, sorted[k])
  BY SortedSamples
<1> HIDE DEF sorted
<1>4. sorted # <<>>
  BY <1>1, <1>3
<1>5. pct(sorted, p) = sorted[before + 1]
  BY <1>3, <1>4 DEF pct
<1>6. before + 1 \in 1 .. n
  BY <1>1, <1>2
<1> DEFINE d == sorted[before + 1]
<1>7. d \in Durations /\ Below(samples, d) < before + 1 /\ before + 1 <= Within(samples, d)
  BY <1>3, <1>6
<1>8. Below(samples, d) <= before /\ before < Within(samples, d)
  <2>1. Below(samples, d) \in Int /\ Within(samples, d) \in Int
    <3>1. samples \in Seq(Nat)
      BY WiderSequence
    <3>2. Below(samples, d) \in 0 .. n /\ Within(samples, d) \in 0 .. n
      BY <1>7, <3>1, SampleCounts
    <3> QED BY <3>2
  <2> HIDE DEF d, before, n
  <2> QED BY <1>2, <1>7, <2>1
<1>9. AtRank(samples, d, p)
  BY <1>8 DEF AtRank
<1> QED BY <1>2, <1>5, <1>7, <1>9 DEF sorted

(* What a line of the first table says of the samples it is made from.     *)
LEMMA ProfileOfSamples ==
  ASSUME Durations \subseteq Nat, NEW s \in Seq(Durations), NEW v \in Seq(Durations),
         s # <<>>, v # <<>>, NEW n \in Implemented
  PROVE  LET row == profileFrom(n, sortDurations(s), sortDurations(v))
         IN  /\ row \in CpuRows /\ row.scheme = n /\ row.verifyP95 \in Durations
             /\ AtRank(s, row.signP50, Median) /\ AtRank(s, row.signP95, Tail95)
             /\ AtRank(v, row.verifyP50, Median) /\ AtRank(v, row.verifyP95, Tail95)
             /\ \A k \in DOMAIN s : s[k] \in row.signMin .. row.signMax
             /\ row.signP50 > 0 => SignSpread(row)[1] >= SignSpread(row)[2]
<1> DEFINE row == profileFrom(n, sortDurations(s), sortDurations(v))
           ss  == sortDurations(s)
           len == Len(s)
<1>1. /\ row.scheme = n
      /\ row.signP50 = pct(ss, Median) /\ row.signP95 = pct(ss, Tail95)
      /\ row.verifyP50 = pct(sortDurations(v), Median)
      /\ row.verifyP95 = pct(sortDurations(v), Tail95)
      /\ row.signMin = ss[1] /\ row.signMax = ss[Len(ss)]
      /\ row = [scheme |-> row.scheme, signP50 |-> row.signP50, signP95 |-> row.signP95,
                signMin |-> row.signMin, signMax |-> row.signMax,
                verifyP50 |-> row.verifyP50, verifyP95 |-> row.verifyP95]
  BY DEF profileFrom
<1>2. /\ row.signP50 \in Durations /\ row.signP95 \in Durations
      /\ row.verifyP50 \in Durations /\ row.verifyP95 \in Durations
      /\ AtRank(s, row.signP50, Median) /\ AtRank(s, row.signP95, Tail95)
      /\ AtRank(v, row.verifyP50, Median) /\ AtRank(v, row.verifyP95, Tail95)
  BY <1>1, PercentileAtRank
<1>3. /\ Len(ss) = len /\ len \in Nat \ {0}
      /\ \A k \in 1 .. len : /\ ss[k] \in Durations
                             /\ Below(s, ss[k]) < k /\ k <= Within(s, ss[k])
      /\ \A j, k \in 1 .. len : j <= k => ss[j] <= ss[k]
      /\ DOMAIN s = 1 .. len
  <2>1. len \in Nat \ {0}
    BY EmptySeq, LenProperties
  <2> QED BY <2>1, SortedSamples
<1>4. row.signMin \in Durations /\ row.signMax \in Durations
  BY <1>1, <1>3
<1>5. row \in CpuRows
  <2> HIDE DEF row
  <2> QED BY <1>1, <1>2, <1>4 DEF CpuRows
<1>6. s \in Seq(Nat)
  BY WiderSequence
<1>7. ASSUME NEW k \in DOMAIN s PROVE s[k] \in row.signMin .. row.signMax
  <2> DEFINE lo == row.signMin  hi == row.signMax
             below == {j \in DOMAIN s : s[j] < lo}
             within == {j \in DOMAIN s : s[j] <= hi}
  <2>1. lo \in Nat /\ hi \in Nat /\ s[k] \in Nat
    BY <1>3, <1>4, <1>6, <1>7, ElementOfSeq
  <2>2. Below(s, lo) < 1 /\ len <= Within(s, hi)
    <3> HIDE DEF row, ss, len
    <3>1. lo = ss[1] /\ hi = ss[len] /\ 1 \in 1 .. len /\ len \in 1 .. len
      BY <1>1, <1>3
    <3> QED BY <1>3, <3>1
  <2> HIDE DEF lo, hi
  <2>3. /\ Below(s, lo) = Cardinality(below) /\ IsFiniteSet(below)
        /\ Below(s, lo) \in 0 .. len
    BY <1>6, <2>1, SampleCounts
  <2>4. /\ Within(s, hi) = Cardinality(within) /\ IsFiniteSet(within)
        /\ Within(s, hi) \in 0 .. len
    BY <1>6, <2>1, SampleCounts
  <2>5. below = {}
    <3>1. Cardinality(below) = 0
      BY <1>3, <2>2, <2>3
    <3> HIDE DEF below
    <3> QED BY <2>3, <3>1, FS_EmptySet
  <2>6. within = 1 .. len
    <3>1. within \in SUBSET (1 .. len)
      BY <1>3
    <3>2. IsFiniteSet(1 .. len) /\ Cardinality(1 .. len) = len
      <4> HIDE DEF len
      <4>1. /\ IsFiniteSet(1 .. len)
            /\ Cardinality(1 .. len) = IF 1 > len THEN 0 ELSE len - 1 + 1
        BY <1>3, FS_Interval
      <4> QED BY <1>3, <4>1
    <3>3. Cardinality(within) = len
      BY <1>3, <2>2, <2>4
    <3> HIDE DEF within, len
    <3> QED BY <3>1, <3>2, <3>3, FS_Subset
  <2>7. ~(s[k] < lo) /\ s[k] <= hi
    BY <1>3, <1>7, <2>5, <2>6
  <2> QED BY <2>1, <2>7 DEF lo, hi
<1>8. ASSUME row.signP50 > 0 PROVE SignSpread(row)[1] >= SignSpread(row)[2]
  <2> DEFINE b50 == ((len - 1) * Median[1]) \div Median[2]
             b95 == ((len - 1) * Tail95[1]) \div Tail95[2]
  <2>1. b50 \in 0 .. len - 1 /\ b95 \in 0 .. len - 1 /\ b50 <= b95
    BY <1>3, PercentileRanks
  <2>2. row.signP50 = ss[b50 + 1] /\ row.signP95 = ss[b95 + 1]
    BY <1>1, PercentileAtRank
  <2> HIDE DEF b50, b95
  <2>3. row.signP50 <= row.signP95
    <3>1. b50 + 1 \in 1 .. len /\ b95 + 1 \in 1 .. len /\ b50 + 1 <= b95 + 1
      BY <1>3, <2>1
    <3> QED BY <1>3, <2>2, <3>1
  <2> HIDE DEF row
  <2>4. SignSpread(row) = <<row.signP95, row.signP50>>
    <3>1. ~(row.signP50 <= 0)
      <4>1. row.signP50 \in Nat
        BY <1>2
      <4> QED BY <1>8, <4>1
    <3> QED BY <3>1 DEF SignSpread
  <2>5. row.signP50 \in Nat /\ row.signP95 \in Nat
    BY <1>2
  <2> QED BY <2>3, <2>4, <2>5
<1> HIDE DEF row
<1>9. row \in CpuRows /\ row.scheme = n /\ row.verifyP95 \in Durations
  BY <1>1, <1>2, <1>5
<1> QED BY <1>2, <1>7, <1>8, <1>9 DEF row
-----------------------------------------------------------------------------
(* The number of names.                                                    *)
N == Len(flags.schemes)

(* How often a name is among the first m, and which names are.             *)
TimesUpTo(x, m) == Cardinality({t \in 1 .. m : flags.schemes[t] = x})

Looked(m) == {flags.schemes[t] : t \in 1 .. m}

(* The key pairs a scheme's profile is made from.                          *)
KeysOf(x) == IF x = "ed25519" THEN 1 ELSE keyRounds(Iterations)

(* The estimate of a scheme's gossip.                                      *)
GossipOf(x, n, p) ==
  LET upper == Wrap(n * Cost(x) * p)
  IN  [scheme |-> x, validators |-> n, peers |-> p, upper |-> upper,
       modelled |-> Modelled(upper)]

(* A row is about a name of the command line; a verdict is made from the   *)
(* time kept for it and an estimate from the size of its votes.            *)
RowRight(section, row) ==
  /\ row.scheme \in Range(flags.schemes)
  /\ section = "round" =>
       /\ row.scheme \in DOMAIN verifyFor
       /\ \E n \in Range(flags.counts), r \in Range(flags.rounds) :
            row.verdict = AssessRound(flags.arch, n, r, verifyFor[row.scheme], flags.cores)
  /\ section = "gossip" => \E n \in Range(flags.counts), p \in Range(flags.peers) :
       row.scheme \in SchemeNames /\ row = GossipOf(row.scheme, n, p)

(* A section's rows for the first m names.                                 *)
RowsFor(section, table, m) ==
  /\ \A x \in Range(flags.schemes) :
       Cardinality(RowsOf(table, x)) = TimesUpTo(x, m) * Size(section, x)
  /\ \A k \in DOMAIN table : RowRight(section, table[k])

(* A scheme's verification time is that of its last row.                   *)
TailKept(table, x, d) == \E last \in RowsOf(table, x) :
  (\A j \in RowsOf(table, x) : j <= last) /\ d = table[last].verifyP95

(* That of every scheme that has one.                                      *)
TailsKept(table) == \A x \in DOMAIN verifyFor : TailKept(table, x, verifyFor[x])

(* The loop of the first section has looked up the names before turn.      *)
NamesLookedUp ==
  /\ pc \in {"cpu", "sample"} =>
       Looked(turn - 1) \subseteq SchemeNames
         /\ DOMAIN verifyFor = Looked(turn - 1) \cap Implemented
  /\ Len(stdout) > 1 =>
       Range(flags.schemes) \subseteq SchemeNames
         /\ DOMAIN verifyFor = Range(flags.schemes) \cap Implemented

(* Each key adds to the samples of the name that is timed, unless there    *)
(* are fewer iterations than keys.                                         *)
SamplesTaken ==
  /\ Len(signs) = Len(verifies)
  /\ pc = "sample" =>
       /\ turn <= N /\ name \in Implemented
       /\ keys \in 0 .. KeysOf(name)
       /\ keys < KeysOf(name) /\ PerKey > 0 => signs # <<>>
  /\ pc = "cpu" /\ signs # <<>> =>
       rows # <<>> /\ \E x \in Implemented :
         rows[Len(rows)] = profileFrom(x, sortDurations(signs), sortDurations(verifies))
  /\ pc = "panic" => Iterations < MostKeys

(* The tab writer holds the rows of the names before turn.                 *)
RowsWait ==
  /\ pc \in {"cpu", "sample"} => RowsFor("cpu", rows, turn - 1) /\ TailsKept(rows)
  /\ pc \in {"round", "ibc", "gossip"} => RowsFor(pc, rows, turn - 1)

(* The table of the t-th name's mitigations.                               *)
MitigationsOf(t) ==
  Table("mitigations", Mitigations(MeasureSizes(lookupScheme(flags.schemes[t]), <<100>>)))

(* What is at a place of standard output: headings and tables in turn, a   *)
(* table for each name's mitigations, and the closing lines.               *)
LineRight(k) ==
  /\ \A i \in 1 .. 5 : k = 2 * i - 1 => stdout[k] = Heading(Sections[i])
  /\ \A i \in 1 .. 4 : k = 2 * i =>
       stdout[k].kind = Sections[i] /\ RowsFor(Sections[i], stdout[k].rows, N)
  /\ k = 2 => TailsKept(stdout[k].rows)
  /\ \A t \in 1 .. N : k = 9 + t => stdout[k] = MitigationsOf(t)
  /\ k = 10 + N => stdout[k] = [kind |-> "closing"]

(* Every line is right, and the section tells how many there are.          *)
LinesPrinted ==
  /\ \A k \in DOMAIN stdout : LineRight(k)
  /\ pc \in {"cpu", "sample", "panic"} => Len(stdout) = 1
  /\ pc = "round" => Len(stdout) = 3
  /\ pc = "ibc" => Len(stdout) = 5
  /\ pc = "gossip" => Len(stdout) = 7
  /\ pc = "mitigations" => Len(stdout) = 8 + turn
  /\ pc = "exit 0" => Len(stdout) = 10 + N
  /\ Len(stdout) <= 10 + N

(* The inductive invariant.                                                *)
IInv == TypeOK /\ NamesLookedUp /\ SamplesTaken /\ RowsWait /\ LinesPrinted

-----------------------------------------------------------------------------
(* What the flag parser and the assumption on Flags give.                  *)
LEMMA FlagsShape ==
  ASSUME flags \in Flags
  PROVE  /\ N \in Nat \ {0} /\ DOMAIN flags.schemes = 1 .. N
         /\ Range(flags.schemes) = Looked(N)
         /\ Len(flags.counts) \in Nat \ {0} /\ DOMAIN flags.counts = 1 .. Len(flags.counts)
         /\ \A k \in DOMAIN flags.counts : flags.counts[k] \in Range(flags.counts)
         /\ Range(flags.counts) \subseteq Nat \ {0}
         /\ Len(flags.rounds) \in Nat \ {0} /\ DOMAIN flags.rounds = 1 .. Len(flags.rounds)
         /\ \A k \in DOMAIN flags.rounds : flags.rounds[k] \in Range(flags.rounds)
         /\ Range(flags.rounds) \subseteq Nat \X Nat
         /\ Len(flags.peers) \in Nat \ {0} /\ DOMAIN flags.peers = 1 .. Len(flags.peers)
         /\ \A k \in DOMAIN flags.peers : flags.peers[k] \in Range(flags.peers)
         /\ Range(flags.peers) \subseteq Nat \ {0}
         /\ flags.cores \in Int /\ flags.suppression \in Float64s
<1>1. /\ flags \in FlagSet
      /\ flags.schemes # <<>> /\ flags.counts # <<>>
      /\ flags.rounds # <<>> /\ flags.peers # <<>>
  BY MigrationAssumption
<1>2. /\ flags.schemes \in Seq(STRING) /\ flags.counts \in Seq(Nat \ {0})
      /\ flags.peers \in Seq(1 .. MaxInt)
      /\ flags.cores \in Int64 /\ flags.suppression \in Float64s
  BY <1>1 DEF FlagSet
<1>3. flags.rounds \in Seq(Nat \X Nat)
  <2> DEFINE R == {r \in Nat \X Nat : r[2] = 0 => r[1] \in {0, 1}} \ {<<0, 1>>}
  <2>1. flags.rounds \in Seq(R)
    BY <1>1 DEF FlagSet
  <2>2. R \subseteq Nat \X Nat
    OBVIOUS
  <2> HIDE DEF R
  <2> QED BY <2>1, <2>2, WiderSequence
<1>4. ASSUME NEW S, NEW s \in Seq(S), s # <<>>
      PROVE  /\ Len(s) \in Nat \ {0} /\ DOMAIN s = 1 .. Len(s)
             /\ \A k \in DOMAIN s : s[k] \in Range(s)
             /\ Range(s) \subseteq S /\ Range(s) = {s[k] : k \in 1 .. Len(s)}
  BY <1>4, LenProperties, ElementOfSeq, EmptySeq DEF Range
<1>5. /\ N \in Nat \ {0} /\ DOMAIN flags.schemes = 1 .. N
      /\ Range(flags.schemes) = Looked(N)
  BY <1>1, <1>2, <1>4 DEF N, Looked
<1>6. /\ Len(flags.counts) \in Nat \ {0} /\ DOMAIN flags.counts = 1 .. Len(flags.counts)
      /\ \A k \in DOMAIN flags.counts : flags.counts[k] \in Range(flags.counts)
      /\ Range(flags.counts) \subseteq Nat \ {0}
  BY <1>1, <1>2, <1>4
<1>7. /\ Len(flags.rounds) \in Nat \ {0} /\ DOMAIN flags.rounds = 1 .. Len(flags.rounds)
      /\ \A k \in DOMAIN flags.rounds : flags.rounds[k] \in Range(flags.rounds)
      /\ Range(flags.rounds) \subseteq Nat \X Nat
  BY <1>1, <1>3, <1>4
<1>8. /\ Len(flags.peers) \in Nat \ {0} /\ DOMAIN flags.peers = 1 .. Len(flags.peers)
      /\ \A k \in DOMAIN flags.peers : flags.peers[k] \in Range(flags.peers)
      /\ Range(flags.peers) \subseteq 1 .. MaxInt
  BY <1>1, <1>2, <1>4
<1>9. 1 .. MaxInt \subseteq Nat \ {0} /\ flags.cores \in Int
  BY <1>2, MaxIntAssumption DEF Int64, MinInt
<1> QED BY <1>2, <1>5, <1>6, <1>7, <1>8, <1>9

(* The occurrences of a name grow with the names that are met.             *)
LEMMA TimesStep ==
  ASSUME NEW m \in Nat, NEW x
  PROVE  /\ TimesUpTo(x, 0) = 0 /\ TimesUpTo(x, m) \in Nat
         /\ flags.schemes[m + 1] = x => TimesUpTo(x, m + 1) = TimesUpTo(x, m) + 1
         /\ flags.schemes[m + 1] # x => TimesUpTo(x, m + 1) = TimesUpTo(x, m)
         /\ Looked(0) = {} /\ Looked(m + 1) = Looked(m) \cup {flags.schemes[m + 1]}
<1> DEFINE At(k) == {t \in 1 .. k : flags.schemes[t] = x}
<1>1. IsFiniteSet(At(m)) /\ Cardinality(At(m)) \in Nat
  <2>1. IsFiniteSet(1 .. m) /\ At(m) \subseteq 1 .. m
    BY FS_Interval
  <2> QED BY <2>1, FS_Subset, FS_CardinalityType
<1>2. At(0) = {}
  OBVIOUS
<1>3. Cardinality(At(0)) = 0
  BY <1>2, FS_EmptySet
<1>4. ASSUME flags.schemes[m + 1] # x PROVE At(m + 1) = At(m)
  BY <1>4
<1>5. ASSUME flags.schemes[m + 1] = x PROVE Cardinality(At(m + 1)) = Cardinality(At(m)) + 1
  <2>1. At(m + 1) = At(m) \cup {m + 1} /\ m + 1 \notin At(m)
    BY <1>5
  <2> HIDE DEF At
  <2> QED BY <1>1, <2>1, FS_AddElement
<1>6. Looked(0) = {} /\ Looked(m + 1) = Looked(m) \cup {flags.schemes[m + 1]}
  BY DEF Looked
<1>7. \A k : TimesUpTo(x, k) = Cardinality(At(k))
  BY DEF TimesUpTo
<1> HIDE DEF At
<1> QED BY <1>1, <1>3, <1>4, <1>5, <1>6, <1>7

(* The places of a scheme's rows are finite in number.                     *)
LEMMA PlacesFinite ==
  ASSUME NEW S, NEW s \in Seq(S), NEW x
  PROVE  /\ RowsOf(s, x) \subseteq 1 .. Len(s)
         /\ IsFiniteSet(RowsOf(s, x)) /\ Cardinality(RowsOf(s, x)) \in Nat
<1>1. DOMAIN s = 1 .. Len(s) /\ Len(s) \in Nat
  BY LenProperties
<1>2. RowsOf(s, x) \subseteq 1 .. Len(s)
  BY <1>1 DEF RowsOf
<1>3. IsFiniteSet(1 .. Len(s))
  BY <1>1, FS_Interval
<1> QED BY <1>2, <1>3, FS_Subset, FS_CardinalityType

(* Rows that are added come after the rows that are there.                 *)
LEMMA RowsOfConcat ==
  ASSUME NEW S, NEW s \in Seq(S), NEW t \in Seq(S), NEW x
  PROVE  /\ RowsOf(s \o t, x) = RowsOf(s, x) \cup {Len(s) + k : k \in RowsOf(t, x)}
         /\ Cardinality(RowsOf(s \o t, x)) = Cardinality(RowsOf(s, x)) + Cardinality(RowsOf(t, x))
<1> DEFINE old == RowsOf(s, x)
           add == RowsOf(t, x)
           new == {Len(s) + k : k \in add}
           a == Len(s)
           b == Len(t)
<1>1. a \in Nat /\ DOMAIN s = 1 .. a /\ b \in Nat /\ DOMAIN t = 1 .. b
  BY LenProperties
<1>2. /\ DOMAIN (s \o t) = 1 .. a + b
      /\ \A k \in 1 .. a : (s \o t)[k] = s[k]
      /\ \A k \in 1 .. b : (s \o t)[a + k] = t[k]
  <2>1. /\ s \o t \in Seq(S) /\ Len(s \o t) = a + b
        /\ \A i \in 1 .. a + b : (s \o t)[i] = IF i <= a THEN s[i] ELSE t[i - a]
    BY ConcatProperties
  <2>2. DOMAIN (s \o t) = 1 .. a + b
    BY <2>1, LenProperties
  <2> HIDE DEF a, b
  <2>3. ASSUME NEW k \in 1 .. a PROVE (s \o t)[k] = s[k]
    <3>1. k \in 1 .. a + b /\ k <= a
      BY <1>1
    <3> QED BY <2>1, <3>1
  <2>4. ASSUME NEW k \in 1 .. b PROVE (s \o t)[a + k] = t[k]
    <3> DEFINE i == a + k
    <3>1. i \in 1 .. a + b /\ ~(i <= a) /\ i - a = k
      BY <1>1
    <3> HIDE DEF i
    <3>2. (s \o t)[i] = t[k]
      BY <2>1, <3>1
    <3> QED BY <3>2 DEF i
  <2> QED BY <2>2, <2>3, <2>4
<1>3. /\ old \subseteq 1 .. a /\ IsFiniteSet(old) /\ Cardinality(old) \in Nat
      /\ add \subseteq 1 .. b /\ IsFiniteSet(add) /\ Cardinality(add) \in Nat
  BY PlacesFinite
<1>4. RowsOf(s \o t, x) = old \cup new
  <2> HIDE DEF a, b
  <2>1. ASSUME NEW k \in 1 .. a + b
        PROVE  (s \o t)[k].scheme = x <=> k \in old \/ k \in {a + j : j \in add}
    <3>1. CASE k \in 1 .. a
      <4>1. (s \o t)[k] = s[k]
        BY <1>2, <3>1
      <4>2. k \notin {a + j : j \in add}
        BY <1>1, <1>3, <3>1
      <4> QED BY <1>1, <3>1, <4>1, <4>2 DEF RowsOf
    <3>2. CASE k \notin 1 .. a
      <4>1. PICK j \in 1 .. b : k = a + j
        <5>1. k - a \in 1 .. b /\ k = a + (k - a)
          BY <1>1, <3>2
        <5> QED BY <5>1
      <4>2. (s \o t)[k] = t[j]
        BY <1>2, <4>1
      <4>3. k \in {a + i : i \in add} <=> j \in add
        BY <1>1, <1>3, <4>1
      <4>4. k \notin old
        BY <1>3, <3>2
      <4> QED BY <1>1, <4>2, <4>3, <4>4 DEF RowsOf
    <3> QED BY <3>1, <3>2
  <2>2. old \cup {a + j : j \in add} \subseteq 1 .. a + b
    BY <1>1, <1>3
  <2> HIDE DEF old, add
  <2>3. RowsOf(s \o t, x) = {k \in 1 .. a + b : (s \o t)[k].scheme = x}
    BY <1>2 DEF RowsOf
  <2>4. RowsOf(s \o t, x) = old \cup {a + j : j \in add}
    BY <2>1, <2>2, <2>3
  <2> QED BY <2>4 DEF a
<1>5. IsFiniteSet(new) /\ Cardinality(new) = Cardinality(add)
  <2> DEFINE shift == [k \in add |-> a + k]
  <2> HIDE DEF old, b
  <2>0. new = {a + k : k \in add}
    OBVIOUS
  <2> HIDE DEF a, new, add
  <2>1. shift \in Bijection(add, new)
    <3>1. shift \in [add -> new]
      BY <2>0
    <3>2. \A j, k \in add : shift[j] = shift[k] => j = k
      BY <1>1, <1>3
    <3>3. \A y \in new : \E k \in add : shift[k] = y
      BY <2>0
    <3> HIDE DEF shift
    <3> QED BY <3>1, <3>2, <3>3, Fun_IsBij
  <2> HIDE DEF shift
  <2>2. ExistsBijection(add, new)
    BY <2>1 DEF ExistsBijection
  <2> QED BY <1>3, <2>2, FS_Bijection
<1>6. old \cap new = {}
  BY <1>1, <1>3
<1>7. Cardinality(old \cup new) = Cardinality(old) + Cardinality(new)
  <2> HIDE DEF old, new
  <2>1. Cardinality(old \cup new)
          = Cardinality(old) + Cardinality(new) - Cardinality(old \cap new)
    BY <1>3, <1>5, FS_Union
  <2>2. Cardinality(old \cap new) = 0
    BY <1>6, FS_EmptySet
  <2>3. Cardinality(new) \in Nat
    BY <1>5, FS_CardinalityType
  <2> QED BY <1>3, <2>1, <2>2, <2>3
<1> HIDE DEF old, add, new
<1>8. Cardinality(RowsOf(s \o t, x)) = Cardinality(old) + Cardinality(add)
  BY <1>4, <1>5, <1>7
<1> QED BY <1>4, <1>8 DEF old, add, new

(* How many rows a name has.                                               *)
LEMMA SizeType ==
  ASSUME flags \in Flags, NEW section \in {"cpu", "round", "ibc", "gossip"}, NEW x
  PROVE  Size(section, x) \in Nat
<1>1. /\ Len(flags.counts) \in Nat /\ Len(flags.rounds) \in Nat /\ Len(flags.peers) \in Nat
  BY FlagsShape
<1> DEFINE a == Len(flags.counts)  b == Len(flags.rounds)  c == Len(flags.peers)
<1> HIDE DEF a, b, c
<1>2. a * b \in Nat /\ a * c \in Nat /\ a \in Nat
  <2>1. a \in Nat /\ b \in Nat /\ c \in Nat
    BY <1>1 DEF a, b, c
  <2> QED BY <2>1
<1>3. Size(section, x) \in {1, 0, a, a * b, a * c}
  BY DEF Size, a, b, c
<1> QED BY <1>2, <1>3

(* A table starts with no rows.                                            *)
LEMMA NoRows ==
  ASSUME flags \in Flags, NEW section \in {"cpu", "round", "ibc", "gossip"}
  PROVE  RowsFor(section, <<>>, 0)
<1>1. DOMAIN <<>> = {}
  OBVIOUS
<1>2. ASSUME NEW x
      PROVE  Cardinality(RowsOf(<<>>, x)) = TimesUpTo(x, 0) * Size(section, x)
  <2>1. RowsOf(<<>>, x) = {}
    BY <1>1 DEF RowsOf
  <2>2. Cardinality(RowsOf(<<>>, x)) = 0
    BY <2>1, FS_EmptySet
  <2>3. TimesUpTo(x, 0) = 0
    BY TimesStep
  <2>4. Size(section, x) \in Nat
    BY SizeType
  <2> QED BY <2>2, <2>3, <2>4
<1> QED BY <1>1, <1>2 DEF RowsFor

(* The rows of one more name.                                              *)
LEMMA RowsAdded ==
  ASSUME flags \in Flags, NEW section \in {"cpu", "round", "ibc", "gossip"}, NEW m \in Nat,
         NEW S, NEW s \in Seq(S), NEW t \in Seq(S),
         RowsFor(section, s, m), Len(t) = Size(section, flags.schemes[m + 1]),
         \A k \in DOMAIN t : t[k].scheme = flags.schemes[m + 1] /\ RowRight(section, t[k])
  PROVE  RowsFor(section, s \o t, m + 1)
<1> DEFINE y == flags.schemes[m + 1]
           a == Len(s)
           b == Len(t)
<1>1. a \in Nat /\ DOMAIN s = 1 .. a /\ b \in Nat /\ DOMAIN t = 1 .. b
  BY LenProperties
<1>2. ASSUME NEW x \in Range(flags.schemes)
      PROVE  Cardinality(RowsOf(s \o t, x)) = TimesUpTo(x, m + 1) * Size(section, x)
  <2> DEFINE size == Size(section, x)
             times == TimesUpTo(x, m)
  <2>1. size \in Nat /\ times \in Nat
    BY SizeType, TimesStep
  <2>2. Cardinality(RowsOf(s, x)) = times * size
    BY <1>2 DEF RowsFor
  <2>3. Cardinality(RowsOf(s \o t, x)) = Cardinality(RowsOf(s, x)) + Cardinality(RowsOf(t, x))
    BY RowsOfConcat
  <2>4. CASE x = y
    <3>1. RowsOf(t, x) = 1 .. b
      BY <1>1, <2>4 DEF RowsOf
    <3>2. Cardinality(1 .. b) = b
      <4> HIDE DEF b
      <4>1. Cardinality(1 .. b) = IF 1 > b THEN 0 ELSE b - 1 + 1
        BY <1>1, FS_Interval
      <4> QED BY <1>1, <4>1
    <3>3. b = size
      BY <2>4
    <3>4. TimesUpTo(x, m + 1) = times + 1
      BY <2>4, TimesStep
    <3>5. Cardinality(RowsOf(s \o t, x)) = times * size + size
      BY <2>2, <2>3, <3>1, <3>2, <3>3
    <3> HIDE DEF times, size
    <3>6. times * size + size = (times + 1) * size
      BY <2>1
    <3> QED BY <3>4, <3>5, <3>6 DEF size
  <2>5. CASE x # y
    <3>1. RowsOf(t, x) = {}
      BY <2>5 DEF RowsOf
    <3>2. Cardinality(RowsOf(t, x)) = 0
      BY <3>1, FS_EmptySet
    <3>3. TimesUpTo(x, m + 1) = times
      BY <2>5, TimesStep
    <3>4. times * size + 0 = times * size
      <4> HIDE DEF times, size
      <4> QED BY <2>1
    <3> QED BY <2>2, <2>3, <3>2, <3>3, <3>4
  <2> QED BY <2>4, <2>5
<1>3. ASSUME NEW k \in DOMAIN (s \o t) PROVE RowRight(section, (s \o t)[k])
  <2>1. k \in 1 .. a + b /\ (s \o t)[k] = IF k <= a THEN s[k] ELSE t[k - a]
    <3>1. s \o t \in Seq(S) /\ Len(s \o t) = a + b
      BY ConcatProperties
    <3>2. k \in 1 .. a + b
      BY <1>3, <3>1, LenProperties
    <3> QED BY <3>2, ConcatProperties
  <2> HIDE DEF a, b
  <2>2. CASE k <= a
    <3>1. k \in DOMAIN s /\ (s \o t)[k] = s[k]
      BY <1>1, <2>1, <2>2
    <3> QED BY <3>1 DEF RowsFor
  <2>3. CASE ~(k <= a)
    <3>1. k - a \in DOMAIN t /\ (s \o t)[k] = t[k - a]
      BY <1>1, <2>1, <2>3
    <3> QED BY <3>1
  <2> QED BY <2>2, <2>3
<1> QED BY <1>2, <1>3 DEF RowsFor

(* A single row is added at the end.                                       *)
LEMMA OneRow ==
  ASSUME NEW S, NEW s \in Seq(S), NEW row \in S
  PROVE  /\ Append(s, row) = s \o <<row>> /\ <<row>> \in Seq(S)
         /\ Len(<<row>>) = 1 /\ DOMAIN <<row>> = {1} /\ <<row>>[1] = row
         /\ Append(s, row) \in Seq(S) /\ Len(Append(s, row)) = Len(s) + 1
         /\ Append(s, row)[Len(s) + 1] = row
         /\ \A k \in 1 .. Len(s) : Append(s, row)[k] = s[k]
<1>1. <<row>> \in Seq(S) /\ Len(<<row>>) = 1 /\ DOMAIN <<row>> = {1} /\ <<row>>[1] = row
  OBVIOUS
<1>2. Append(s, row) = s \o <<row>>
  BY AppendIsConcat
<1>3. /\ Append(s, row) \in Seq(S) /\ Len(Append(s, row)) = Len(s) + 1
      /\ \A k \in 1 .. Len(s) : Append(s, row)[k] = s[k]
      /\ Append(s, row)[Len(s) + 1] = row
  BY AppendProperties
<1> QED BY <1>1, <1>2, <1>3

(* The last row of a scheme, when one more row is added.                   *)
LEMMA TailOfAppend ==
  ASSUME NEW S, NEW s \in Seq(S), NEW row \in S, NEW x, NEW d
  PROVE  /\ row.scheme = x => TailKept(Append(s, row), x, row.verifyP95)
         /\ row.scheme # x /\ TailKept(s, x, d) => TailKept(Append(s, row), x, d)
<1> DEFINE r == Append(s, row)
           n == Len(s)
<1>1. n \in Nat /\ r[n + 1] = row /\ \A k \in 1 .. n : r[k] = s[k]
  BY OneRow, LenProperties
<1>2. RowsOf(s, x) \subseteq 1 .. n
  BY PlacesFinite
<1>3. RowsOf(r, x) = RowsOf(s, x) \cup {n + k : k \in RowsOf(<<row>>, x)}
  <2> DEFINE one == <<row>>
  <2>1. r = s \o one /\ one \in Seq(S)
    BY OneRow
  <2> HIDE DEF one, r
  <2>2. RowsOf(s \o one, x) = RowsOf(s, x) \cup {Len(s) + k : k \in RowsOf(one, x)}
    BY <2>1, RowsOfConcat
  <2> QED BY <2>1, <2>2 DEF one
<1>4. RowsOf(<<row>>, x) = IF row.scheme = x THEN {1} ELSE {}
  BY OneRow DEF RowsOf
<1> HIDE DEF r, n
<1>5. ASSUME row.scheme = x PROVE TailKept(r, x, row.verifyP95)
  <2>1. RowsOf(r, x) = RowsOf(s, x) \cup {n + 1}
    BY <1>3, <1>4, <1>5
  <2>2. \A j \in RowsOf(r, x) : j <= n + 1
    BY <1>1, <1>2, <2>1
  <2> QED BY <1>1, <2>1, <2>2 DEF TailKept
<1>6. ASSUME row.scheme # x, TailKept(s, x, d) PROVE TailKept(r, x, d)
  <2>1. RowsOf(r, x) = RowsOf(s, x)
    BY <1>3, <1>4, <1>6
  <2>2. PICK last \in RowsOf(s, x) : (\A j \in RowsOf(s, x) : j <= last)
                                       /\ d = s[last].verifyP95
    BY <1>6 DEF TailKept
  <2>3. r[last] = s[last]
    BY <1>1, <1>2
  <2> QED BY <2>1, <2>2, <2>3 DEF TailKept
<1> QED BY <1>5, <1>6 DEF r

-----------------------------------------------------------------------------
(* The schemes that are timed are in the table.                            *)
LEMMA ImplementedKnown == Implemented \subseteq SchemeNames
<1>1. /\ schemes[1].name = "ed25519" /\ schemes[3].name = "ml-dsa-65"
      /\ schemes[10].name = "composite-ed25519-ml-dsa-65" /\ DOMAIN schemes = 1 .. 10
  BY SMT DEF schemes, Scheme
<1> QED BY <1>1 DEF Implemented, SchemeNames

(* The number of key pairs (cputime.go, 62-70).                            *)
LEMMA KeyRoundsType ==
  /\ keyRounds(Iterations) \in Nat \ {0} /\ keyRounds(Iterations) <= MostKeys
  /\ \A x : KeysOf(x) \in 1 .. MostKeys
<1>1. Iterations \in Nat /\ KeyStep \in Nat \ {0} /\ LeastKeys \in Nat \ {0}
      /\ MostKeys \in Nat \ {0} /\ LeastKeys <= MostKeys
  BY MigrationAssumption, CpuTimeAssumption
<1>2. Iterations \div KeyStep \in Int
  BY <1>1, DivBounds
<1>3. keyRounds(Iterations) \in Nat \ {0} /\ keyRounds(Iterations) <= MostKeys
  <2> DEFINE k == Iterations \div KeyStep
  <2>1. keyRounds(Iterations)
          = IF k < LeastKeys THEN LeastKeys ELSE IF k > MostKeys THEN MostKeys ELSE k
    BY DEF keyRounds
  <2> HIDE DEF k
  <2>2. k \in Int
    BY <1>2 DEF k
  <2> QED BY <1>1, <2>1, <2>2
<1> QED BY <1>1, <1>3 DEF KeysOf

(* The indices of a nested loop stay within the two lists.                 *)
LEMMA PairIndexes ==
  ASSUME NEW a \in Nat \ {0}, NEW b \in Nat \ {0}, NEW k \in 1 .. a * b
  PROVE  (k - 1) \div b + 1 \in 1 .. a /\ ((k - 1) % b) + 1 \in 1 .. b
<1> DEFINE q == (k - 1) \div b
           r == (k - 1) % b
<1>1. a * b \in Nat
  OBVIOUS
<1>2. k - 1 \in Int /\ 0 <= k - 1 /\ k - 1 < a * b
  BY <1>1
<1>3. q \in Int /\ r \in 0 .. b - 1
  BY <1>2, DivBounds, ModBounds
<1>4. 0 <= q
  <2>1. 0 <= q <=> 0 * b <= k - 1
    BY <1>2, DivisionInverts
  <2> HIDE DEF q
  <2> QED BY <1>2, <2>1
<1>5. ~(a <= q)
  <2>1. a <= q <=> a * b <= k - 1
    BY <1>2, DivisionInverts
  <2> HIDE DEF q
  <2> QED BY <1>1, <1>2, <2>1
<1> HIDE DEF q, r
<1>6. q + 1 \in 1 .. a /\ r + 1 \in 1 .. b
  BY <1>3, <1>4, <1>5
<1> QED BY <1>6 DEF q, r

(* A verdict's figures stay in the word.                                   *)
LEMMA VerdictType ==
  ASSUME flags \in Flags, NEW n \in Range(flags.counts), NEW r \in Range(flags.rounds),
         Durations \subseteq Nat, NEW d \in Durations
  PROVE  LET v == AssessRound(flags.arch, n, r, d, flags.cores)
         IN  /\ v \in [validators : Range(flags.counts), round : Range(flags.rounds),
                       verify : Durations, withCores : Int64, share : Int64 \X Int64,
                       fits : BOOLEAN]
             /\ v.validators = n /\ v.round = r /\ v.verify = d
             /\ v.withCores
                  = Quo(Wrap(VotesOfOthers(n) * d), AtLeastOne(flags.cores))
             /\ v.share = <<v.withCores, FloatToInt(flags.arch, <<r[1] * Second, r[2]>>)>>
             /\ v.fits <=> v.withCores < FloatToInt(flags.arch, <<r[1] * Second, r[2]>>)
<1> DEFINE c == AtLeastOne(flags.cores)
           serial == Wrap(VotesOfOthers(n) * d)
           with == Quo(serial, c)
           budget == FloatToInt(flags.arch, <<r[1] * Second, r[2]>>)
           v == AssessRound(flags.arch, n, r, d, flags.cores)
<1>1. c \in Nat \ {0}
  BY FlagsShape DEF AtLeastOne
<1>2. n \in Nat /\ r[1] \in Nat /\ r[2] \in Nat /\ d \in Nat /\ Second \in Nat
  BY FlagsShape, CpuTimeAssumption
<1>3. VotesOfOthers(n) \in Nat
  <2>1. Wrap(2 * (n - 1)) \in Int
    BY <1>2, WrapInWord, MaxIntAssumption DEF Int64, MinInt
  <2> QED BY <2>1 DEF VotesOfOthers
<1>4. serial \in Int64
  <2>1. VotesOfOthers(n) * d \in Int
    BY <1>2, <1>3
  <2> QED BY <2>1, WrapInWord
<1>5. with \in Int64
  <2> HIDE DEF c, serial
  <2>1. serial \in Int
    BY <1>4, MaxIntAssumption DEF Int64, MinInt
  <2>2. /\ serial >= 0 => with \in 0 .. serial
        /\ serial < 0 => with \in serial .. 0
    BY <1>1, <2>1, QuoTowardZero
  <2> HIDE DEF with
  <2>3. MinInt \in Int /\ MaxInt \in Nat /\ MinInt < 0 /\ serial \in MinInt .. MaxInt
    BY <1>4, MaxIntAssumption DEF Int64, MinInt
  <2>4. with \in MinInt .. MaxInt
    BY <2>1, <2>2, <2>3
  <2> QED BY <2>4 DEF Int64
<1>6. budget \in Int64
  <2>1. r[1] * Second \in Int /\ r[2] \in Int
    BY <1>2
  <2> QED BY <2>1, FloatToIntInWord
<1>7. v = [validators |-> n, round |-> r, verify |-> d, withCores |-> with,
           share |-> <<with, budget>>, fits |-> FitsBefore(with, budget)]
  BY DEF AssessRound
<1>8. FitsBefore(with, budget) \in BOOLEAN /\ (FitsBefore(with, budget) <=> with < budget)
  <2>1. with \in Int /\ budget \in Int
    <3> HIDE DEF with, budget
    <3> QED BY <1>5, <1>6, MaxIntAssumption DEF Int64, MinInt
  <2> HIDE DEF with, budget
  <2> QED BY <2>1 DEF FitsBefore
<1> HIDE DEF v, with, budget
<1>9. v \in [validators : Range(flags.counts), round : Range(flags.rounds),
             verify : Durations, withCores : Int64, share : Int64 \X Int64, fits : BOOLEAN]
  BY <1>5, <1>6, <1>7, <1>8
<1>10. /\ v.validators = n /\ v.round = r /\ v.verify = d /\ v.withCores = with
       /\ v.share = <<with, budget>> /\ (v.fits <=> with < budget)
  BY <1>7, <1>8
<1> QED BY <1>9, <1>10 DEF v, with, budget

(* A name's rows of the round table.                                       *)
RoundTable == Pairs(flags.counts, flags.rounds, RoundRow)

(* Each is right, and there is one for each count and round time.          *)
LEMMA RoundRowsAre ==
  ASSUME flags \in Flags, Durations \subseteq Nat,
         verifyFor \in [DOMAIN verifyFor -> Durations],
         name \in DOMAIN verifyFor, name \in Implemented, name \in Range(flags.schemes)
  PROVE  /\ RoundTable \in Seq(RoundRows)
         /\ Len(RoundTable) = Size("round", name)
         /\ \A k \in DOMAIN RoundTable :
              RoundTable[k].scheme = name /\ RowRight("round", RoundTable[k])
<1> DEFINE a == Len(flags.counts)
           b == Len(flags.rounds)
           i(k) == (k - 1) \div b + 1
           j(k) == ((k - 1) % b) + 1
           row(k) == RoundRow(flags.counts[i(k)], flags.rounds[j(k)])
           new == [k \in 1 .. a * b |-> row(k)]
<1>1. RoundTable = new
  BY DEF RoundTable, Pairs
<1>2. a \in Nat \ {0} /\ b \in Nat \ {0} /\ a * b \in Nat
  <2>1. a \in Nat \ {0} /\ b \in Nat \ {0}
    BY FlagsShape
  <2> HIDE DEF a, b
  <2> QED BY <2>1
<1>3. ASSUME NEW k \in 1 .. a * b
      PROVE  row(k) \in RoundRows /\ row(k).scheme = name /\ RowRight("round", row(k))
  <2> DEFINE n == flags.counts[i(k)]
             r == flags.rounds[j(k)]
             v == AssessRound(flags.arch, n, r, verifyFor[name], flags.cores)
  <2>1. i(k) \in 1 .. a /\ j(k) \in 1 .. b
    BY <1>2, <1>3, PairIndexes
  <2>2. n \in Range(flags.counts) /\ r \in Range(flags.rounds)
    <3> HIDE DEF i, j
    <3> QED BY <2>1, FlagsShape
  <2>3. row(k) = [scheme |-> name, verdict |-> v]
    BY DEF RoundRow
  <2> HIDE DEF n, r
  <2>4. v \in [validators : Range(flags.counts), round : Range(flags.rounds),
               verify : Durations, withCores : Int64, share : Int64 \X Int64, fits : BOOLEAN]
    BY <2>2, VerdictType
  <2> HIDE DEF row
  <2>5. row(k).scheme = name /\ row(k).verdict = v
    BY <2>3
  <2>6. row(k) \in RoundRows
    <3> HIDE DEF v
    <3> QED BY <2>3, <2>4 DEF RoundRows
  <2>7. RowRight("round", row(k))
    BY <2>2, <2>5 DEF RowRight
  <2> QED BY <2>5, <2>6, <2>7
<1> HIDE DEF row, a, b
<1>4. new \in Seq(RoundRows) /\ DOMAIN new = 1 .. a * b /\ \A k \in 1 .. a * b : new[k] = row(k)
  BY <1>2, <1>3, IsASeq
<1> HIDE DEF new
<1>5. Len(new) = a * b
  <2>1. Len(new) \in Nat /\ DOMAIN new = 1 .. Len(new)
    BY <1>4, LenProperties
  <2> QED BY <1>2, <1>4, <2>1, EqualIntervals
<1>6. Size("round", name) = a * b
  BY DEF Size, a, b
<1> QED BY <1>1, <1>3, <1>4, <1>5, <1>6

(* The key length of a scheme of the table.                                *)
LEMMA PubKeyType ==
  ASSUME NEW x \in SchemeNames
  PROVE  lookupScheme(x).pubKeyBytes \in Nat
<1> DEFINE k == CHOOSE i \in DOMAIN schemes : schemes[i].name = x
<1>1. \E i \in DOMAIN schemes : schemes[i].name = x
  BY DEF SchemeNames
<1>2. k \in DOMAIN schemes
  BY <1>1
<1>3. DOMAIN schemes = 1 .. 10
  BY DEF schemes
<1>4. \A i \in 1 .. 10 : schemes[i].pubKeyBytes \in Nat
  BY SMT DEF schemes, Scheme
<1>5. lookupScheme(x) = schemes[k]
  BY DEF lookupScheme
<1> HIDE DEF k
<1> QED BY <1>2, <1>3, <1>4, <1>5

(* An int64 field is as long as the loop over its bits says.               *)
LEMMA Int64FieldType == \A v \in Int : Int64Field(v) \in Nat
<1> TAKE v \in Int
<1>1. v >= 0 => shiftLoop[v] \in Nat
  BY ShiftLoopType
<1> QED BY <1>1 DEF Int64Field

(* A name's rows of the client update table.                               *)
UpdateTable == [k \in DOMAIN flags.counts |-> MeasureClientUpdate(scheme, flags.counts[k])]

(* Each is right, and there is one for each count.                         *)
LEMMA UpdateRowsAre ==
  ASSUME flags \in Flags, name \in SchemeNames, name \in Range(flags.schemes)
  PROVE  /\ UpdateTable \in Seq(UpdateRows)
         /\ Len(UpdateTable) = Size("ibc", name)
         /\ \A k \in DOMAIN UpdateTable :
              UpdateTable[k].scheme = name /\ RowRight("ibc", UpdateTable[k])
<1> DEFINE a == Len(flags.counts)
           row(k) == MeasureClientUpdate(scheme, flags.counts[k])
           new == [k \in DOMAIN flags.counts |-> row(k)]
<1>1. a \in Nat /\ DOMAIN flags.counts = 1 .. a
  BY FlagsShape
<1>2. scheme.name = name /\ scheme.sigBytes \in Nat /\ scheme.pubKeyBytes \in Nat
  BY LookupType, PubKeyType DEF scheme
<1>3. ASSUME NEW n \in Range(flags.counts)
      PROVE  /\ MeasureClientUpdate(scheme, n) \in UpdateRows
             /\ MeasureClientUpdate(scheme, n).scheme = name
  <2> DEFINE one == MessageField(Validator(scheme.pubKeyBytes))
             commit == commitBytes(n, scheme.sigBytes)
             set == n * one + Int64Field(Wrap(n * VotingPower))
  <2>1. n \in Nat
    BY FlagsShape
  <2>2. one \in Nat
    <3>1. BytesField(AddressWidth) \in Nat
      BY FieldTypes DEF AddressWidth
    <3>2. MessageField(BytesField(scheme.pubKeyBytes)) \in Nat
      BY <1>2, FieldTypes
    <3>3. VarintField(VotingPower) \in Nat
      <4>1. VotingPower \in Nat
        BY SMT DEF VotingPower
      <4> QED BY <4>1, FieldTypes
    <3>4. Validator(scheme.pubKeyBytes) \in Nat
      BY <3>1, <3>2, <3>3 DEF Validator
    <3> QED BY <3>4, FieldTypes
  <2>3. Int64Field(Wrap(n * VotingPower)) \in Nat
    <3>1. n * VotingPower \in Int
      BY <2>1, SMT DEF VotingPower
    <3> DEFINE power == Wrap(n * VotingPower)
    <3>2. power \in Int64
      BY <3>1, WrapInWord
    <3> HIDE DEF power
    <3>3. power \in Int
      BY <3>2, MaxIntAssumption DEF Int64, MinInt
    <3> QED BY <3>3, Int64FieldType, Zenon DEF power
  <2>4. commit \in Nat
    BY <1>2, <2>1, CommitBytesType
  <2> HIDE DEF one, commit
  <2>5. set \in Nat
    BY <2>1, <2>2, <2>3
  <2>6. MeasureClientUpdate(scheme, n)
          = [scheme |-> name, validators |-> n, commit |-> commit,
             validatorSet |-> set, total |-> commit + set]
    BY <1>2 DEF MeasureClientUpdate, one, commit
  <2> HIDE DEF set
  <2>7. commit + set \in Nat
    BY <2>4, <2>5
  <2> QED BY <1>2, <2>4, <2>5, <2>6, <2>7 DEF UpdateRows
<1>4. ASSUME NEW k \in 1 .. a
      PROVE  row(k) \in UpdateRows /\ row(k).scheme = name /\ RowRight("ibc", row(k))
  <2>1. flags.counts[k] \in Range(flags.counts)
    BY <1>1, FlagsShape
  <2>2. row(k) \in UpdateRows /\ row(k).scheme = name
    BY <1>3, <2>1
  <2> HIDE DEF row
  <2> QED BY <2>2 DEF RowRight
<1>5. Size("ibc", name) = a
  BY DEF Size
<1> HIDE DEF row, a
<1>6. new \in Seq(UpdateRows) /\ DOMAIN new = 1 .. a /\ \A k \in 1 .. a : new[k] = row(k)
  BY <1>1, <1>4, IsASeq
<1> HIDE DEF new
<1>7. Len(new) = a
  <2>1. Len(new) \in Nat /\ DOMAIN new = 1 .. Len(new)
    BY <1>6, LenProperties
  <2> QED BY <1>1, <1>6, <2>1, EqualIntervals
<1>8. /\ new \in Seq(UpdateRows) /\ Len(new) = Size("ibc", name)
      /\ \A k \in DOMAIN new : new[k].scheme = name /\ RowRight("ibc", new[k])
  BY <1>4, <1>5, <1>6, <1>7
<1> QED BY <1>8 DEF new, row, UpdateTable

-----------------------------------------------------------------------------
(* Rounding to a float64: what it keeps of an order and of a bound.        *)

(* The spacing of float64 values is a function that satisfies its          *)
(* definition.                                                             *)
LEMMA SpacingStep ==
  \A n \in Nat : /\ spacing[n] \in Nat
                 /\ spacing[n] = IF n < Precision THEN 1 ELSE 2 * spacing[n \div 2]
<1> DEFINE B == {n \in Nat : n < Precision}
           b == [k \in Nat |-> 1]
           s == [pair \in Nat \X Nat |-> 2 * pair[2]]
           d == [k \in Nat |-> k \div 2]
           Halves(f) == f = [n \in Nat |-> IF n < Precision THEN 1 ELSE 2 * f[n \div 2]]
<1>1. b \in [Nat -> Nat] /\ s \in [Nat \X Nat -> Nat]
  OBVIOUS
<1>2. d \in [Nat -> Nat] /\ \A k \in Nat : d[k] = k \div 2
  <2>1. \A k \in Nat : k \div 2 \in Nat
    BY SMT
  <2> QED BY <2>1
<1>3. \A k \in Nat \ B : d[k] < k
  <2>1. \A k \in Nat \ {0} : k \div 2 < k
    BY SMT
  <2>2. 0 \in B
    BY PrecisionAssumption
  <2> QED BY <1>2, <2>1, <2>2
<1>4. \A n \in Nat : n \in B <=> n < Precision
  OBVIOUS
<1> HIDE DEF B, b, s, d
<1>5. PICK f \in [Nat -> Nat] : \A n \in Nat : Recurs(f, n, B, b, d, s)
  BY <1>1, <1>2, <1>3, RecursionExists
<1>6. ASSUME NEW n \in Nat PROVE f[n] = IF n < Precision THEN 1 ELSE 2 * f[n \div 2]
  <2>1. b[n] = 1 /\ (n \in B <=> n < Precision)
    BY <1>4 DEF b
  <2>2. d[n] = n \div 2 /\ d[n] \in Nat
    BY <1>2
  <2>3. s[<<n, f[d[n]]>>] = 2 * f[d[n]]
    BY <2>2 DEF s
  <2> QED BY <1>5, <2>1, <2>2, <2>3 DEF Recurs
<1>7. Halves(f)
  BY <1>6
<1>8. Halves(spacing) /\ spacing \in [Nat -> Nat]
  <2> DEFINE chosen == CHOOSE g : Halves(g)
  <2>1. Halves(chosen)
    BY <1>7
  <2>2. spacing = chosen
    BY DEF spacing
  <2> HIDE DEF chosen
  <2>3. Halves(spacing)
    BY <2>1, <2>2
  <2>4. ASSUME NEW n \in Nat, \A k \in 0 .. n - 1 : k \in {m \in Nat : spacing[m] \in Nat}
        PROVE  n \in {m \in Nat : spacing[m] \in Nat}
    <3>1. n >= Precision => n \div 2 \in 0 .. n - 1
      <4>1. n # 0 => n \div 2 \in 0 .. n - 1
        BY SMT
      <4> QED BY <4>1, PrecisionAssumption
    <3>2. spacing[n] = IF n < Precision THEN 1 ELSE 2 * spacing[n \div 2]
      BY <2>3
    <3>3. n >= Precision => spacing[n \div 2] \in Nat
      BY <2>4, <3>1
    <3> QED BY <3>2, <3>3, PrecisionAssumption
  <2>5. Nat \subseteq {m \in Nat : spacing[m] \in Nat}
    BY <2>4, Induction
  <2>6. DOMAIN spacing = Nat /\ spacing = [n \in Nat |-> spacing[n]]
    BY <2>3
  <2> QED BY <2>3, <2>5, <2>6
<1> QED BY <1>8

(* The values around n lie in the binade the spacing is that of.           *)
LEMMA SpacingBounds ==
  \A n \in Nat : /\ spacing[n] \in Nat \ {0}
                 /\ n < Precision * spacing[n]
                 /\ n < Precision => spacing[n] = 1
                 /\ n >= Precision => 2 * n >= Precision * spacing[n]
<1> DEFINE T == {n \in Nat : /\ spacing[n] \in Nat \ {0}
                             /\ n < Precision * spacing[n]
                             /\ n < Precision => spacing[n] = 1
                             /\ n >= Precision => 2 * n >= Precision * spacing[n]}
<1>1. ASSUME NEW n \in Nat, \A k \in 0 .. n - 1 : k \in T PROVE n \in T
  <2>1. CASE n < Precision
    BY <2>1, SpacingStep, PrecisionAssumption
  <2>2. CASE n >= Precision
    <3> DEFINE h == n \div 2
               u == spacing[h]
    <3>1. h \in 0 .. n - 1 /\ n <= 2 * h + 1 /\ 2 * h <= n
      <4>1. n # 0 => n \div 2 \in 0 .. n - 1 /\ n <= 2 * (n \div 2) + 1 /\ 2 * (n \div 2) <= n
        BY SMT
      <4> QED BY <2>2, <4>1, PrecisionAssumption
    <3>2. u \in Nat \ {0} /\ h < Precision * u /\ (h < Precision => u = 1)
          /\ (h >= Precision => 2 * h >= Precision * u)
      BY <1>1, <3>1
    <3>3. spacing[n] = 2 * u
      BY <2>2, SpacingStep, PrecisionAssumption
    <3> DEFINE pu == Precision * u
    <3>4. pu \in Nat /\ Precision * (2 * u) = 2 * pu /\ (u = 1 => pu = Precision)
      BY <3>2, PrecisionAssumption
    <3> HIDE DEF h, u, pu
    <3>5. n < 2 * pu
      BY <3>1, <3>2, <3>4 DEF pu
    <3>6. 2 * n >= 2 * pu
      <4>1. CASE h < Precision
        BY <2>2, <3>2, <3>4, <4>1, PrecisionAssumption
      <4>2. CASE h >= Precision
        BY <3>1, <3>2, <3>4, <4>2, PrecisionAssumption DEF pu
      <4> QED BY <3>1, <4>1, <4>2, PrecisionAssumption
    <3> QED BY <2>2, <3>2, <3>3, <3>4, <3>5, <3>6, PrecisionAssumption
  <2> QED BY <2>1, <2>2, PrecisionAssumption
<1>2. Nat \subseteq T
  <2> HIDE DEF T
  <2> QED BY <1>1, Induction
<1> QED BY <1>2

(* The spacing of a larger number is the same or at least twice as wide.   *)
LEMMA SpacingGrows ==
  ASSUME NEW m \in Nat, NEW n \in Nat, m <= n
  PROVE  spacing[m] = spacing[n] \/ 2 * spacing[m] <= spacing[n]
<1> DEFINE Follows(j, k) == spacing[j] = spacing[k] \/ 2 * spacing[j] <= spacing[k]
           T == {k \in Nat : \A j \in Nat : j <= k => Follows(j, k)}
<1>1. ASSUME NEW k \in Nat, \A i \in 0 .. k - 1 : i \in T PROVE k \in T
  <2> SUFFICES ASSUME NEW j \in Nat, j <= k PROVE Follows(j, k)
    OBVIOUS
  <2>1. CASE k < Precision
    BY <2>1, SpacingBounds, PrecisionAssumption
  <2>2. CASE k >= Precision
    <3>1. k \div 2 \in 0 .. k - 1 /\ j \div 2 \in Nat /\ j \div 2 <= k \div 2
      <4>1. k # 0 => k \div 2 \in 0 .. k - 1 /\ j \div 2 \in Nat /\ j \div 2 <= k \div 2
        BY SMT
      <4> QED BY <2>2, <4>1, PrecisionAssumption
    <3>2. spacing[k] = 2 * spacing[k \div 2] /\ spacing[k \div 2] \in Nat \ {0}
      BY <2>2, <3>1, SpacingStep, SpacingBounds, PrecisionAssumption
    <3>3. CASE j < Precision
      <4>1. spacing[j] = 1
        BY <3>3, SpacingBounds
      <4> QED BY <3>2, <4>1
    <3>4. CASE j >= Precision
      <4>1. spacing[j] = 2 * spacing[j \div 2] /\ spacing[j \div 2] \in Nat
        BY <3>1, <3>4, SpacingStep, PrecisionAssumption
      <4>2. Follows(j \div 2, k \div 2)
        BY <1>1, <3>1
      <4> QED BY <3>2, <4>1, <4>2
    <3> QED BY <3>3, <3>4, PrecisionAssumption
  <2> QED BY <2>1, <2>2, PrecisionAssumption
<1> HIDE DEF T
<1>2. Nat \subseteq T
  BY <1>1, Induction
<1> QED BY <1>2 DEF T

(* What is left over by a division.                                        *)
LEMMA DivisionRest ==
  ASSUME NEW a \in Nat, NEW d \in Nat \ {0}
  PROVE  a - (a \div d) * d = a % d
  BY SMT

(* Of a multiple, nothing.                                                 *)
LEMMA MultipleHasNoRest ==
  ASSUME NEW q \in Nat, NEW v \in Nat \ {0}
  PROVE  (q * v) % v = 0
<1> DEFINE x == q * v
           r == x \div v
<1>1. x \in Nat
  OBVIOUS
<1>2. q <= r /\ r \in Int
  <2> HIDE DEF r
  <2>1. q <= x \div v <=> q * v <= x
    BY <1>1, DivisionInverts
  <2>2. x \div v \in Int
    BY <1>1, DivBounds
  <2> QED BY <1>1, <2>1, <2>2 DEF r
<1>3. q * v <= r * v
  <2> HIDE DEF r
  <2> QED BY <1>2, ProductMonotone
<1> HIDE DEF x
<1> DEFINE rest == x % v
           down == r * v
<1>4. rest \in Nat /\ x - down = rest /\ down \in Int
  <2>1. (x \div v) * v \in Int
    BY <1>2
  <2>2. x % v \in 0 .. v - 1
    BY <1>1, ModBounds
  <2> QED BY <1>1, <2>1, <2>2, DivisionRest
<1>5. x <= down
  BY <1>3 DEF x
<1> HIDE DEF rest, down
<1>6. rest = 0
  BY <1>1, <1>4, <1>5
<1> QED BY <1>6 DEF rest, x

(* Nearest is one of the two integers next to the quotient.                *)
LEMMA NearestBounds ==
  ASSUME NEW a \in Nat, NEW b \in Nat \ {0}
  PROVE  /\ Nearest(a, b) \in {a \div b, a \div b + 1}
         /\ a \div b \in Nat
         /\ a % b = 0 => Nearest(a, b) = a \div b
<1> DEFINE low == a \div b
           rest == a % b
<1>1. low \in Nat /\ rest \in Nat /\ rest < b
  BY SMT
<1>2. Nearest(a, b)
        = IF 2 * rest > b \/ (2 * rest = b /\ low % 2 = 1) THEN low + 1 ELSE low
  BY DEF Nearest
<1> HIDE DEF low, rest
<1>3. rest = 0 => Nearest(a, b) = low
  BY <1>1, <1>2
<1>4. Nearest(a, b) \in {low, low + 1}
  BY <1>2
<1> QED BY <1>1, <1>3, <1>4 DEF low, rest

(* A larger number is not rounded to a smaller one.                        *)
LEMMA NearestGrows ==
  ASSUME NEW a \in Nat, NEW c \in Nat, NEW b \in Nat \ {0}, a <= c
  PROVE  Nearest(a, b) <= Nearest(c, b)
<1> DEFINE p == a \div b
           q == c \div b
           r == a % b
           s == c % b
           even == p % 2
<1>1. p \in Nat /\ q \in Nat /\ r \in Nat /\ s \in Nat /\ a = p * b + r /\ c = q * b + s
      /\ r < b /\ s < b
  BY SMT
<1>2. p <= q
  <2>1. p * b <= a
    BY <1>1
  <2>2. p * b <= c
    BY <1>1, <2>1
  <2> QED BY <1>1, <2>2, DivisionInverts
<1>3. /\ Nearest(a, b) = IF 2 * r > b \/ (2 * r = b /\ even = 1) THEN p + 1 ELSE p
      /\ Nearest(c, b) \in {q, q + 1}
      /\ p = q => Nearest(c, b) = IF 2 * s > b \/ (2 * s = b /\ even = 1) THEN p + 1 ELSE p
  BY NearestBounds DEF Nearest
<1>4. p = q => r <= s
  <2> DEFINE e == p * b
  <2>1. p = q => a = e + r /\ c = e + s
    BY <1>1
  <2>2. e \in Int
    BY <1>1
  <2> HIDE DEF e, p, q, r, s
  <2> QED BY <1>1, <2>1, <2>2
<1> HIDE DEF p, q, r, s, even
<1>5. CASE p < q
  BY <1>1, <1>3, <1>5
<1>6. CASE p = q
  BY <1>1, <1>3, <1>4, <1>6
<1> QED BY <1>1, <1>2, <1>5, <1>6

(* A number is held exactly by a float64 if it is a multiple of the        *)
(* spacing around it.                                                      *)
Held(n) == n % spacing[n] = 0

(* Such a number is not changed by rounding.                               *)
LEMMA RoundedIsNat ==
  ASSUME NEW n \in Nat
  PROVE  /\ Rounded(n) = RoundedNat(n) /\ Rounded(n) \in Nat
         /\ Held(n) => Rounded(n) = n
<1>1. spacing[n] \in Nat \ {0}
  BY SpacingBounds
<1> DEFINE u == spacing[n]
           k == Nearest(n, u)
<1>2. Rounded(n) = RoundedNat(n) /\ RoundedNat(n) = k * u
  BY DEF Rounded, RoundedNat
<1>3. k \in Nat
  BY <1>1, NearestBounds
<1>4. Held(n) => k = n \div u /\ (n \div u) * u = n
  <2>1. n % u = 0 => (n \div u) * u = n
    BY <1>1, SMT
  <2> QED BY <1>1, <2>1, NearestBounds DEF Held
<1> HIDE DEF u, k
<1>5. k * u \in Nat
  BY <1>1, <1>3 DEF u
<1> QED BY <1>2, <1>4, <1>5

(* Rounding keeps the order of numbers, whatever their magnitude.          *)
LEMMA RoundedGrows ==
  ASSUME NEW m \in Nat, NEW n \in Nat, m <= n
  PROVE  Rounded(m) <= Rounded(n)
<1> DEFINE u == spacing[m]
           w == spacing[n]
           i == Nearest(m, u)
           k == Nearest(n, w)
<1>1. u \in Nat \ {0} /\ w \in Nat \ {0} /\ m < Precision * u
      /\ (n < Precision => w = 1) /\ (n >= Precision => 2 * n >= Precision * w)
  BY SpacingBounds
<1>2. Rounded(m) = i * u /\ Rounded(n) = k * w
  BY RoundedIsNat DEF RoundedNat
<1>3. i \in Nat /\ k \in Nat /\ i <= m \div u + 1 /\ n \div w <= k
      /\ m \div u \in Nat /\ n \div w \in Nat
  <2> HIDE DEF u, w
  <2>1. i \in {m \div u, m \div u + 1} /\ m \div u \in Nat
    BY <1>1, NearestBounds
  <2>2. k \in {n \div w, n \div w + 1} /\ n \div w \in Nat
    BY <1>1, NearestBounds
  <2> HIDE DEF i, k
  <2> QED BY <2>1, <2>2
<1>4. CASE u = w
  <2>1. i <= k
    BY <1>1, <1>4, NearestGrows
  <2> HIDE DEF u, w, i, k
  <2> QED BY <1>1, <1>2, <1>3, <1>4, <2>1, ProductMonotone
<1>5. CASE 2 * u <= w
  <2>1. n >= Precision
    <3> HIDE DEF u, w
    <3> QED BY <1>1, <1>5, PrecisionAssumption
  <2> DEFINE half == Precision \div 2
  <2>2. half \in Nat /\ Precision = 2 * half
    BY PrecisionAssumption, SMT
  <2>3. half <= n \div w
    <3>1. half * w <= n
      <4> DEFINE hw == half * w
      <4>1. hw \in Int /\ Precision * w = 2 * hw
        <5> HIDE DEF half, w
        <5> QED BY <1>1, <2>2
      <4> HIDE DEF hw, half, w
      <4> QED BY <1>1, <2>1, <4>1 DEF hw
    <3> HIDE DEF half, w
    <3> QED BY <1>1, <2>2, <3>1, DivisionInverts
  <2>4. m \div u < Precision
    <3>1. ~(Precision <= m \div u)
      <4> HIDE DEF u, w, i, k, half
      <4>1. Precision <= m \div u <=> Precision * u <= m
        BY <1>1, PrecisionAssumption, DivisionInverts
      <4>2. Precision * u \in Int
        BY <1>1, PrecisionAssumption
      <4> QED BY <1>1, <4>1, <4>2
    <3> HIDE DEF u
    <3> QED BY <1>3, <3>1, PrecisionAssumption
  <2>5. i <= Precision /\ half <= k
    <3> HIDE DEF i, k, u, w, half
    <3> QED BY <1>3, <2>2, <2>3, <2>4, PrecisionAssumption
  <2> HIDE DEF i, k, u, w, half
  <2>6. i * u <= Precision * u
    BY <1>1, <1>3, <2>5, PrecisionAssumption, ProductMonotone
  <2>7. Precision * u = half * (2 * u)
    BY <1>1, <2>2
  <2>8. half * (2 * u) <= half * w
    <3>1. (2 * u) * half <= w * half
      BY <1>1, <1>5, <2>2, ProductMonotone
    <3> QED BY <1>1, <2>2, <3>1
  <2>9. half * w <= k * w
    BY <1>1, <1>3, <2>2, <2>5, ProductMonotone
  <2>10. /\ i * u \in Int /\ half * w \in Int /\ k * w \in Int
         /\ half * (2 * u) \in Int
    BY <1>1, <1>3, <2>2
  <2> QED BY <1>2, <2>6, <2>7, <2>8, <2>9, <2>10
<1> QED BY <1>4, <1>5, SpacingGrows

(* Twice a number that is held is held.                                    *)
LEMMA DoubleIsHeld ==
  ASSUME NEW n \in Nat, Held(n)
  PROVE  Held(2 * n)
<1> DEFINE u == spacing[n]
           w == spacing[2 * n]
<1>1. u \in Nat \ {0} /\ w = IF 2 * n < Precision THEN 1 ELSE 2 * u
  <2>1. 2 * n \in Nat /\ (2 * n) \div 2 = n
    BY SMT
  <2> QED BY <2>1, SpacingStep, SpacingBounds
<1>2. n % u = 0
  BY DEF Held
<1> HIDE DEF u, w
<1>3. (2 * n) % 1 = 0
  BY SMT
<1>4. (2 * n) % (2 * u) = 0
  <2>1. n = (n \div u) * u /\ n \div u \in Nat
    BY <1>1, <1>2, SMT
  <2>2. 2 * n = (n \div u) * (2 * u)
    BY <1>1, <2>1
  <2> DEFINE q == n \div u
             v == 2 * u
  <2>3. q \in Nat /\ v \in Nat \ {0} /\ 2 * n = q * v
    BY <1>1, <2>1, <2>2
  <2> HIDE DEF q, v
  <2>4. (q * v) % v = 0
    BY <2>3, MultipleHasNoRest
  <2> QED BY <2>3, <2>4 DEF v
<1>5. w = 1 \/ w = 2 * u
  BY <1>1
<1>6. (2 * n) % w = 0
  BY <1>3, <1>4, <1>5
<1> QED BY <1>6 DEF Held, w

(* And so is any product of it with a power of two.                        *)
LEMMA ScaledIsHeld ==
  ASSUME NEW q \in Nat, Held(q), NEW n \in Nat
  PROVE  Held(q * spacing[n])
<1> DEFINE T == {k \in Nat : Held(q * spacing[k])}
<1>1. ASSUME NEW k \in Nat, \A i \in 0 .. k - 1 : i \in T PROVE Held(q * spacing[k])
  <2>1. CASE k < Precision
    <3>1. spacing[k] = 1 /\ q * 1 = q
      BY <2>1, SpacingBounds
    <3> QED BY <3>1
  <2>2. CASE k >= Precision
    <3>1. k \div 2 \in 0 .. k - 1
      <4>1. k # 0 => k \div 2 \in 0 .. k - 1
        BY SMT
      <4> QED BY <2>2, <4>1, PrecisionAssumption
    <3> DEFINE u == spacing[k \div 2]
    <3>2. spacing[k] = 2 * u /\ u \in Nat /\ Held(q * u)
      BY <1>1, <2>2, <3>1, SpacingStep, PrecisionAssumption
    <3> HIDE DEF u
    <3>3. q * u \in Nat /\ q * (2 * u) = 2 * (q * u)
      BY <3>2
    <3> QED BY <3>2, <3>3, DoubleIsHeld
  <2> QED BY <2>1, <2>2, PrecisionAssumption
<1>2. \A k \in Nat : (\A i \in 0 .. k - 1 : i \in T) => k \in T
  BY <1>1
<1> HIDE DEF T
<1>3. Nat \subseteq T
  BY <1>2, Induction
<1> QED BY <1>3 DEF T

(* All integers up to the precision are held.                              *)
LEMMA SmallIsHeld ==
  ASSUME NEW n \in 0 .. Precision
  PROVE  Held(n)
<1>1. n \in Nat /\ Precision \in Nat \ {0} /\ Precision % 2 = 0
  BY PrecisionAssumption
<1>2. CASE n < Precision
  <2>1. spacing[n] = 1 /\ n % 1 = 0
    BY <1>1, <1>2, SpacingBounds, SMT
  <2> QED BY <2>1 DEF Held
<1>3. CASE n = Precision
  <2>1. n \div 2 \in Nat /\ n \div 2 < Precision
    BY <1>1, <1>3, SMT
  <2>2. spacing[n] = 2 * spacing[n \div 2] /\ spacing[n \div 2] = 1
    BY <1>1, <1>3, <2>1, SpacingStep, SpacingBounds
  <2> QED BY <1>1, <1>3, <2>2 DEF Held
<1> QED BY <1>1, <1>2, <1>3

(* What rounding returns is held, so rounding it again changes nothing.    *)
LEMMA RoundedIsHeld ==
  ASSUME NEW n \in Nat
  PROVE  /\ Held(Rounded(n))
         /\ n <= Precision => Rounded(n) = n
<1> DEFINE u == spacing[n]
           k == Nearest(n, u)
<1>1. u \in Nat \ {0} /\ n < Precision * u
  BY SpacingBounds
<1>2. Rounded(n) = k * u
  BY RoundedIsNat DEF RoundedNat
<1>3. k \in 0 .. Precision
  <2>1. k \in Nat /\ k <= n \div u + 1 /\ n \div u \in Nat
    BY <1>1, NearestBounds
  <2>2. ~(Precision <= n \div u)
    <3> HIDE DEF u
    <3> QED BY <1>1, PrecisionAssumption, DivisionInverts
  <2> HIDE DEF u, k
  <2> QED BY <2>1, <2>2, PrecisionAssumption
<1>4. Held(k * u)
  BY <1>3, SmallIsHeld, ScaledIsHeld, PrecisionAssumption
<1>5. n <= Precision => Rounded(n) = n
  BY PrecisionAssumption, SmallIsHeld, RoundedIsNat
<1> QED BY <1>2, <1>4, <1>5

(* An integer is rounded to an integer, a negative one as well.            *)
LEMMA RoundedIsInt ==
  ASSUME NEW n \in Int
  PROVE  Rounded(n) \in Int
<1>1. \A m \in Nat : RoundedNat(m) \in Int
  BY RoundedIsNat
<1>2. n < 0 => -n \in Nat
  OBVIOUS
<1>3. ~(n < 0) => n \in Nat
  OBVIOUS
<1> QED BY <1>1, <1>2, <1>3 DEF Rounded

-----------------------------------------------------------------------------
(* A fraction is clamped to 0 .. 1, unless it is not a number.             *)
LEMMA ClampType ==
  ASSUME NEW f \in Fractions
  PROVE  /\ ClampFraction(f)[1] \in Int /\ ClampFraction(f)[2] \in Nat
         /\ f # <<0, 0>> => ClampFraction(f)[2] > 0
                              /\ ClampFraction(f)[1] \in 0 .. ClampFraction(f)[2]
<1>1. f[1] \in Int /\ f[2] \in Nat /\ f = <<f[1], f[2]>> /\ (f[2] = 0 => f[1] \in {-1, 0, 1})
  BY DEF Fractions
<1> DEFINE a == f[1]
           b == f[2]
           c == ClampFraction(f)
<1>2. c = IF a < 0 THEN <<0, 1>> ELSE IF a > b THEN <<1, 1>> ELSE f
  BY DEF ClampFraction
<1>3. f # <<0, 0>> => a # 0 \/ b # 0
  BY <1>1
<1>4. a \in Int /\ b \in Nat /\ (b = 0 => a \in {-1, 0, 1})
  BY <1>1
<1> HIDE DEF c, a, b
<1>5. CASE a < 0
  BY <1>2, <1>5 DEF c
<1>6. CASE ~(a < 0) /\ a > b
  BY <1>2, <1>6 DEF c
<1>7. CASE ~(a < 0) /\ ~(a > b)
  <2>1. c = f
    BY <1>2, <1>7
  <2>2. c[1] = a /\ c[2] = b
    BY <2>1 DEF a, b
  <2>3. f # <<0, 0>> => b > 0
    BY <1>3, <1>4, <1>7
  <2>4. a \in 0 .. b
    BY <1>4, <1>7
  <2> QED BY <1>4, <2>2, <2>3, <2>4 DEF c
<1> QED BY <1>5, <1>6, <1>7

(* What is modelled is an int64, and so is each number on the way to it.   *)
LEMMA ModelledType ==
  ASSUME flags \in Flags, NEW u \in Int
  PROVE  Modelled(u) \in Int64
<1> DEFINE s     == ClampFraction(flags.suppression)
           share == Rounded(s[2] - s[1])
           e     == Rounded(Rounded(u) * share)
<1>1. s[1] \in Int /\ s[2] \in Nat
  BY FlagsShape, ClampType DEF Float64s
<1>2. share \in Int
  <2>1. s[2] - s[1] \in Int
    BY <1>1
  <2> QED BY <2>1, RoundedIsInt
<1>3. e \in Int
  <2> HIDE DEF share
  <2>1. Rounded(u) * share \in Int
    BY <1>2, RoundedIsInt
  <2> QED BY <2>1, RoundedIsInt
<1>4. Modelled(u) = FloatToInt(flags.arch, <<e, s[2]>>)
  BY DEF Modelled
<1> HIDE DEF e, s
<1> QED BY <1>1, <1>3, <1>4, FloatToIntInWord

(* The estimate of EstimateGossip (migration.go) for one line.             *)
LEMMA GossipType ==
  ASSUME flags \in Flags, NEW x \in SchemeNames,
         NEW n \in Range(flags.counts), NEW p \in Range(flags.peers)
  PROVE  /\ GossipOf(x, n, p) \in GossipRows
         /\ GossipOf(x, n, p).scheme = x /\ GossipOf(x, n, p).validators = n
         /\ GossipOf(x, n, p).peers = p
<1> DEFINE upper == Wrap(n * Cost(x) * p)
           model == Modelled(upper)
<1>1. n \in Nat /\ p \in Nat /\ Cost(x) \in Nat
  BY FlagsShape, CostOfMeasure
<1>2. upper \in Int64 /\ upper \in Int
  <2>1. n * Cost(x) * p \in Int
    BY <1>1
  <2>2. upper \in Int64
    BY <2>1, WrapInWord
  <2> HIDE DEF upper
  <2> QED BY <2>2, MaxIntAssumption DEF Int64, MinInt
<1>3. model \in Int64
  <2> HIDE DEF upper
  <2> QED BY <1>2, ModelledType
<1>4. GossipOf(x, n, p)
        = [scheme |-> x, validators |-> n, peers |-> p, upper |-> upper, modelled |-> model]
  BY DEF GossipOf
<1> HIDE DEF upper, model
<1> QED BY <1>2, <1>3, <1>4 DEF GossipRows

(* A name's rows of the gossip table.                                      *)
GossipTable ==
  Pairs(flags.counts, flags.peers,
    LAMBDA n, p : EstimateGossip(RoundTripBytes(MeasureSizes(scheme, flags.counts)), n, p))

(* Each is right, and there is one for each count and number of peers.     *)
LEMMA GossipRowsAre ==
  ASSUME flags \in Flags, name \in SchemeNames, name \in Range(flags.schemes)
  PROVE  /\ GossipTable \in Seq(GossipRows)
         /\ Len(GossipTable) = Size("gossip", name)
         /\ \A k \in DOMAIN GossipTable :
              GossipTable[k].scheme = name /\ RowRight("gossip", GossipTable[k])
<1> DEFINE a == Len(flags.counts)
           b == Len(flags.peers)
           i(k) == (k - 1) \div b + 1
           j(k) == ((k - 1) % b) + 1
           cost == RoundTripBytes(MeasureSizes(scheme, flags.counts))
           row(k) == EstimateGossip(cost, flags.counts[i(k)], flags.peers[j(k)])
           new == [k \in 1 .. a * b |-> row(k)]
<1>1. GossipTable = new
  BY DEF GossipTable, Pairs
<1>2. a \in Nat \ {0} /\ b \in Nat \ {0} /\ a * b \in Nat
  <2>1. a \in Nat \ {0} /\ b \in Nat \ {0}
    BY FlagsShape
  <2> HIDE DEF a, b
  <2> QED BY <2>1
<1>3. cost = Cost(name) /\ scheme.name = name
  BY CostOfMeasure, LookupType DEF scheme
<1>4. ASSUME NEW k \in 1 .. a * b
      PROVE  row(k) \in GossipRows /\ row(k).scheme = name /\ RowRight("gossip", row(k))
  <2> DEFINE n == flags.counts[i(k)]
             p == flags.peers[j(k)]
  <2>1. i(k) \in 1 .. a /\ j(k) \in 1 .. b
    BY <1>2, <1>4, PairIndexes
  <2>2. n \in Range(flags.counts) /\ p \in Range(flags.peers)
    <3> HIDE DEF i, j
    <3> QED BY <2>1, FlagsShape
  <2> HIDE DEF n, p, cost
  <2>3. row(k) = GossipOf(name, n, p)
    BY <1>3 DEF EstimateGossip, GossipOf, n, p
  <2> HIDE DEF row
  <2>4. row(k) \in GossipRows /\ row(k).scheme = name
    BY <2>2, <2>3, GossipType
  <2>5. RowRight("gossip", row(k))
    BY <2>2, <2>3, <2>4 DEF RowRight
  <2> QED BY <2>4, <2>5
<1> HIDE DEF row, a, b
<1>5. new \in Seq(GossipRows) /\ DOMAIN new = 1 .. a * b /\ \A k \in 1 .. a * b : new[k] = row(k)
  BY <1>2, <1>4, IsASeq
<1> HIDE DEF new
<1>6. Len(new) = a * b
  <2>1. Len(new) \in Nat /\ DOMAIN new = 1 .. Len(new)
    BY <1>5, LenProperties
  <2> QED BY <1>2, <1>5, <2>1, EqualIntervals
<1>7. Size("gossip", name) = a * b
  BY DEF Size, a, b
<1> QED BY <1>1, <1>4, <1>5, <1>6, <1>7

(* A vote for a block is longer than one for none by as much in either     *)
(* round, and by more than the reference that takes the BlockID's place.   *)
LEMMA BlockIDCosts ==
  ASSUME NEW x \in SchemeNames, NEW counts
  PROVE  LET sizes == MeasureSizes(lookupScheme(x), counts)
         IN  /\ sizes.prevoteNil \in Nat /\ sizes.prevoteBlock \in Nat
             /\ sizes.precommitNil \in Nat /\ sizes.precommitBlock \in Nat
             /\ sizes.precommitBlock - sizes.precommitNil
                  = sizes.prevoteBlock - sizes.prevoteNil
             /\ sizes.prevoteBlock > sizes.prevoteNil + 4
             /\ sizes.precommitBlock > sizes.precommitNil + 4
<1> DEFINE sizes == MeasureSizes(lookupScheme(x), counts)
           sig   == lookupScheme(x).sigBytes
           block == MessageField(sampleBlockID)
           nil   == MessageField(emptyBlockID)
           rest  == MessageField(fixedTimestamp) + BytesField(AddressWidth) + BytesField(sig)
           head  == VarintField(Height)
           type(t) == VarintField(t)
<1>1. sampleBlockID \in Nat /\ emptyBlockID \in Nat /\ fixedTimestamp \in Nat
      /\ Height \in Nat /\ sig \in Nat /\ AddressWidth \in Nat
      /\ PrevoteType \in Nat /\ PrecommitType \in Nat
  BY BlockIDTypes, TimestampType, HeightType, LookupType
     DEF AddressWidth, PrevoteType, PrecommitType
<1>2. /\ block \in Nat /\ nil \in Nat /\ rest \in Nat /\ head \in Nat
      /\ type(PrevoteType) \in Nat /\ type(PrecommitType) \in Nat
  BY <1>1, FieldTypes
<1>3. block > nil + 4
  <2>1. /\ varintLen(0) \in 1 .. 5 /\ varintLen(emptyBlockID) \in 1 .. 5
        /\ varintLen(sampleBlockID) \in 1 .. 5
    BY <1>1, VarintLenType
  <2>2. emptyBlockID \in 0 .. 6
    <3>1. PartSetHeader(0, 0) = 0 /\ BytesField(0) = 0
      BY DEF PartSetHeader, VarintField, BytesField
    <3>2. emptyBlockID = 1 + varintLen(0)
      BY <3>1, <2>1 DEF emptyBlockID, BlockID, MessageField
    <3> QED BY <2>1, <3>2
  <2>3. sampleBlockID >= 32
    <3>1. BytesField(32) \in Nat /\ BytesField(32) >= 32
      BY FieldTypes
    <3>2. MessageField(PartSetHeader(1, 32)) \in Nat
      <4>1. VarintField(1) \in Nat /\ BytesField(32) \in Nat
        BY FieldTypes
      <4>2. PartSetHeader(1, 32) \in Nat
        BY <4>1 DEF PartSetHeader
      <4> QED BY <4>2, FieldTypes
    <3> QED BY <3>1, <3>2 DEF sampleBlockID, BlockID, DigestBytes
  <2>4. /\ block = 1 + varintLen(sampleBlockID) + sampleBlockID
        /\ nil = 1 + varintLen(emptyBlockID) + emptyBlockID
    BY DEF MessageField
  <2> HIDE DEF block, nil
  <2> QED BY <1>1, <2>1, <2>2, <2>3, <2>4
<1>4. /\ sizes.prevoteNil = voteBytes(PrevoteType, FALSE, sig)
      /\ sizes.prevoteBlock = voteBytes(PrevoteType, TRUE, sig)
      /\ sizes.precommitNil = voteBytes(PrecommitType, FALSE, sig)
      /\ sizes.precommitBlock = voteBytes(PrecommitType, TRUE, sig)
  BY DEF MeasureSizes
<1> HIDE DEF sizes, sig, block, nil, head, rest
<1>5. ASSUME NEW t \in Nat
      PROVE  /\ voteBytes(t, TRUE, sig) = type(t) + head + block + rest
             /\ voteBytes(t, FALSE, sig) = type(t) + head + nil + rest
  <2> DEFINE a == MessageField(fixedTimestamp)
             b == BytesField(AddressWidth)
             c == BytesField(sig)
             u == VarintField(t)
             full == voteBytes(t, TRUE, sig)
             bare == voteBytes(t, FALSE, sig)
  <2>1. a \in Nat /\ b \in Nat /\ c \in Nat /\ u \in Nat
    BY <1>1, <1>5, FieldTypes
  <2>2. full = u + head + block + a + b + c /\ bare = u + head + nil + a + b + c
    BY DEF voteBytes, Vote, head, block, nil
  <2>3. rest = a + b + c
    BY DEF rest
  <2> HIDE DEF a, b, c, u, full, bare
  <2>4. full = u + head + block + rest /\ bare = u + head + nil + rest
    BY <1>2, <2>1, <2>2, <2>3
  <2> QED BY <2>4 DEF u, full, bare
<1>6. /\ sizes.prevoteBlock = type(PrevoteType) + head + block + rest
      /\ sizes.prevoteNil = type(PrevoteType) + head + nil + rest
      /\ sizes.precommitBlock = type(PrecommitType) + head + block + rest
      /\ sizes.precommitNil = type(PrecommitType) + head + nil + rest
  BY <1>1, <1>4, <1>5
<1> HIDE DEF type
<1>7. /\ sizes.prevoteNil \in Nat /\ sizes.prevoteBlock \in Nat
      /\ sizes.precommitNil \in Nat /\ sizes.precommitBlock \in Nat
      /\ sizes.precommitBlock - sizes.precommitNil = sizes.prevoteBlock - sizes.prevoteNil
      /\ sizes.prevoteBlock > sizes.prevoteNil + 4
      /\ sizes.precommitBlock > sizes.precommitNil + 4
  BY <1>2, <1>3, <1>6
<1> QED BY <1>7 DEF sizes

-----------------------------------------------------------------------------
(* The sections in their order.                                            *)
LEMMA SectionNames ==
  /\ Sections[1] = "cpu" /\ Sections[2] = "round" /\ Sections[3] = "ibc"
  /\ Sections[4] = "gossip" /\ Sections[5] = "mitigations"
  /\ Range(Sections) = {"cpu", "round", "ibc", "gossip", "mitigations"}
  /\ \A i \in 1 .. 4 : Sections[i] \in {"cpu", "round", "ibc", "gossip"}
<1>1. /\ Sections[1] = "cpu" /\ Sections[2] = "round" /\ Sections[3] = "ibc"
      /\ Sections[4] = "gossip" /\ Sections[5] = "mitigations" /\ DOMAIN Sections = 1 .. 5
  BY DEF Sections
<1>2. Range(Sections) = {Sections[i] : i \in 1 .. 5}
  BY <1>1 DEF Range
<1>3. Range(Sections) = {"cpu", "round", "ibc", "gossip", "mitigations"}
  BY <1>1, <1>2
<1> QED BY <1>1, <1>3

(* The lines standard output may show.                                     *)
LEMMA LineTypes ==
  /\ \A section \in Range(Sections) : Heading(section) \in Lines
  /\ \A section \in {"cpu", "round", "ibc", "gossip"} :
       \A data \in Seq(RowsWaiting(section)) : Table(section, data) \in Lines
  /\ [kind |-> "closing"] \in Lines
<1>1. \A section \in Range(Sections) : Heading(section) \in Lines
  BY DEF Heading, Lines
<1>2. [kind |-> "closing"] \in Lines
  BY DEF Lines
<1>3. ASSUME NEW section \in {"cpu", "round", "ibc", "gossip"},
             NEW data \in Seq(RowsWaiting(section))
      PROVE  Table(section, data) \in Lines
  <2>1. Table(section, data) \in TablesOf(section)
    BY DEF Table, TablesOf
  <2>2. /\ TablesOf("cpu") \subseteq Lines /\ TablesOf("round") \subseteq Lines
        /\ TablesOf("ibc") \subseteq Lines /\ TablesOf("gossip") \subseteq Lines
    BY DEF Lines
  <2> QED BY <2>1, <2>2
<1> QED BY <1>1, <1>2, <1>3

(* What the two figures of the mitigation table cost.                      *)
LEMMA MitigationCosts ==
  ASSUME NEW x \in SchemeNames, NEW counts
  PROVE  LET sizes == MeasureSizes(lookupScheme(x), counts)
         IN  /\ RoundTripBytes(sizes) \in Nat
             /\ compact(sizes) = sizes.prevoteNil + sizes.precommitNil + 2 * 4
             /\ compact(sizes) \in Nat
             /\ sizes.prevoteNil + sizes.precommitNil + 2 * 4 < RoundTripBytes(sizes)
<1> DEFINE sizes == MeasureSizes(lookupScheme(x), counts)
           a == sizes.prevoteNil
           b == sizes.prevoteBlock
           c == sizes.precommitNil
           d == sizes.precommitBlock
<1>1. a \in Nat /\ b \in Nat /\ c \in Nat /\ d \in Nat /\ d - c = b - a /\ b > a + 4 /\ d > c + 4
  BY BlockIDCosts
<1>2. RoundTripBytes(sizes) = b + d
  BY DEF RoundTripBytes
<1>3. compact(sizes) = b + d - 2 * (b - a) + 2 * 4
  <2> HIDE DEF sizes
  <2>1. compact(sizes) = RoundTripBytes(sizes) - 2 * (b - a) + 2 * 4
    BY DEF compact
  <2> HIDE DEF a, b, c, d
  <2> QED BY <1>1, <1>2, <2>1
<1> HIDE DEF a, b, c, d
<1>4. b + d - 2 * (b - a) + 2 * 4 = a + c + 2 * 4 /\ a + c + 2 * 4 \in Nat /\ b + d \in Nat
      /\ a + c + 2 * 4 < b + d
  BY <1>1
<1> QED BY <1>2, <1>3, <1>4 DEF a, c

(* A name's table of mitigations.                                          *)
LEMMA MitigationsType ==
  ASSUME NEW sizes, RoundTripBytes(sizes) \in Nat, compact(sizes) \in Nat
  PROVE  /\ Mitigations(sizes)
              \in Seq([change : Changes, cost : Nat, applicable : BOOLEAN])
         /\ Table("mitigations", Mitigations(sizes)) \in Lines
<1> DEFINE R == [change : Changes, cost : Nat, applicable : BOOLEAN]
<1>1. /\ Change("none", RoundTripBytes(sizes), TRUE) \in R
      /\ Change("compact votes", compact(sizes), TRUE) \in R
      /\ Change("aggregation", RoundTripBytes(sizes), FALSE) \in R
      /\ Change("committee", RoundTripBytes(sizes), TRUE) \in R
  BY DEF Change, Changes
<1> HIDE DEF R
<1>2. Mitigations(sizes) \in Seq(R)
  <2> DEFINE a == Change("none", RoundTripBytes(sizes), TRUE)
             b == Change("compact votes", compact(sizes), TRUE)
             c == Change("aggregation", RoundTripBytes(sizes), FALSE)
             d == Change("committee", RoundTripBytes(sizes), TRUE)
  <2>1. Mitigations(sizes) = <<a, b, c, d>>
    BY DEF Mitigations
  <2> HIDE DEF a, b, c, d
  <2>2. a \in R /\ b \in R /\ c \in R /\ d \in R
    BY <1>1 DEF a, b, c, d
  <2> QED BY <2>1, <2>2
<1>3. Table("mitigations", Mitigations(sizes)) \in Lines
  <2> DEFINE m == Mitigations(sizes)
  <2> HIDE DEF m
  <2>1. m \in Seq(R)
    BY <1>2 DEF m
  <2>2. Table("mitigations", m) \in [kind : {"mitigations"}, rows : Seq(R)]
    BY <2>1 DEF Table
  <2>3. [kind : {"mitigations"}, rows : Seq(R)] \subseteq Lines
    BY DEF Lines, R
  <2> QED BY <2>2, <2>3 DEF m
<1> QED BY <1>2, <1>3 DEF R

(* While the command line and the times of rounds stay, so does what they  *)
(* say of a table.                                                         *)
LEMMA SameTables ==
  ASSUME flags' = flags, verifyFor' = verifyFor
  PROVE  /\ N' = N
         /\ \A m : Looked(m)' = Looked(m)
         /\ \A section, x : Size(section, x)' = Size(section, x)
         /\ \A section, table, m : RowsFor(section, table, m)' <=> RowsFor(section, table, m)
         /\ \A table : TailsKept(table)' <=> TailsKept(table)
         /\ \A t : MitigationsOf(t)' = MitigationsOf(t)
         /\ \A label : RowsWaiting(label)' = RowsWaiting(label)
         /\ Lines' = Lines
<1>1. N' = N
  BY DEF N
<1>2. \A m : Looked(m)' = Looked(m)
  BY DEF Looked
<1>3. \A section, x : Size(section, x)' = Size(section, x)
  BY DEF Size
<1>4. \A x, m : TimesUpTo(x, m)' = TimesUpTo(x, m)
  BY DEF TimesUpTo
<1>5. \A x, n, p : GossipOf(x, n, p)' = GossipOf(x, n, p)
  BY DEF GossipOf, Modelled
<1>6. ASSUME NEW section, NEW row PROVE RowRight(section, row)' <=> RowRight(section, row)
  BY <1>5 DEF RowRight
<1>7. ASSUME NEW section, NEW table, NEW m
      PROVE  RowsFor(section, table, m)' <=> RowsFor(section, table, m)
  BY <1>3, <1>4, <1>6 DEF RowsFor
<1>8. \A table : TailsKept(table)' <=> TailsKept(table)
  BY DEF TailsKept
<1>9. \A t : MitigationsOf(t)' = MitigationsOf(t)
  BY DEF MitigationsOf
<1>10. /\ RoundRows' = RoundRows /\ UpdateRows' = UpdateRows /\ GossipRows' = GossipRows
       /\ CpuRows' = CpuRows
  BY DEF RoundRows, UpdateRows, GossipRows, CpuRows
<1>11. \A label : RowsWaiting(label)' = RowsWaiting(label)
  BY <1>10 DEF RowsWaiting
<1>12. Lines' = Lines
  BY <1>11 DEF Lines, TablesOf
<1> QED BY <1>1, <1>2, <1>3, <1>7, <1>8, <1>9, <1>11, <1>12

(* A line stays right.                                                     *)
LEMMA SameLine ==
  ASSUME flags' = flags, verifyFor' = verifyFor, NEW k, LineRight(k), stdout'[k] = stdout[k]
  PROVE  LineRight(k)'
<1>1. N' = N
  BY SameTables
<1>2. \A i \in 1 .. 5 : k = 2 * i - 1 => stdout'[k] = Heading(Sections[i])
  BY DEF LineRight
<1>3. ASSUME NEW i \in 1 .. 4, k = 2 * i
      PROVE  (stdout[k].kind = Sections[i] /\ RowsFor(Sections[i], stdout[k].rows, N))'
  <2>1. stdout[k].kind = Sections[i] /\ RowsFor(Sections[i], stdout[k].rows, N)
    BY <1>3 DEF LineRight
  <2>2. RowsFor(Sections[i], stdout'[k].rows, N)
    BY <2>1
  <2>3. \A table, m : RowsFor(Sections[i], table, m)' <=> RowsFor(Sections[i], table, m)
    BY SameTables
  <2> QED BY <1>1, <2>1, <2>2, <2>3
<1>4. k = 2 => TailsKept(stdout'[k].rows)
  BY DEF LineRight
<1>5. (k = 2 => TailsKept(stdout[k].rows))'
  BY <1>4, SameTables
<1>6. \A t \in 1 .. N : k = 9 + t => stdout'[k] = MitigationsOf(t)'
  BY SameTables DEF LineRight
<1>7. k = 10 + N => stdout'[k] = [kind |-> "closing"]
  BY DEF LineRight
<1> QED BY <1>1, <1>2, <1>3, <1>5, <1>6, <1>7 DEF LineRight

-----------------------------------------------------------------------------
(* The first line of a run is the first section's heading.                 *)
LEMMA FirstLine ==
  ASSUME flags \in Flags, stdout[1] = Heading("cpu")
  PROVE  LineRight(1)
<1>1. N \in Nat /\ 1 # 10 + N /\ \A t \in 1 .. N : 1 # 9 + t
  BY FlagsShape
<1>2. \A i \in 1 .. 5 : 1 = 2 * i - 1 => i = 1
  OBVIOUS
<1>3. \A i \in 1 .. 4 : 1 # 2 * i
  OBVIOUS
<1> QED BY <1>1, <1>2, <1>3, SectionNames DEF LineRight

(* A run starts with no name met and nothing timed.                        *)
LEMMA MigrationInit == Init => IInv
<1> SUFFICES ASSUME Init PROVE IInv
  OBVIOUS
<1>1. /\ flags \in Flags /\ pc = "cpu" /\ turn = 1 /\ keys = 0
      /\ signs = <<>> /\ verifies = <<>> /\ verifyFor = <<>> /\ rows = <<>>
      /\ stdout = <<Heading("cpu")>>
  BY DEF Init
<1>2. N \in Nat /\ MostKeys \in Nat /\ DOMAIN <<>> = {}
  BY <1>1, FlagsShape, CpuTimeAssumption
<1>3. Len(stdout) = 1 /\ DOMAIN stdout = {1} /\ stdout[1] = Heading("cpu")
  BY <1>1
<1>4. TypeOK
  <2>1. stdout \in Seq(Lines)
    <3> DEFINE h == Heading("cpu")
    <3>1. h \in Lines
      BY LineTypes, SectionNames
    <3> HIDE DEF h
    <3> QED BY <1>1, <3>1 DEF h
  <2>2. pc \in Range(Sections)
    BY <1>1, SectionNames
  <2>3. turn \in 1 .. Len(flags.schemes) + 1
    BY <1>1, <1>2 DEF N
  <2>4. verifyFor \in [DOMAIN verifyFor -> Durations] /\ DOMAIN verifyFor \subseteq Implemented
    <3>1. verifyFor = [x \in {} |-> x]
      BY <1>1
    <3> QED BY <3>1
  <2>5. signs \in Seq(Durations) /\ verifies \in Seq(Durations)
        /\ rows \in Seq(RowsWaiting(pc)) /\ keys \in 0 .. MostKeys
    BY <1>1, <1>2
  <2> QED BY <1>1, <2>1, <2>2, <2>3, <2>4, <2>5 DEF TypeOK
<1>5. NamesLookedUp
  <2>1. Looked(turn - 1) = {} /\ DOMAIN verifyFor = {}
    BY <1>1, <1>2, TimesStep
  <2> QED BY <1>3, <2>1 DEF NamesLookedUp
<1>6. SamplesTaken
  BY <1>1 DEF SamplesTaken
<1>7. RowsWait
  <2>1. RowsFor("cpu", rows, turn - 1)
    BY <1>1, NoRows
  <2>2. TailsKept(rows)
    BY <1>1, <1>2 DEF TailsKept
  <2> QED BY <1>1, <2>1, <2>2 DEF RowsWait
<1>8. LinesPrinted
  <2>1. \A k \in DOMAIN stdout : LineRight(k)
    BY <1>1, <1>3, FirstLine
  <2> QED BY <1>1, <1>2, <1>3, <2>1 DEF LinesPrinted
<1> QED BY <1>4, <1>5, <1>6, <1>7, <1>8 DEF IInv

(* What the steps below need of a state.                                   *)
LEMMA StateFacts ==
  ASSUME IInv
  PROVE  /\ flags \in Flags /\ N \in Nat \ {0} /\ turn \in Nat \ {0} /\ turn <= N + 1
         /\ Durations \subseteq Nat
         /\ signs \in Seq(Durations) /\ verifies \in Seq(Durations)
         /\ Len(signs) = Len(verifies) /\ Len(signs) \in Nat
         /\ rows \in Seq(RowsWaiting(pc)) /\ stdout \in Seq(Lines)
         /\ Len(rows) \in Nat /\ Len(stdout) \in Nat
         /\ DOMAIN stdout = 1 .. Len(stdout) /\ Len(stdout) <= 10 + N
         /\ MoreNames <=> turn <= N
         /\ MoreNames => name \in Range(flags.schemes)
         /\ ~MoreNames => turn = N + 1
<1>1. flags \in Flags /\ turn \in 1 .. N + 1 /\ signs \in Seq(Durations)
      /\ verifies \in Seq(Durations) /\ rows \in Seq(RowsWaiting(pc)) /\ stdout \in Seq(Lines)
  BY DEF IInv, TypeOK, N
<1>2. N \in Nat \ {0} /\ DOMAIN flags.schemes = 1 .. N
  BY <1>1, FlagsShape
<1>3. turn \in Nat \ {0} /\ turn <= N + 1 /\ (MoreNames <=> turn <= N)
      /\ (~MoreNames => turn = N + 1)
  <2>1. MoreNames <=> turn <= N
    BY DEF MoreNames, N
  <2> QED BY <1>1, <1>2, <2>1
<1>4. MoreNames => name \in Range(flags.schemes)
  BY <1>2, <1>3 DEF name, Range
<1>5. Len(signs) \in Nat /\ Len(rows) \in Nat /\ Len(stdout) \in Nat
      /\ DOMAIN stdout = 1 .. Len(stdout)
  BY <1>1, LenProperties
<1>6. Len(signs) = Len(verifies) /\ Len(stdout) <= 10 + N
  BY DEF IInv, SamplesTaken, LinesPrinted
<1> QED BY <1>1, <1>2, <1>3, <1>4, <1>5, <1>6, MigrationAssumption

(* Where rows wait and the labels of the sections.                         *)
LEMMA Labels ==
  /\ RowsWaiting("cpu") = CpuRows /\ RowsWaiting("sample") = CpuRows
  /\ RowsWaiting("round") = RoundRows /\ RowsWaiting("ibc") = UpdateRows
  /\ RowsWaiting("gossip") = GossipRows
  /\ \A label \in {"mitigations", "exit 0", "exit 1", "panic"} :
       RowsWaiting(label) = CpuRows \cup RoundRows \cup UpdateRows \cup GossipRows
  /\ \A label \in {"cpu", "sample", "round", "ibc", "gossip", "mitigations",
                   "exit 0", "exit 1", "panic"} :
       /\ label \in Range(Sections) \cup {"sample", "exit 0", "exit 1", "panic"}
       /\ RowsWaiting(label) \subseteq RowsWaiting("exit 1")
<1>1. /\ RowsWaiting("cpu") = CpuRows /\ RowsWaiting("sample") = CpuRows
      /\ RowsWaiting("round") = RoundRows /\ RowsWaiting("ibc") = UpdateRows
      /\ RowsWaiting("gossip") = GossipRows
  BY DEF RowsWaiting
<1>2. ASSUME NEW label \in {"mitigations", "exit 0", "exit 1", "panic"}
      PROVE  RowsWaiting(label) = CpuRows \cup RoundRows \cup UpdateRows \cup GossipRows
  BY <1>2 DEF RowsWaiting
<1> QED BY <1>1, <1>2, SectionNames

(* Nothing is printed.                                                     *)
LEMMA FrozenLines ==
  ASSUME IInv, flags' = flags, verifyFor' = verifyFor, stdout' = stdout
  PROVE  /\ N' = N /\ (\A k \in DOMAIN stdout : LineRight(k))'
         /\ (Len(stdout) <= 10 + N)' /\ (stdout \in Seq(Lines))'
         /\ (Len(stdout) > 1 =>
              /\ Range(flags.schemes) \subseteq SchemeNames
              /\ DOMAIN verifyFor = Range(flags.schemes) \cap Implemented)'
<1>1. N' = N
  BY SameTables
<1>2. \A k \in DOMAIN stdout : LineRight(k) /\ stdout'[k] = stdout[k]
  BY DEF IInv, LinesPrinted
<1>3. ASSUME NEW k \in DOMAIN stdout PROVE LineRight(k)'
  BY <1>2, <1>3, SameLine
<1>4. (\A k \in DOMAIN stdout : LineRight(k))'
  BY <1>3
<1>5. Len(stdout) <= 10 + N /\ stdout \in Seq(Lines)
  BY StateFacts
<1>6. Len(stdout) > 1 =>
        /\ Range(flags.schemes) \subseteq SchemeNames
        /\ DOMAIN verifyFor = Range(flags.schemes) \cap Implemented
  BY DEF IInv, NamesLookedUp
<1>7. (Len(stdout) <= 10 + N)' /\ (stdout \in Seq(Lines))'
  <2>1. Lines' = Lines
    BY SameTables
  <2> QED BY <1>1, <1>5, <2>1
<1> QED BY <1>1, <1>4, <1>6, <1>7

(* An error ends the run wherever it is met.                               *)
LEMMA FailStep ==
  ASSUME IInv, Fail, UNCHANGED <<flags, turn, verifyFor, rows, stdout>>,
         keys' \in 0 .. MostKeys, signs' \in Seq(Durations), verifies' \in Seq(Durations),
         Len(signs') = Len(verifies')
  PROVE  IInv'
<1>1. /\ pc' = "exit 1" /\ flags' = flags /\ turn' = turn /\ verifyFor' = verifyFor
      /\ rows' = rows /\ stdout' = stdout
  BY DEF Fail, Goto
<1>2. /\ N' = N /\ (\A k \in DOMAIN stdout : LineRight(k))'
      /\ (Len(stdout) <= 10 + N)' /\ (stdout \in Seq(Lines))'
      /\ (Len(stdout) > 1 =>
           /\ Range(flags.schemes) \subseteq SchemeNames
           /\ DOMAIN verifyFor = Range(flags.schemes) \cap Implemented)'
  BY <1>1, FrozenLines
<1>3. (rows \in Seq(RowsWaiting(pc)))'
  <2>1. pc \in {"cpu", "sample", "round", "ibc", "gossip", "mitigations",
                "exit 0", "exit 1", "panic"}
    BY SectionNames DEF IInv, TypeOK
  <2>2. rows \in Seq(RowsWaiting(pc)) /\ RowsWaiting(pc) \subseteq RowsWaiting("exit 1")
    BY <2>1, StateFacts, Labels
  <2>3. rows \in Seq(RowsWaiting("exit 1"))
    BY <2>2, WiderSequence
  <2> QED BY <1>1, <2>3, SameTables
<1>4. TypeOK'
  <2>1. pc' \in Range(Sections) \cup {"sample", "exit 0", "exit 1", "panic"}
    BY <1>1
  <2>2. flags' \in Flags /\ turn' \in 1 .. Len(flags'.schemes) + 1
        /\ verifyFor' \in [DOMAIN verifyFor' -> Durations]
        /\ DOMAIN verifyFor' \subseteq Implemented
    BY <1>1 DEF IInv, TypeOK
  <2> QED BY <1>2, <1>3, <2>1, <2>2 DEF TypeOK
<1>5. NamesLookedUp'
  BY <1>1, <1>2 DEF NamesLookedUp
<1>6. SamplesTaken'
  BY <1>1 DEF SamplesTaken
<1>7. RowsWait'
  BY <1>1 DEF RowsWait
<1>8. LinesPrinted'
  BY <1>1, <1>2 DEF LinesPrinted
<1> QED BY <1>4, <1>5, <1>6, <1>7, <1>8 DEF IInv

(* One more name of a section's loop.                                      *)
LEMMA AddRowsStep ==
  ASSUME IInv, NEW section \in {"round", "ibc", "gossip"},
         NEW new \in Seq(RowsWaiting(section)), AddRows(section, new),
         Len(new) = Size(section, name),
         \A k \in DOMAIN new : new[k].scheme = name /\ RowRight(section, new[k])
  PROVE  IInv'
<1>1. /\ pc = section /\ MoreNames /\ rows' = rows \o new /\ turn' = turn + 1
      /\ UNCHANGED <<flags, pc, keys, signs, verifies, verifyFor, stdout>>
  BY DEF AddRows
<1>2. /\ flags' = flags /\ pc' = pc /\ keys' = keys /\ signs' = signs
      /\ verifies' = verifies /\ verifyFor' = verifyFor /\ stdout' = stdout
  BY <1>1
<1>3. /\ N' = N /\ (\A k \in DOMAIN stdout : LineRight(k))'
      /\ (Len(stdout) <= 10 + N)' /\ (stdout \in Seq(Lines))'
      /\ (Len(stdout) > 1 =>
           /\ Range(flags.schemes) \subseteq SchemeNames
           /\ DOMAIN verifyFor = Range(flags.schemes) \cap Implemented)'
  BY <1>2, FrozenLines
<1>4. flags \in Flags /\ N \in Nat /\ turn \in Nat \ {0} /\ turn <= N
      /\ rows \in Seq(RowsWaiting(section))
  BY <1>1, StateFacts
<1>5. RowsFor(section, rows \o new, turn)
  <2>1. RowsFor(section, rows, turn - 1)
    BY <1>1 DEF IInv, RowsWait
  <2> DEFINE m == turn - 1
  <2>2. m \in Nat /\ m + 1 = turn
    BY <1>4
  <2>3. name = flags.schemes[m + 1]
    BY <2>2 DEF name
  <2> HIDE DEF m
  <2>4. RowsFor(section, rows, m)
    BY <2>1 DEF m
  <2>5. RowsFor(section, rows \o new, m + 1)
    BY <1>4, <2>2, <2>3, <2>4, RowsAdded
  <2> QED BY <2>2, <2>5
<1>6. RowsFor(section, rows, turn - 1)'
  BY <1>1, <1>2, <1>4, <1>5, SameTables
<1>7. TypeOK'
  <2>1. (rows \in Seq(RowsWaiting(pc)))'
    <3>1. rows \o new \in Seq(RowsWaiting(section))
      BY <1>4, ConcatProperties
    <3> QED BY <1>1, <1>2, <3>1, SameTables
  <2>2. turn' \in 1 .. Len(flags'.schemes) + 1
    BY <1>1, <1>2, <1>4 DEF N
  <2> QED BY <1>2, <1>3, <2>1, <2>2 DEF IInv, TypeOK
<1>8. NamesLookedUp'
  BY <1>1, <1>2, <1>3 DEF NamesLookedUp
<1>9. SamplesTaken'
  BY <1>1, <1>2 DEF IInv, SamplesTaken
<1>10. RowsWait'
  BY <1>1, <1>2, <1>6 DEF RowsWait
<1>11. LinesPrinted'
  BY <1>1, <1>2, <1>3 DEF IInv, LinesPrinted
<1> QED BY <1>7, <1>8, <1>9, <1>10, <1>11 DEF IInv

(* Two more lines.                                                         *)
LEMMA TwoLines ==
  ASSUME NEW S, NEW s \in Seq(S), NEW a \in S, NEW b \in S
  PROVE  /\ s \o <<a, b>> \in Seq(S) /\ Len(s \o <<a, b>>) = Len(s) + 2
         /\ \A k \in 1 .. Len(s) : (s \o <<a, b>>)[k] = s[k]
         /\ (s \o <<a, b>>)[Len(s) + 1] = a /\ (s \o <<a, b>>)[Len(s) + 2] = b
<1> DEFINE t == <<a, b>>
           r == s \o t
           n == Len(s)
<1>1. t \in Seq(S) /\ Len(t) = 2 /\ t[1] = a /\ t[2] = b
  OBVIOUS
<1> HIDE DEF t
<1>2. r \in Seq(S) /\ Len(r) = n + 2
      /\ \A i \in 1 .. n + 2 : r[i] = IF i <= n THEN s[i] ELSE t[i - n]
  <2>1. s \o t \in Seq(S) /\ Len(s \o t) = Len(s) + Len(t)
        /\ \A i \in 1 .. Len(s) + Len(t) :
             (s \o t)[i] = IF i <= Len(s) THEN s[i] ELSE t[i - Len(s)]
    BY <1>1, ConcatProperties
  <2> HIDE DEF r, n
  <2>2. r = s \o t /\ n = Len(s) /\ Len(t) = 2
    BY <1>1 DEF r, n
  <2> QED BY <2>1, <2>2
<1>3. n \in Nat
  BY LenProperties
<1> HIDE DEF r, n
<1>4. \A k \in 1 .. n : r[k] = s[k]
  BY <1>2, <1>3
<1>5. r[n + 1] = a /\ r[n + 2] = b
  <2>1. ASSUME NEW j \in 1 .. 2 PROVE r[n + j] = t[j]
    <3> DEFINE i == n + j
    <3>1. i \in 1 .. n + 2 /\ ~(i <= n) /\ i - n = j
      BY <1>3
    <3> HIDE DEF i
    <3>2. r[i] = t[j]
      BY <1>2, <3>1
    <3> QED BY <3>2 DEF i
  <2> QED BY <1>1, <2>1
<1> QED BY <1>2, <1>4, <1>5 DEF r, n, t

(* The table that is flushed has the rows of all names.                    *)
LEMMA WaitingTable ==
  ASSUME IInv, NEW i \in 1 .. 4, pc = Sections[i], ~MoreNames
  PROVE  /\ Len(stdout) = 2 * i - 1
         /\ RowsFor(Sections[i], rows, N)
         /\ i = 1 => TailsKept(rows)
         /\ Range(flags.schemes) \subseteq SchemeNames
         /\ DOMAIN verifyFor = Range(flags.schemes) \cap Implemented
<1>1. pc \in {"cpu", "round", "ibc", "gossip"} /\ (i = 1 <=> pc = "cpu")
  BY SectionNames
<1>2. Len(stdout) = 2 * i - 1
  <2>1. \/ i = 1 /\ pc = "cpu"
        \/ i = 2 /\ pc = "round"
        \/ i = 3 /\ pc = "ibc"
        \/ i = 4 /\ pc = "gossip"
    BY SectionNames
  <2>2. /\ pc = "cpu" => Len(stdout) = 1
        /\ pc = "round" => Len(stdout) = 3
        /\ pc = "ibc" => Len(stdout) = 5
        /\ pc = "gossip" => Len(stdout) = 7
    BY DEF IInv, LinesPrinted
  <2> DEFINE len == Len(stdout)
  <2>3. \/ i = 1 /\ len = 1
        \/ i = 2 /\ len = 3
        \/ i = 3 /\ len = 5
        \/ i = 4 /\ len = 7
    BY <2>1, <2>2
  <2> HIDE DEF len
  <2>4. len = 2 * i - 1
    BY <2>3
  <2> QED BY <2>4 DEF len
<1>3. turn - 1 = N /\ N \in Nat /\ flags \in Flags
  BY StateFacts
<1>4. RowsFor(pc, rows, turn - 1) /\ (pc = "cpu" => TailsKept(rows))
  BY <1>1 DEF IInv, RowsWait
<1>5. /\ Range(flags.schemes) \subseteq SchemeNames
      /\ DOMAIN verifyFor = Range(flags.schemes) \cap Implemented
  <2>1. CASE i = 1
    <3>1. /\ Looked(N) \subseteq SchemeNames
          /\ DOMAIN verifyFor = Looked(N) \cap Implemented
      BY <1>1, <1>3, <2>1 DEF IInv, NamesLookedUp
    <3> QED BY <1>3, <3>1, FlagsShape
  <2>2. CASE i # 1
    <3>1. Len(stdout) > 1
      BY <1>2, <2>2
    <3> QED BY <3>1 DEF IInv, NamesLookedUp
  <2> QED BY <2>1, <2>2
<1> QED BY <1>1, <1>2, <1>3, <1>4, <1>5

(* The end of a section's loop (reportMigration, main.go).                 *)
LEMMA FlushStep ==
  ASSUME IInv, NEW i \in 1 .. 4, Flush(Sections[i], Sections[i + 1]),
         UNCHANGED <<flags, keys, verifyFor>>,
         signs' \in Seq(Durations), verifies' \in Seq(Durations), Len(signs') = Len(verifies')
  PROVE  IInv'
<1> DEFINE section == Sections[i]
           next == Sections[i + 1]
           table == Table(section, rows)
           n == 2 * i - 1
<1>1. /\ pc = section /\ ~MoreNames /\ stdout' = stdout \o <<table, Heading(next)>>
      /\ rows' = <<>> /\ turn' = 1 /\ pc' = next
      /\ flags' = flags /\ keys' = keys /\ verifyFor' = verifyFor
  BY DEF Flush, Goto
<1>2. /\ Len(stdout) = n /\ RowsFor(section, rows, N) /\ (i = 1 => TailsKept(rows))
      /\ Range(flags.schemes) \subseteq SchemeNames
      /\ DOMAIN verifyFor = Range(flags.schemes) \cap Implemented
  BY <1>1, WaitingTable
<1>3. /\ section \in {"cpu", "round", "ibc", "gossip"}
      /\ next \in {"round", "ibc", "gossip", "mitigations"} /\ next \in Range(Sections)
      /\ i + 1 \in 2 .. 5 /\ n \in Nat
  <2>1. i + 1 = 2 \/ i + 1 = 3 \/ i + 1 = 4 \/ i + 1 = 5
    OBVIOUS
  <2> QED BY <2>1, SectionNames
<1>4. /\ stdout \in Seq(Lines) /\ DOMAIN stdout = 1 .. n /\ flags \in Flags
      /\ N \in Nat \ {0} /\ rows \in Seq(RowsWaiting(section))
  BY <1>1, <1>2, StateFacts
<1>5. table \in Lines /\ Heading(next) \in Lines
      /\ table.kind = section /\ table.rows = rows
  <2>1. table \in Lines /\ Heading(next) \in Lines
    <3> HIDE DEF section, next
    <3> QED BY <1>3, <1>4, LineTypes
  <2> QED BY <2>1 DEF Table
<1> HIDE DEF table
<1>6. /\ stdout' \in Seq(Lines) /\ Len(stdout') = n + 2 /\ DOMAIN stdout' = 1 .. n + 2
      /\ \A k \in 1 .. n : stdout'[k] = stdout[k]
      /\ stdout'[2 * i] = table /\ stdout'[2 * i + 1] = Heading(next)
  <2> DEFINE h == Heading(next)
             r == stdout \o <<table, h>>
  <2> HIDE DEF h
  <2>1. /\ r \in Seq(Lines) /\ Len(r) = Len(stdout) + 2
        /\ \A k \in 1 .. Len(stdout) : r[k] = stdout[k]
        /\ r[Len(stdout) + 1] = table /\ r[Len(stdout) + 2] = h
    <3>1. h \in Lines
      BY <1>5 DEF h
    <3> QED BY <1>4, <1>5, <3>1, TwoLines
  <2> HIDE DEF r
  <2>2. DOMAIN r = 1 .. Len(r)
    BY <2>1, LenProperties
  <2>3. n + 1 = 2 * i /\ n + 2 = 2 * i + 1
    OBVIOUS
  <2>4. stdout' = r
    BY <1>1 DEF r, h
  <2> QED BY <1>2, <2>1, <2>2, <2>3, <2>4 DEF h
<1>7. /\ N' = N /\ Lines' = Lines
      /\ \A s, t, m : RowsFor(s, t, m)' <=> RowsFor(s, t, m)
      /\ \A t : TailsKept(t)' <=> TailsKept(t)
      /\ \A label : RowsWaiting(label)' = RowsWaiting(label)
  BY <1>1, SameTables
<1>8. ASSUME NEW k \in 1 .. n PROVE LineRight(k)'
  <2>1. LineRight(k)
    BY <1>4 DEF IInv, LinesPrinted
  <2> QED BY <1>1, <1>6, <2>1, SameLine
<1>9. LineRight(2 * i)'
  <2> DEFINE k == 2 * i
  <2>1. /\ \A j \in 1 .. 5 : k # 2 * j - 1
        /\ \A j \in 1 .. 4 : k = 2 * j => j = i
        /\ k = 2 => i = 1
        /\ \A t \in 1 .. N : k # 9 + t
        /\ k # 10 + N
    BY <1>4
  <2>2. stdout'[k] = table
    BY <1>6
  <2> HIDE DEF k
  <2>3. stdout'[k].kind = section /\ stdout'[k].rows = rows
    BY <1>5, <2>2
  <2>4. RowsFor(section, stdout[k].rows, N)'
    <3>1. RowsFor(section, stdout'[k].rows, N)
      BY <1>2, <2>3
    <3> HIDE DEF section
    <3> QED BY <1>7, <3>1
  <2>5. (k = 2 => TailsKept(stdout[k].rows))'
    <3>1. k = 2 => TailsKept(stdout'[k].rows)
      BY <1>2, <2>1, <2>3
    <3> QED BY <1>7, <3>1
  <2>6. LineRight(k)'
    BY <1>7, <2>1, <2>3, <2>4, <2>5 DEF LineRight
  <2> QED BY <2>6 DEF k
<1>10. LineRight(2 * i + 1)'
  <2> DEFINE k == 2 * i + 1
  <2>1. /\ \A j \in 1 .. 5 : k = 2 * j - 1 => j = i + 1
        /\ \A j \in 1 .. 4 : k # 2 * j
        /\ k # 2
        /\ \A t \in 1 .. N : k # 9 + t
        /\ k # 10 + N
    BY <1>4
  <2>2. stdout'[k] = Heading(next)
    BY <1>6
  <2> HIDE DEF k
  <2>3. LineRight(k)'
    BY <1>7, <2>1, <2>2 DEF LineRight
  <2> QED BY <2>3 DEF k
<1>11. (\A k \in DOMAIN stdout : LineRight(k))'
  <2>1. ASSUME NEW k \in 1 .. n + 2 PROVE LineRight(k)'
    <3>1. k \in 1 .. n \/ k = 2 * i \/ k = 2 * i + 1
      OBVIOUS
    <3> HIDE DEF n
    <3> QED BY <1>8, <1>9, <1>10, <3>1
  <2> QED BY <1>6, <2>1
<1>12. TypeOK'
  <2>1. (rows \in Seq(RowsWaiting(pc)))'
    BY <1>1
  <2>2. turn' \in 1 .. Len(flags'.schemes) + 1
    BY <1>1, <1>4 DEF N
  <2>3. (stdout \in Seq(Lines))'
    BY <1>6, <1>7
  <2>4. pc' \in Range(Sections)
    BY <1>1, <1>3
  <2> QED BY <1>1, <2>1, <2>2, <2>3, <2>4 DEF IInv, TypeOK
<1>13. NamesLookedUp'
  BY <1>1, <1>2, <1>3 DEF NamesLookedUp
<1>14. SamplesTaken'
  BY <1>1, <1>3 DEF SamplesTaken
<1>15. RowsWait'
  <2>1. ASSUME next \in {"round", "ibc", "gossip"} PROVE RowsFor(pc, rows, turn - 1)'
    <3>1. RowsFor(next, <<>>, 0)
      BY <1>4, <2>1, NoRows
    <3> HIDE DEF next
    <3>2. RowsFor(pc', rows', turn' - 1)
      BY <1>1, <3>1
    <3> QED BY <1>7, <3>2
  <2> QED BY <1>1, <1>3, <2>1 DEF RowsWait
<1>16. LinesPrinted'
  <2>1. /\ pc' \in {"cpu", "sample", "panic"} => Len(stdout') = 1
        /\ pc' = "round" => Len(stdout') = 3
        /\ pc' = "ibc" => Len(stdout') = 5
        /\ pc' = "gossip" => Len(stdout') = 7
        /\ pc' = "mitigations" => Len(stdout') = 8 + turn'
        /\ pc' = "exit 0" => Len(stdout') = 10 + N'
    <3>1. \/ i = 1 /\ next = "round"
          \/ i = 2 /\ next = "ibc"
          \/ i = 3 /\ next = "gossip"
          \/ i = 4 /\ next = "mitigations"
      BY SectionNames
    <3>2. Len(stdout') = 2 * i + 1
      BY <1>6
    <3> DEFINE len == Len(stdout')
    <3>3. len = 2 * i + 1 /\ pc' = next /\ turn' = 1
      BY <1>1, <3>2
    <3> HIDE DEF next, n, len
    <3>4. \/ pc' = "round" /\ len = 3
          \/ pc' = "ibc" /\ len = 5
          \/ pc' = "gossip" /\ len = 7
          \/ pc' = "mitigations" /\ len = 8 + turn'
      BY <3>1, <3>3
    <3> QED BY <3>4 DEF len
  <2>2. (Len(stdout) <= 10 + N)'
    BY <1>4, <1>6, <1>7
  <2> QED BY <1>11, <2>1, <2>2 DEF LinesPrinted
<1> QED BY <1>12, <1>13, <1>14, <1>15, <1>16 DEF IInv

(* A row of the first table is added for a name.                           *)
LEMMA CpuRowAdded ==
  ASSUME IInv, pc \in {"cpu", "sample"}, MoreNames, NEW row \in CpuRows, row.scheme = name
  PROVE  /\ rows \in Seq(CpuRows) /\ Append(rows, row) \in Seq(CpuRows)
         /\ RowsFor("cpu", Append(rows, row), turn)
<1>1. /\ flags \in Flags /\ turn \in Nat \ {0} /\ rows \in Seq(CpuRows)
      /\ name \in Range(flags.schemes)
  BY StateFacts, Labels
<1> DEFINE m == turn - 1
           one == <<row>>
<1>2. m \in Nat /\ m + 1 = turn /\ name = flags.schemes[m + 1] /\ RowsFor("cpu", rows, m)
  <2>1. RowsFor("cpu", rows, m)
    BY DEF IInv, RowsWait
  <2>2. m \in Nat /\ m + 1 = turn
    BY <1>1
  <2> HIDE DEF m
  <2> QED BY <2>1, <2>2 DEF name
<1>3. /\ Append(rows, row) = rows \o one /\ one \in Seq(CpuRows) /\ Len(one) = 1
      /\ DOMAIN one = {1} /\ one[1] = row /\ Append(rows, row) \in Seq(CpuRows)
  BY <1>1, OneRow
<1> HIDE DEF m, one
<1>4. Len(one) = Size("cpu", name)
  BY <1>3 DEF Size
<1>5. \A k \in DOMAIN one : one[k].scheme = name /\ RowRight("cpu", one[k])
  BY <1>1, <1>3 DEF RowRight
<1>6. RowsFor("cpu", rows \o one, m + 1)
  BY <1>1, <1>2, <1>3, <1>4, <1>5, RowsAdded
<1> QED BY <1>1, <1>2, <1>3, <1>6

(* The first table does not depend on what rounds are sized on.            *)
LEMMA SameCpuTable ==
  ASSUME flags' = flags
  PROVE  /\ N' = N /\ Lines' = Lines
         /\ \A m : Looked(m)' = Looked(m)
         /\ \A label : RowsWaiting(label)' = RowsWaiting(label)
         /\ \A table, m : RowsFor("cpu", table, m)' <=> RowsFor("cpu", table, m)
<1>1. N' = N /\ \A m : Looked(m)' = Looked(m)
  BY DEF N, Looked
<1>2. /\ RoundRows' = RoundRows /\ UpdateRows' = UpdateRows /\ GossipRows' = GossipRows
      /\ CpuRows' = CpuRows
  BY DEF RoundRows, UpdateRows, GossipRows, CpuRows
<1>3. \A label : RowsWaiting(label)' = RowsWaiting(label)
  BY <1>2 DEF RowsWaiting
<1>4. Lines' = Lines
  BY <1>3 DEF Lines, TablesOf
<1>5. \A x, m : TimesUpTo(x, m)' = TimesUpTo(x, m) /\ Size("cpu", x)' = Size("cpu", x)
  BY DEF TimesUpTo, Size
<1>6. ASSUME NEW row PROVE RowRight("cpu", row)' <=> RowRight("cpu", row)
  BY DEF RowRight
<1>7. ASSUME NEW table, NEW m PROVE RowsFor("cpu", table, m)' <=> RowsFor("cpu", table, m)
  BY <1>5, <1>6 DEF RowsFor
<1> QED BY <1>1, <1>3, <1>4, <1>7

(* While the first section runs, its heading is all there is.              *)
LEMMA HeadingOnly ==
  ASSUME IInv, pc \in {"cpu", "sample"}, flags' = flags, stdout' = stdout
  PROVE  /\ (\A k \in DOMAIN stdout : LineRight(k))' /\ Len(stdout) = 1
         /\ (Len(stdout) <= 10 + N)' /\ (stdout \in Seq(Lines))'
<1>1. /\ Len(stdout) = 1 /\ flags \in Flags /\ N \in Nat /\ stdout \in Seq(Lines)
      /\ DOMAIN stdout = 1 .. Len(stdout) /\ \A k \in DOMAIN stdout : LineRight(k)
  <2>1. Len(stdout) = 1 /\ \A k \in DOMAIN stdout : LineRight(k)
    BY DEF IInv, LinesPrinted
  <2> QED BY <2>1, StateFacts
<1>2. stdout'[1] = Heading(Sections[1]) /\ DOMAIN stdout' = {1}
  <2>1. LineRight(1) /\ DOMAIN stdout = {1}
    BY <1>1
  <2>2. 1 \in 1 .. 5 /\ 1 = 2 * 1 - 1
    OBVIOUS
  <2>3. stdout[1] = Heading(Sections[1])
    BY <2>1, <2>2 DEF LineRight
  <2> QED BY <2>1, <2>3
<1>3. N' = N /\ Lines' = Lines
  BY SameCpuTable
<1>4. LineRight(1)'
  <2>1. 1 # 10 + N /\ \A t \in 1 .. N : 1 # 9 + t
    BY <1>1
  <2>2. \A i \in 1 .. 5 : 1 = 2 * i - 1 => i = 1
    OBVIOUS
  <2>3. \A i \in 1 .. 4 : 1 # 2 * i
    OBVIOUS
  <2> QED BY <1>2, <1>3, <2>1, <2>2, <2>3 DEF LineRight
<1> QED BY <1>1, <1>2, <1>3, <1>4

(* A scheme is looked up, and one that cannot be timed gets its row.       *)
LEMMA StartSchemeStep == IInv /\ StartScheme => IInv'
<1> SUFFICES ASSUME IInv, StartScheme PROVE IInv'
  OBVIOUS
<1>1. /\ pc = "cpu" /\ MoreNames /\ signs' = <<>> /\ verifies' = <<>>
      /\ flags' = flags /\ verifyFor' = verifyFor /\ stdout' = stdout
  BY DEF StartScheme
<1>2. /\ flags \in Flags /\ turn \in Nat \ {0} /\ turn <= N /\ N \in Nat
      /\ rows \in Seq(CpuRows)
  BY <1>1, StateFacts, Labels
<1>3. /\ (\A k \in DOMAIN stdout : LineRight(k))' /\ Len(stdout) = 1
      /\ (Len(stdout) <= 10 + N)' /\ (stdout \in Seq(Lines))'
  BY <1>1, HeadingOnly
<1>4. /\ Looked(turn - 1) \subseteq SchemeNames
      /\ DOMAIN verifyFor = Looked(turn - 1) \cap Implemented
      /\ RowsFor("cpu", rows, turn - 1) /\ TailsKept(rows)
  BY <1>1 DEF IInv, NamesLookedUp, RowsWait
<1>5. /\ \A s, t, m : RowsFor(s, t, m)' <=> RowsFor(s, t, m)
      /\ \A t : TailsKept(t)' <=> TailsKept(t)
      /\ \A label : RowsWaiting(label)' = RowsWaiting(label)
      /\ \A m : Looked(m)' = Looked(m)
  BY <1>1, SameTables
<1>6. /\ flags' \in Flags /\ keys \in 0 .. MostKeys
      /\ (verifyFor \in [DOMAIN verifyFor -> Durations])' /\ DOMAIN verifyFor' \subseteq Implemented
      /\ turn \in 1 .. Len(flags'.schemes) + 1
      /\ signs' \in Seq(Durations) /\ verifies' \in Seq(Durations) /\ Len(signs') = Len(verifies')
  BY <1>1 DEF IInv, TypeOK
<1>7. pc' \notin {"round", "ibc", "gossip", "mitigations", "exit 0"} => LinesPrinted'
  <2>1. Len(stdout') = 1
    BY <1>1, <1>3
  <2> QED BY <1>3, <2>1 DEF LinesPrinted
<1>8. CASE name \in Implemented
  <2>1. pc' = "sample" /\ keys' = KeysOf(name) /\ turn' = turn /\ rows' = rows
    BY <1>8 DEF StartScheme, Goto, KeysOf
  <2>2. keys' \in 0 .. MostKeys /\ KeysOf(name) \in Nat
    <3>1. KeysOf(name) \in 1 .. MostKeys /\ MostKeys \in Nat
      BY KeyRoundsType, CpuTimeAssumption
    <3> QED BY <2>1, <3>1
  <2>3. (rows \in Seq(RowsWaiting(pc)))'
    BY <1>2, <1>5, <2>1, Labels
  <2>4. TypeOK'
    <3>1. pc' \in Range(Sections) \cup {"sample", "exit 0", "exit 1", "panic"}
      BY <2>1
    <3> QED BY <1>3, <1>6, <2>1, <2>2, <2>3, <3>1 DEF TypeOK
  <2>5. NamesLookedUp'
    BY <1>1, <1>3, <1>4, <1>5, <2>1 DEF NamesLookedUp
  <2>6. SamplesTaken'
    <3>1. name' = name /\ N' = N
      BY <1>1, <2>1, SameCpuTable DEF name
    <3>2. KeysOf(name)' = keys' /\ KeysOf(name') = keys'
      BY <2>1, <3>1 DEF KeysOf
    <3>3. turn' <= N' /\ name' \in Implemented
      BY <1>2, <1>8, <2>1, <3>1
    <3> HIDE DEF name
    <3> QED BY <1>6, <2>1, <2>2, <3>2, <3>3 DEF SamplesTaken
  <2>7. RowsWait'
    BY <1>4, <1>5, <2>1 DEF RowsWait
  <2>8. LinesPrinted'
    BY <1>7, <2>1
  <2> QED BY <2>4, <2>5, <2>6, <2>7, <2>8 DEF IInv
<1>9. CASE name \notin Implemented /\ name \in SchemeNames
  <2> DEFINE row == [scheme |-> name]
  <2>1. pc' = "cpu" /\ keys' = keys /\ turn' = turn + 1 /\ rows' = Append(rows, row)
    BY <1>1, <1>9 DEF StartScheme
  <2>2. row \in CpuRows /\ row.scheme = name
    BY <1>9 DEF CpuRows
  <2> HIDE DEF row
  <2>3. rows' \in Seq(CpuRows) /\ RowsFor("cpu", rows', turn)
    BY <1>1, <2>1, <2>2, CpuRowAdded
  <2>4. turn' - 1 = turn
    BY <1>2, <2>1
  <2>5. (rows \in Seq(RowsWaiting(pc)))'
    BY <1>5, <2>1, <2>3, Labels
  <2>6. TypeOK'
    <3>1. pc' \in Range(Sections)
      BY <2>1, SectionNames
    <3>2. turn' \in 1 .. Len(flags'.schemes) + 1
      BY <1>1, <1>2, <2>1 DEF N
    <3> QED BY <1>3, <1>6, <2>1, <2>5, <3>1, <3>2 DEF TypeOK
  <2>7. Looked(turn) = Looked(turn - 1) \cup {name}
    <3> DEFINE m == turn - 1
    <3>1. m \in Nat /\ m + 1 = turn
      BY <1>2
    <3>2. Looked(m + 1) = Looked(m) \cup {flags.schemes[m + 1]}
      <4> HIDE DEF m
      <4> QED BY <3>1, TimesStep
    <3> QED BY <3>1, <3>2 DEF name
  <2>8. NamesLookedUp'
    <3>1. /\ Looked(turn) \subseteq SchemeNames
          /\ DOMAIN verifyFor = Looked(turn) \cap Implemented
      BY <1>4, <1>9, <2>7
    <3>2. Looked(turn - 1)' = Looked(turn)
      <4>1. Looked(turn' - 1) = Looked(turn)
        BY <2>4
      <4> QED BY <1>5, <4>1
    <3> QED BY <1>1, <1>3, <2>1, <3>1, <3>2 DEF NamesLookedUp
  <2>9. SamplesTaken'
    BY <1>1, <2>1 DEF SamplesTaken
  <2>10. RowsWait'
    <3>1. TailsKept(rows')
      <4>1. \A x \in DOMAIN verifyFor : row.scheme # x /\ TailKept(rows, x, verifyFor[x])
        BY <1>4, <1>9, <2>2 DEF TailsKept
      <4> QED BY <1>2, <2>1, <2>2, <4>1, TailOfAppend DEF TailsKept
    <3>2. RowsFor("cpu", rows', turn' - 1)
      BY <2>3, <2>4
    <3> QED BY <1>5, <2>1, <3>1, <3>2 DEF RowsWait
  <2>11. LinesPrinted'
    BY <1>7, <2>1
  <2> QED BY <2>6, <2>8, <2>9, <2>10, <2>11 DEF IInv
<1>10. CASE name \notin Implemented /\ name \notin SchemeNames
  <2>1. Fail /\ UNCHANGED <<keys, turn, rows>>
    BY <1>10 DEF StartScheme
  <2> QED BY <1>1, <1>6, <2>1, FailStep
<1> QED BY <1>8, <1>9, <1>10

(* How many samples a key adds (sampleSignature, cputime.go).              *)
LEMMA SampleType ==
  ASSUME NEW s \in Sample
  PROVE  /\ PerKey \in Nat /\ s \in Seq(Durations) /\ Len(s) = PerKey
         /\ PerKey = 0 => name # "ed25519" /\ Iterations < MostKeys
<1>1. /\ keyRounds(Iterations) \in Nat \ {0} /\ keyRounds(Iterations) <= MostKeys
      /\ Iterations \in Nat \ {0} /\ MostKeys \in Nat
  BY KeyRoundsType, MigrationAssumption, CpuTimeAssumption
<1> DEFINE k == keyRounds(Iterations)
           q == Iterations \div k
<1>2. q \in Nat /\ (q = 0 => Iterations < k)
  <2> HIDE DEF k
  <2>1. k \in Nat \ {0} /\ Iterations \in Nat
    BY <1>1 DEF k
  <2>2. q \in Int
    BY <2>1, DivBounds
  <2>3. 0 <= q <=> 0 * k <= Iterations
    BY <2>1, DivisionInverts
  <2>4. 1 <= q <=> 1 * k <= Iterations
    BY <2>1, DivisionInverts
  <2> HIDE DEF q
  <2>5. 0 <= q
    BY <2>1, <2>2, <2>3
  <2>6. q = 0 => Iterations < k
    BY <2>1, <2>2, <2>4
  <2> QED BY <2>2, <2>5, <2>6
<1>3. PerKey = IF name = "ed25519" THEN Iterations ELSE q
  BY DEF PerKey
<1> HIDE DEF q, k
<1>4. PerKey \in Nat /\ (PerKey = 0 => name # "ed25519" /\ Iterations < MostKeys)
  <2>1. k \in Nat /\ k <= MostKeys
    BY <1>1 DEF k
  <2> QED BY <1>1, <1>2, <1>3, <2>1
<1>5. s \in [1 .. PerKey -> Durations]
  BY DEF Sample
<1>6. s \in Seq(Durations)
  BY <1>4, <1>5, SeqDef
<1>7. Len(s) = PerKey
  <2>1. Len(s) \in Nat /\ DOMAIN s = 1 .. Len(s)
    BY <1>6, LenProperties
  <2> QED BY <1>4, <1>5, <2>1, EqualIntervals
<1> QED BY <1>4, <1>6, <1>7

(* One key pair is timed, or fails.                                        *)
LEMMA SampleKeyStep == IInv /\ SampleKey => IInv'
<1> SUFFICES ASSUME IInv, SampleKey PROVE IInv'
  OBVIOUS
<1>1. /\ pc = "sample" /\ keys > 0 /\ flags' = flags /\ turn' = turn
      /\ verifyFor' = verifyFor /\ rows' = rows /\ stdout' = stdout
  BY DEF SampleKey
<1>2. /\ flags \in Flags /\ N \in Nat /\ rows \in Seq(CpuRows)
      /\ signs \in Seq(Durations) /\ verifies \in Seq(Durations)
      /\ Len(signs) = Len(verifies) /\ Len(signs) \in Nat
  BY <1>1, StateFacts, Labels
<1>3. keys \in 0 .. MostKeys /\ MostKeys \in Nat
  BY CpuTimeAssumption DEF IInv, TypeOK
<1>4. CASE Fail /\ UNCHANGED <<keys, signs, verifies>>
  <2>1. keys' = keys /\ signs' = signs /\ verifies' = verifies
    BY <1>4
  <2> QED BY <1>1, <1>2, <1>3, <1>4, <2>1, FailStep
<1>5. ASSUME NEW s \in Sample, NEW v \in Sample, signs' = signs \o s, verifies' = verifies \o v,
             keys' = keys - 1, pc' = pc
      PROVE  IInv'
  <2>1. /\ s \in Seq(Durations) /\ v \in Seq(Durations) /\ PerKey \in Nat
        /\ Len(s) = PerKey /\ Len(v) = PerKey
    BY SampleType
  <2>2. /\ signs' \in Seq(Durations) /\ Len(signs') = Len(signs) + PerKey
        /\ verifies' \in Seq(Durations) /\ Len(verifies') = Len(verifies) + PerKey
    <3>1. signs \o s \in Seq(Durations) /\ Len(signs \o s) = Len(signs) + Len(s)
      BY <1>2, <2>1, ConcatProperties
    <3>2. verifies \o v \in Seq(Durations) /\ Len(verifies \o v) = Len(verifies) + Len(v)
      BY <1>2, <2>1, ConcatProperties
    <3> QED BY <1>5, <2>1, <3>1, <3>2
  <2>3. /\ turn <= N /\ name \in Implemented /\ keys \in 0 .. KeysOf(name)
    BY <1>1 DEF IInv, SamplesTaken
  <2>4. KeysOf(name) \in Nat
    BY KeyRoundsType, <1>3
  <2>5. /\ (\A k \in DOMAIN stdout : LineRight(k))' /\ Len(stdout) = 1
        /\ (Len(stdout) <= 10 + N)' /\ (stdout \in Seq(Lines))'
    BY <1>1, HeadingOnly
  <2>6. /\ \A x, t, m : RowsFor(x, t, m)' <=> RowsFor(x, t, m)
        /\ \A t : TailsKept(t)' <=> TailsKept(t)
        /\ \A label : RowsWaiting(label)' = RowsWaiting(label)
        /\ \A m : Looked(m)' = Looked(m)
        /\ N' = N
    BY <1>1, SameTables
  <2>7. TypeOK'
    <3>1. (rows \in Seq(RowsWaiting(pc)))'
      BY <1>1, <1>2, <1>5, <2>6, Labels
    <3>2. keys' \in 0 .. MostKeys
      BY <1>1, <1>3, <1>5
    <3> QED BY <1>1, <1>5, <2>2, <2>5, <3>1, <3>2 DEF IInv, TypeOK
  <2>8. NamesLookedUp'
    <3>1. /\ Looked(turn - 1) \subseteq SchemeNames
          /\ DOMAIN verifyFor = Looked(turn - 1) \cap Implemented
      BY <1>1 DEF IInv, NamesLookedUp
    <3> QED BY <1>1, <2>5, <2>6, <3>1 DEF NamesLookedUp
  <2>9. SamplesTaken'
    <3>1. name' = name
      BY <1>1 DEF name
    <3>2. PerKey' = PerKey
      BY <3>1 DEF PerKey
    <3>3. keys' \in 0 .. KeysOf(name)
      BY <1>1, <1>5, <2>3, <2>4
    <3>4. PerKey > 0 => signs' # <<>>
      <4>1. PerKey > 0 => Len(signs') # 0
        BY <1>2, <2>1, <2>2
      <4> QED BY <2>2, <4>1, EmptySeq
    <3>5. Len(signs') = Len(verifies')
      BY <1>2, <2>2
    <3>6. pc' = "sample" /\ turn' <= N' /\ name' \in Implemented /\ (keys \in 0 .. KeysOf(name))'
      BY <1>1, <1>5, <2>3, <2>6, <3>1, <3>3
    <3> HIDE DEF name, PerKey
    <3> QED BY <3>2, <3>4, <3>5, <3>6 DEF SamplesTaken
  <2>10. RowsWait'
    BY <1>1, <1>5, <2>6 DEF IInv, RowsWait
  <2>11. LinesPrinted'
    BY <1>1, <1>5, <2>5 DEF LinesPrinted
  <2> QED BY <2>7, <2>8, <2>9, <2>10, <2>11 DEF IInv
<1> QED BY <1>4, <1>5 DEF SampleKey

(* The profile of a scheme is made, or there is no sample to make it from. *)
LEMMA FinishSchemeStep == IInv /\ FinishScheme => IInv'
<1> SUFFICES ASSUME IInv, FinishScheme PROVE IInv'
  OBVIOUS
<1>1. /\ pc = "sample" /\ keys = 0 /\ flags' = flags /\ keys' = keys
      /\ signs' = signs /\ verifies' = verifies /\ stdout' = stdout
  BY DEF FinishScheme
<1>2. /\ flags \in Flags /\ N \in Nat /\ rows \in Seq(CpuRows) /\ Len(rows) \in Nat
      /\ signs \in Seq(Durations) /\ verifies \in Seq(Durations)
      /\ Len(signs) = Len(verifies) /\ Len(signs) \in Nat
      /\ turn \in Nat \ {0} /\ (MoreNames <=> turn <= N) /\ Durations \subseteq Nat
  BY <1>1, StateFacts, Labels
<1>3. /\ turn <= N /\ name \in Implemented
      /\ keys < KeysOf(name) /\ PerKey > 0 => signs # <<>>
  BY <1>1 DEF IInv, SamplesTaken
<1>4. /\ (\A k \in DOMAIN stdout : LineRight(k))' /\ Len(stdout) = 1
      /\ (Len(stdout) <= 10 + N)' /\ (stdout \in Seq(Lines))'
  BY <1>1, HeadingOnly
<1>5. /\ \A t, m : RowsFor("cpu", t, m)' <=> RowsFor("cpu", t, m)
      /\ \A label : RowsWaiting(label)' = RowsWaiting(label)
      /\ \A m : Looked(m)' = Looked(m)
      /\ N' = N
  BY <1>1, SameCpuTable
<1>6. /\ Looked(turn - 1) \subseteq SchemeNames
      /\ DOMAIN verifyFor = Looked(turn - 1) \cap Implemented
      /\ RowsFor("cpu", rows, turn - 1) /\ TailsKept(rows)
      /\ verifyFor \in [DOMAIN verifyFor -> Durations] /\ DOMAIN verifyFor \subseteq Implemented
  BY <1>1 DEF IInv, TypeOK, NamesLookedUp, RowsWait
<1>7. CASE signs = <<>>
  <2>1. pc' = "panic" /\ turn' = turn /\ verifyFor' = verifyFor /\ rows' = rows
    BY <1>7 DEF FinishScheme, ProfilePanics, Goto
  <2>2. Iterations < MostKeys
    <3>1. KeysOf(name) \in 1 .. MostKeys /\ MostKeys \in Nat
      BY KeyRoundsType, CpuTimeAssumption
    <3>2. ~(PerKey > 0)
      BY <1>1, <1>3, <1>7, <3>1
    <3>3. /\ PerKey = IF name = "ed25519" THEN Iterations
                      ELSE Iterations \div keyRounds(Iterations)
          /\ Iterations \in Nat \ {0}
          /\ keyRounds(Iterations) \in Nat \ {0} /\ keyRounds(Iterations) <= MostKeys
      BY MigrationAssumption, KeyRoundsType DEF PerKey
    <3> DEFINE k == keyRounds(Iterations)
               q == Iterations \div k
    <3>4. 1 <= q <=> 1 * k <= Iterations
      BY <3>3, DivisionInverts
    <3>5. q \in Int
      BY <3>3, DivBounds
    <3> HIDE DEF name, q, k, PerKey
    <3>6. PerKey = (IF name = "ed25519" THEN Iterations ELSE q)
          /\ Iterations \in Nat \ {0} /\ k \in Nat \ {0} /\ k <= MostKeys
      BY <3>3 DEF k, q
    <3> QED BY <3>1, <3>2, <3>4, <3>5, <3>6
  <2>3. TypeOK'
    <3>1. (rows \in Seq(RowsWaiting(pc)))'
      <4>1. /\ rows \in Seq(RowsWaiting("sample"))
            /\ RowsWaiting("sample") \subseteq RowsWaiting("exit 1")
        BY <1>2, Labels
      <4>2. rows \in Seq(RowsWaiting("exit 1"))
        BY <4>1, WiderSequence
      <4>3. RowsWaiting("panic") = RowsWaiting("exit 1")
        BY Labels
      <4> QED BY <1>5, <2>1, <4>2, <4>3
    <3>2. pc' \in Range(Sections) \cup {"sample", "exit 0", "exit 1", "panic"}
      BY <2>1
    <3> QED BY <1>1, <1>4, <2>1, <3>1, <3>2 DEF IInv, TypeOK
  <2>4. NamesLookedUp'
    BY <1>1, <1>4, <2>1 DEF NamesLookedUp
  <2>5. SamplesTaken'
    BY <1>1, <1>2, <2>1, <2>2 DEF SamplesTaken
  <2>6. RowsWait'
    BY <2>1 DEF RowsWait
  <2>7. LinesPrinted'
    BY <1>1, <1>4, <2>1 DEF LinesPrinted
  <2> QED BY <2>3, <2>4, <2>5, <2>6, <2>7 DEF IInv
<1>8. CASE signs # <<>>
  <2>1. /\ verifyFor' = [n \in DOMAIN verifyFor \cup {name} |->
                           IF n = name THEN SizedOn ELSE verifyFor[n]]
        /\ rows' = Append(rows, Profile) /\ turn' = turn + 1 /\ pc' = "cpu"
    BY <1>8 DEF FinishScheme, ProfilePanics, Goto
  <2>2. verifies # <<>>
    <3>1. Len(signs) # 0
      BY <1>2, <1>8, EmptySeq
    <3> QED BY <1>2, <3>1
  <2>3. Profile \in CpuRows /\ Profile.scheme = name /\ Profile.verifyP95 \in Durations
    BY <1>2, <1>3, <1>8, <2>2, ProfileOfSamples DEF Profile
  <2>4. SizedOn = Profile.verifyP95
    BY DEF SizedOn
  <2>5. Profile = profileFrom(name, sortDurations(signs), sortDurations(verifies))
    BY DEF Profile
  <2> HIDE DEF Profile, SizedOn
  <2>6. rows' \in Seq(CpuRows) /\ RowsFor("cpu", rows', turn)
    BY <1>1, <1>2, <1>3, <2>1, <2>3, CpuRowAdded
  <2>7. turn' - 1 = turn
    BY <1>2, <2>1
  <2>8. Looked(turn) = Looked(turn - 1) \cup {name}
    <3> DEFINE m == turn - 1
    <3>1. m \in Nat /\ m + 1 = turn
      BY <1>2
    <3>2. Looked(m + 1) = Looked(m) \cup {flags.schemes[m + 1]}
      <4> HIDE DEF m
      <4> QED BY <3>1, TimesStep
    <3> QED BY <3>1, <3>2 DEF name
  <2> HIDE DEF name
  <2>9. TypeOK'
    <3>1. (rows \in Seq(RowsWaiting(pc)))'
      BY <1>5, <2>1, <2>6, Labels
    <3>2. pc' \in Range(Sections)
      BY <2>1, SectionNames
    <3>3. turn' \in 1 .. Len(flags'.schemes) + 1
      BY <1>1, <1>2, <1>3, <2>1 DEF N
    <3>4. verifyFor' \in [DOMAIN verifyFor' -> Durations] /\ DOMAIN verifyFor' \subseteq Implemented
      BY <1>3, <1>6, <2>1, <2>3, <2>4
    <3>5. flags' \in Flags /\ keys' \in 0 .. MostKeys
          /\ signs' \in Seq(Durations) /\ verifies' \in Seq(Durations)
      BY <1>1 DEF IInv, TypeOK
    <3> QED BY <1>4, <3>1, <3>2, <3>3, <3>4, <3>5 DEF TypeOK
  <2>10. NamesLookedUp'
    <3>1. Looked(turn) \subseteq SchemeNames /\ DOMAIN verifyFor' = Looked(turn) \cap Implemented
      BY <1>3, <1>6, <2>1, <2>8, ImplementedKnown
    <3>2. Looked(turn - 1)' = Looked(turn)
      <4>1. Looked(turn' - 1) = Looked(turn)
        BY <2>7
      <4> QED BY <1>5, <4>1
    <3>3. Len(stdout') = 1 /\ pc' = "cpu"
      BY <1>1, <1>4, <2>1
    <3> QED BY <3>1, <3>2, <3>3 DEF NamesLookedUp
  <2>11. SamplesTaken'
    <3>1. rows' # <<>> /\ rows'[Len(rows')] = Profile
      <4>1. Append(rows, Profile) # <<>> /\ Len(Append(rows, Profile)) = Len(rows) + 1
            /\ Append(rows, Profile)[Len(rows) + 1] = Profile
        BY <1>2, <2>3, AppendProperties
      <4> QED BY <2>1, <4>1
    <3>2. \E x \in Implemented :
            rows'[Len(rows')] = profileFrom(x, sortDurations(signs'), sortDurations(verifies'))
      BY <1>1, <1>3, <2>5, <3>1
    <3> QED BY <1>1, <1>2, <2>1, <3>1, <3>2 DEF SamplesTaken
  <2>12. RowsWait'
    <3>1. TailsKept(rows)'
      <4>1. ASSUME NEW x \in DOMAIN verifyFor' PROVE TailKept(rows', x, verifyFor'[x])
        <5>1. CASE x = name
          <6>1. TailKept(rows', x, Profile.verifyP95)
            BY <1>2, <2>1, <2>3, <5>1, TailOfAppend
          <6> QED BY <2>1, <2>4, <5>1, <6>1
        <5>2. CASE x # name
          <6>1. x \in DOMAIN verifyFor /\ verifyFor'[x] = verifyFor[x]
            BY <2>1, <4>1, <5>2
          <6>2. TailKept(rows, x, verifyFor[x])
            BY <1>6, <6>1 DEF TailsKept
          <6>3. TailKept(rows', x, verifyFor[x])
            BY <1>2, <2>1, <2>3, <5>2, <6>2, TailOfAppend
          <6> QED BY <6>1, <6>3
        <5> QED BY <5>1, <5>2
      <4> QED BY <4>1 DEF TailsKept
    <3>2. RowsFor("cpu", rows, turn - 1)'
      <4>1. RowsFor("cpu", rows', turn' - 1)
        BY <2>6, <2>7
      <4> QED BY <1>5, <4>1
    <3> QED BY <2>1, <3>1, <3>2 DEF RowsWait
  <2>13. LinesPrinted'
    BY <1>1, <1>4, <2>1 DEF LinesPrinted
  <2> QED BY <2>9, <2>10, <2>11, <2>12, <2>13 DEF IInv
<1> QED BY <1>7, <1>8


-----------------------------------------------------------------------------
(* The first table is flushed; the samples are not kept.                   *)
LEMMA FlushSchemeStep == IInv /\ FlushScheme => IInv'
<1> SUFFICES ASSUME IInv, FlushScheme PROVE IInv'
  OBVIOUS
<1>1. /\ Flush("cpu", "round") /\ signs' = <<>> /\ verifies' = <<>>
      /\ UNCHANGED <<flags, keys, verifyFor>>
  BY DEF FlushScheme
<1>2. Flush(Sections[1], Sections[1 + 1])
  BY <1>1, SectionNames
<1>3. signs' \in Seq(Durations) /\ verifies' \in Seq(Durations) /\ Len(signs') = Len(verifies')
  BY <1>1
<1> QED BY <1>1, <1>2, <1>3, FlushStep

(* The other tables are flushed with nothing else changed.                 *)
LEMMA FlushOthersStep ==
  IInv /\ (FlushRounds \/ FlushUpdates \/ FlushGossip) => IInv'
<1> SUFFICES ASSUME IInv, FlushRounds \/ FlushUpdates \/ FlushGossip PROVE IInv'
  OBVIOUS
<1>1. UNCHANGED <<flags, keys, signs, verifies, verifyFor>>
  BY DEF FlushRounds, FlushUpdates, FlushGossip
<1>2. signs' \in Seq(Durations) /\ verifies' \in Seq(Durations) /\ Len(signs') = Len(verifies')
  BY <1>1, StateFacts
<1>3. \/ Flush(Sections[2], Sections[2 + 1])
      \/ Flush(Sections[3], Sections[3 + 1])
      \/ Flush(Sections[4], Sections[4 + 1])
  BY SectionNames DEF FlushRounds, FlushUpdates, FlushGossip
<1>4. PICK i \in 1 .. 4 : Flush(Sections[i], Sections[i + 1])
  BY <1>3
<1> QED BY <1>1, <1>2, <1>4, FlushStep

(* A name of the later sections is one the first section looked up.        *)
LEMMA LaterName ==
  ASSUME IInv, MoreNames, pc \in {"round", "ibc", "gossip", "mitigations"}
  PROVE  /\ name \in Range(flags.schemes) /\ name \in SchemeNames
         /\ name \in DOMAIN verifyFor <=> name \in Implemented
<1>1. Len(stdout) > 1
  <2>1. turn \in Nat \ {0}
    BY StateFacts
  <2>2. /\ pc = "round" => Len(stdout) = 3
        /\ pc = "ibc" => Len(stdout) = 5
        /\ pc = "gossip" => Len(stdout) = 7
        /\ pc = "mitigations" => Len(stdout) = 8 + turn
    BY DEF IInv, LinesPrinted
  <2> DEFINE len == Len(stdout)
  <2>3. len = 3 \/ len = 5 \/ len = 7 \/ len = 8 + turn
    BY <2>2
  <2> HIDE DEF len
  <2>4. len > 1
    BY <2>1, <2>3
  <2> QED BY <2>4 DEF len
<1>2. name \in Range(flags.schemes)
  BY StateFacts
<1>3. /\ Range(flags.schemes) \subseteq SchemeNames
      /\ DOMAIN verifyFor = Range(flags.schemes) \cap Implemented
  BY <1>1 DEF IInv, NamesLookedUp
<1> QED BY <1>2, <1>3

(* A name's rows of the round table, or none for a name that was not timed. *)
LEMMA AssessRoundsStep == IInv /\ AssessRounds => IInv'
<1> SUFFICES ASSUME IInv, AssessRounds PROVE IInv'
  OBVIOUS
<1>1. pc = "round" /\ MoreNames
  BY DEF AssessRounds, AddRows
<1>2. /\ name \in Range(flags.schemes)
      /\ name \in DOMAIN verifyFor <=> name \in Implemented
  BY <1>1, LaterName
<1>3. CASE name \in DOMAIN verifyFor
  <2> DEFINE new == RoundTable
  <2>1. verifyFor \in [DOMAIN verifyFor -> Durations]
    BY DEF IInv, TypeOK
  <2>2. /\ new \in Seq(RoundRows)
        /\ Len(new) = Size("round", name)
        /\ \A k \in DOMAIN new : new[k].scheme = name /\ RowRight("round", new[k])
    BY <1>2, <1>3, <2>1, StateFacts, RoundRowsAre
  <2>3. AddRows("round", new)
    BY <1>3 DEF AssessRounds, RoundTable
  <2> HIDE DEF new
  <2>4. new \in Seq(RowsWaiting("round"))
    BY <2>2, Labels
  <2> QED BY <2>2, <2>3, <2>4, AddRowsStep
<1>4. CASE name \notin DOMAIN verifyFor
  <2> DEFINE new == <<>>
  <2>1. AddRows("round", new)
    BY <1>4 DEF AssessRounds
  <2>2. Size("round", name) = 0
    BY <1>2, <1>4 DEF Size
  <2>3. new \in Seq(RowsWaiting("round")) /\ Len(new) = 0 /\ DOMAIN new = {}
    OBVIOUS
  <2> HIDE DEF new
  <2>4. Len(new) = Size("round", name)
    BY <2>2, <2>3
  <2>5. \A k \in DOMAIN new : new[k].scheme = name /\ RowRight("round", new[k])
    BY <2>3
  <2> QED BY <2>1, <2>3, <2>4, <2>5, AddRowsStep
<1> QED BY <1>3, <1>4

(* A name's client updates.                                                *)
LEMMA MeasureUpdatesStep == IInv /\ MeasureUpdates => IInv'
<1> SUFFICES ASSUME IInv, MeasureUpdates PROVE IInv'
  OBVIOUS
<1>1. pc = "ibc" /\ MoreNames
  BY DEF MeasureUpdates, AddRows
<1>2. name \in Range(flags.schemes) /\ name \in SchemeNames
  BY <1>1, LaterName
<1> DEFINE new == UpdateTable
<1>3. /\ new \in Seq(UpdateRows)
      /\ Len(new) = Size("ibc", name)
      /\ \A k \in DOMAIN new : new[k].scheme = name /\ RowRight("ibc", new[k])
  BY <1>2, StateFacts, UpdateRowsAre
<1>4. AddRows("ibc", new)
  BY DEF MeasureUpdates, UpdateTable
<1> HIDE DEF new
<1>5. new \in Seq(RowsWaiting("ibc"))
  BY <1>3, Labels
<1> QED BY <1>3, <1>4, <1>5, AddRowsStep

(* A name's gossip.                                                        *)
LEMMA EstimateAllStep == IInv /\ EstimateAll => IInv'
<1> SUFFICES ASSUME IInv, EstimateAll PROVE IInv'
  OBVIOUS
<1>1. pc = "gossip" /\ MoreNames
  BY DEF EstimateAll, AddRows
<1>2. name \in Range(flags.schemes) /\ name \in SchemeNames
  BY <1>1, LaterName
<1> DEFINE new == GossipTable
<1>3. /\ new \in Seq(GossipRows)
      /\ Len(new) = Size("gossip", name)
      /\ \A k \in DOMAIN new : new[k].scheme = name /\ RowRight("gossip", new[k])
  BY <1>2, StateFacts, GossipRowsAre
<1>4. AddRows("gossip", new)
  BY DEF EstimateAll, GossipTable
<1> HIDE DEF new
<1>5. new \in Seq(RowsWaiting("gossip"))
  BY <1>3, Labels
<1> QED BY <1>3, <1>4, <1>5, AddRowsStep

(* The errors of the later sections.                                       *)
LEMMA FailLaterStep ==
  IInv /\ (FailUpdate \/ FailGossip \/ FailMitigations) => IInv'
<1> SUFFICES ASSUME IInv, FailUpdate \/ FailGossip \/ FailMitigations PROVE IInv'
  OBVIOUS
<1>1. Fail /\ UNCHANGED <<flags, turn, keys, signs, verifies, verifyFor, rows, stdout>>
  BY DEF FailUpdate, FailGossip, FailMitigations, FailIn
<1>2. /\ keys' \in 0 .. MostKeys /\ signs' \in Seq(Durations) /\ verifies' \in Seq(Durations)
      /\ Len(signs') = Len(verifies')
  BY <1>1 DEF IInv, TypeOK, SamplesTaken
<1> QED BY <1>1, <1>2, FailStep

(* One more line in the last section.                                      *)
LEMMA LineAdded ==
  ASSUME IInv, NEW line \in Lines, flags' = flags, verifyFor' = verifyFor,
         stdout' = Append(stdout, line), NEW n \in Nat, Len(stdout) = n,
         n < 10 + N, n > 1, LineRight(n + 1)'
  PROVE  /\ Len(stdout') = n + 1 /\ N' = N
         /\ (\A k \in DOMAIN stdout : LineRight(k))'
         /\ (Len(stdout) <= 10 + N)' /\ (stdout \in Seq(Lines))'
         /\ NamesLookedUp' \/ pc' \in {"cpu", "sample"}
<1>1. stdout \in Seq(Lines) /\ n \in Nat /\ DOMAIN stdout = 1 .. n /\ N \in Nat
  BY StateFacts
<1>2. /\ stdout' \in Seq(Lines) /\ Len(stdout') = n + 1
      /\ \A k \in 1 .. n : stdout'[k] = stdout[k]
  BY <1>1, OneRow
<1>3. N' = N /\ Lines' = Lines
  BY SameTables
<1>4. DOMAIN stdout' = 1 .. n + 1
  BY <1>2, LenProperties
<1>5. ASSUME NEW k \in 1 .. n PROVE LineRight(k)'
  <2>1. LineRight(k)
    BY <1>1 DEF IInv, LinesPrinted
  <2> QED BY <1>2, <2>1, SameLine
<1>6. (\A k \in DOMAIN stdout : LineRight(k))'
  <2>1. ASSUME NEW k \in 1 .. n + 1 PROVE LineRight(k)'
    <3>1. k \in 1 .. n \/ k = n + 1
      OBVIOUS
    <3> QED BY <1>5, <3>1
  <2> QED BY <1>4, <2>1
<1>7. (Len(stdout) <= 10 + N)'
  <2>1. n + 1 <= 10 + N
    BY <1>1
  <2> QED BY <1>2, <1>3, <2>1
<1>8. NamesLookedUp' \/ pc' \in {"cpu", "sample"}
  BY DEF IInv, NamesLookedUp
<1> QED BY <1>2, <1>3, <1>6, <1>7, <1>8

(* A name's table of mitigations is printed.                               *)
LEMMA PrintMitigationsStep == IInv /\ PrintMitigations => IInv'
<1> SUFFICES ASSUME IInv, PrintMitigations PROVE IInv'
  OBVIOUS
<1> DEFINE sizes == MeasureSizes(scheme, <<100>>)
           line  == Table("mitigations", Mitigations(sizes))
<1>1. /\ pc = "mitigations" /\ MoreNames /\ stdout' = Append(stdout, line)
      /\ turn' = turn + 1
      /\ UNCHANGED <<flags, pc, keys, signs, verifies, verifyFor, rows>>
  BY DEF PrintMitigations
<1>2. /\ flags' = flags /\ pc' = pc /\ keys' = keys /\ signs' = signs
      /\ verifies' = verifies /\ verifyFor' = verifyFor /\ rows' = rows
  BY <1>1
<1>3. flags \in Flags /\ N \in Nat \ {0} /\ turn \in Nat \ {0} /\ turn <= N
  BY <1>1, StateFacts
<1>4. Len(stdout) = 8 + turn
  BY <1>1 DEF IInv, LinesPrinted
<1>5. name \in SchemeNames
  BY <1>1, LaterName
<1>6. line \in Lines /\ line = MitigationsOf(turn)
  <2>1. RoundTripBytes(sizes) \in Nat /\ compact(sizes) \in Nat
    BY <1>5, MitigationCosts DEF scheme
  <2>2. line \in Lines
    <3> HIDE DEF sizes
    <3> QED BY <2>1, MitigationsType
  <2> QED BY <2>2 DEF MitigationsOf, scheme, name
<1> HIDE DEF line, sizes
<1>7. PICK n \in Nat : n = 8 + turn
  BY <1>3
<1>8. LineRight(n + 1)'
  <2>1. stdout'[n + 1] = MitigationsOf(turn)
    <3>1. Append(stdout, line)[Len(stdout) + 1] = line
      BY <1>6, StateFacts, OneRow
    <3> QED BY <1>1, <1>4, <1>6, <1>7, <3>1
  <2>2. PICK k \in Nat : k = n + 1
    OBVIOUS
  <2>3. /\ \A i \in 1 .. 5 : k # 2 * i - 1
        /\ \A i \in 1 .. 4 : k # 2 * i
        /\ k # 2
        /\ \A t \in 1 .. N : k = 9 + t => t = turn
        /\ k # 10 + N
    BY <1>3, <1>7, <2>2
  <2>4. N' = N /\ \A t : MitigationsOf(t)' = MitigationsOf(t)
    BY <1>2, SameTables
  <2>5. \A t \in 1 .. N : k = 9 + t => stdout'[k] = MitigationsOf(t)'
    BY <2>1, <2>2, <2>3, <2>4
  <2>6. LineRight(k)'
    BY <2>3, <2>4, <2>5 DEF LineRight
  <2> QED BY <2>2, <2>6
<1>9. /\ Len(stdout') = n + 1 /\ N' = N
      /\ (\A k \in DOMAIN stdout : LineRight(k))'
      /\ (Len(stdout) <= 10 + N)' /\ (stdout \in Seq(Lines))'
      /\ NamesLookedUp' \/ pc' \in {"cpu", "sample"}
  <2>1. n < 10 + N /\ n > 1 /\ Len(stdout) = n
    BY <1>3, <1>4, <1>7
  <2> QED BY <1>1, <1>2, <1>6, <1>8, <2>1, LineAdded
<1>10. TypeOK'
  <2>1. turn' \in 1 .. Len(flags'.schemes) + 1
    BY <1>1, <1>2, <1>3 DEF N
  <2>2. (rows \in Seq(RowsWaiting(pc)))'
    <3>1. rows \in Seq(RowsWaiting(pc))
      BY StateFacts
    <3> QED BY <1>2, <3>1, SameTables
  <2> QED BY <1>2, <1>9, <2>1, <2>2 DEF IInv, TypeOK
<1>11. NamesLookedUp'
  BY <1>1, <1>2, <1>9
<1>12. SamplesTaken'
  BY <1>1, <1>2 DEF IInv, SamplesTaken
<1>13. RowsWait'
  BY <1>1, <1>2 DEF RowsWait
<1>14. LinesPrinted'
  <2>1. Len(stdout') = 8 + turn'
    BY <1>1, <1>3, <1>7, <1>9
  <2> QED BY <1>1, <1>2, <1>9, <2>1 DEF LinesPrinted
<1> QED BY <1>10, <1>11, <1>12, <1>13, <1>14 DEF IInv

(* The closing lines are printed.                                          *)
LEMMA CloseStep == IInv /\ Close => IInv'
<1> SUFFICES ASSUME IInv, Close PROVE IInv'
  OBVIOUS
<1> DEFINE line == [kind |-> "closing"]
<1>1. /\ pc = "mitigations" /\ ~MoreNames /\ stdout' = Append(stdout, line)
      /\ pc' = "exit 0"
      /\ UNCHANGED <<flags, turn, keys, signs, verifies, verifyFor, rows>>
  BY DEF Close, Goto
<1>2. /\ flags' = flags /\ turn' = turn /\ keys' = keys /\ signs' = signs
      /\ verifies' = verifies /\ verifyFor' = verifyFor /\ rows' = rows
  BY <1>1
<1>3. flags \in Flags /\ N \in Nat \ {0} /\ turn = N + 1
  BY <1>1, StateFacts
<1>4. Len(stdout) = 9 + N
  <2>1. Len(stdout) = 8 + turn
    BY <1>1 DEF IInv, LinesPrinted
  <2> QED BY <1>3, <2>1
<1>5. line \in Lines
  BY LineTypes
<1> HIDE DEF line
<1>6. PICK n \in Nat : n = 9 + N
  BY <1>3
<1>7. LineRight(n + 1)'
  <2>1. stdout'[n + 1] = [kind |-> "closing"]
    <3>1. Append(stdout, line)[Len(stdout) + 1] = line
      BY <1>5, StateFacts, OneRow
    <3> QED BY <1>1, <1>4, <1>6, <3>1 DEF line
  <2>2. PICK k \in Nat : k = n + 1
    OBVIOUS
  <2>3. /\ \A i \in 1 .. 5 : k # 2 * i - 1
        /\ \A i \in 1 .. 4 : k # 2 * i
        /\ k # 2
        /\ \A t \in 1 .. N : k # 9 + t
    BY <1>3, <1>6, <2>2
  <2>4. N' = N
    BY <1>2, SameTables
  <2>5. LineRight(k)'
    BY <2>1, <2>2, <2>3, <2>4 DEF LineRight
  <2> QED BY <2>2, <2>5
<1>8. /\ Len(stdout') = n + 1 /\ N' = N
      /\ (\A k \in DOMAIN stdout : LineRight(k))'
      /\ (Len(stdout) <= 10 + N)' /\ (stdout \in Seq(Lines))'
      /\ NamesLookedUp' \/ pc' \in {"cpu", "sample"}
  <2>1. n < 10 + N /\ n > 1 /\ Len(stdout) = n
    BY <1>3, <1>4, <1>6
  <2> QED BY <1>1, <1>2, <1>5, <1>7, <2>1, LineAdded
<1>9. TypeOK'
  <2>1. (rows \in Seq(RowsWaiting(pc)))'
    <3>1. rows \in Seq(RowsWaiting("mitigations"))
      BY <1>1, StateFacts
    <3>2. rows \in Seq(RowsWaiting("exit 0"))
      BY <3>1, Labels
    <3> QED BY <1>1, <1>2, <3>2, SameTables
  <2>2. pc' \in Range(Sections) \cup {"sample", "exit 0", "exit 1", "panic"}
    BY <1>1
  <2> QED BY <1>2, <1>8, <2>1, <2>2 DEF IInv, TypeOK
<1>10. NamesLookedUp'
  BY <1>1, <1>8
<1>11. SamplesTaken'
  BY <1>1, <1>2 DEF IInv, SamplesTaken
<1>12. RowsWait'
  BY <1>1 DEF RowsWait
<1>13. LinesPrinted'
  <2>1. Len(stdout') = 10 + N'
    BY <1>3, <1>6, <1>8
  <2> QED BY <1>1, <1>8, <2>1 DEF LinesPrinted
<1> QED BY <1>9, <1>10, <1>11, <1>12, <1>13 DEF IInv

(* Nothing happens.                                                        *)
LEMMA MigrationStutter == IInv /\ UNCHANGED vars => IInv'
<1> SUFFICES ASSUME IInv, UNCHANGED vars PROVE IInv'
  OBVIOUS
<1>1. /\ flags' = flags /\ pc' = pc /\ turn' = turn /\ keys' = keys /\ signs' = signs
      /\ verifies' = verifies /\ verifyFor' = verifyFor /\ rows' = rows /\ stdout' = stdout
  BY DEF vars
<1>2. /\ N' = N /\ (\A k \in DOMAIN stdout : LineRight(k))'
      /\ (Len(stdout) <= 10 + N)' /\ (stdout \in Seq(Lines))'
      /\ (Len(stdout) > 1 =>
           /\ Range(flags.schemes) \subseteq SchemeNames
           /\ DOMAIN verifyFor = Range(flags.schemes) \cap Implemented)'
  BY <1>1, FrozenLines
<1>3. /\ \A s, t, m : RowsFor(s, t, m)' <=> RowsFor(s, t, m)
      /\ \A t : TailsKept(t)' <=> TailsKept(t)
      /\ \A label : RowsWaiting(label)' = RowsWaiting(label)
      /\ \A m : Looked(m)' = Looked(m)
  BY <1>1, SameTables
<1>4. TypeOK'
  BY <1>1, <1>2, <1>3 DEF IInv, TypeOK
<1>5. NamesLookedUp'
  BY <1>1, <1>2, <1>3 DEF IInv, NamesLookedUp
<1>6. SamplesTaken'
  <2>1. name' = name
    BY <1>1 DEF name
  <2>2. PerKey' = PerKey
    BY <2>1 DEF PerKey
  <2>3. SamplesTaken
    BY DEF IInv
  <2> HIDE DEF name, PerKey
  <2> QED BY <1>1, <1>2, <2>1, <2>2, <2>3 DEF SamplesTaken
<1>7. RowsWait'
  BY <1>1, <1>3 DEF IInv, RowsWait
<1>8. LinesPrinted'
  BY <1>1, <1>2 DEF IInv, LinesPrinted
<1> QED BY <1>4, <1>5, <1>6, <1>7, <1>8 DEF IInv

(* Every step, together.                                                   *)
LEMMA MigrationNext == IInv /\ [Next]_vars => IInv'
<1> SUFFICES ASSUME IInv, [Next]_vars PROVE IInv'
  OBVIOUS
<1>1. CASE StartScheme
  BY <1>1, StartSchemeStep
<1>2. CASE SampleKey
  BY <1>2, SampleKeyStep
<1>3. CASE FinishScheme
  BY <1>3, FinishSchemeStep
<1>4. CASE FlushScheme
  BY <1>4, FlushSchemeStep
<1>5. CASE AssessRounds
  BY <1>5, AssessRoundsStep
<1>6. CASE FlushRounds \/ FlushUpdates \/ FlushGossip
  BY <1>6, FlushOthersStep
<1>7. CASE MeasureUpdates
  BY <1>7, MeasureUpdatesStep
<1>8. CASE EstimateAll
  BY <1>8, EstimateAllStep
<1>9. CASE FailUpdate \/ FailGossip \/ FailMitigations
  BY <1>9, FailLaterStep
<1>10. CASE PrintMitigations
  BY <1>10, PrintMitigationsStep
<1>11. CASE Close
  BY <1>11, CloseStep
<1>12. CASE UNCHANGED vars
  BY <1>12, MigrationStutter
<1> QED BY <1>1, <1>2, <1>3, <1>4, <1>5, <1>6, <1>7, <1>8, <1>9, <1>10, <1>11, <1>12
     DEF Next

(* What holds between the tab writer, the times that rounds are sized on   *)
(* and the lines printed, at every step of reportMigration (main.go).      *)
THEOREM MigrationInvariant == Spec => []IInv
BY MigrationInit, MigrationNext, PTL DEF Spec

(* Every variable keeps its type: what waits in the tab writer is of the   *)
(* section that runs, and standard output has lines of known shapes only.  *)
THEOREM MigrationTypeCorrect == Spec => []TypeOK
<1>1. IInv => TypeOK
  BY DEF IInv
<1> QED BY <1>1, MigrationInvariant, PTL

-----------------------------------------------------------------------------
(* Where the tables of a kind are on standard output.                      *)
LEMMA LinesByKind ==
  ASSUME IInv
  PROVE  /\ \A k \in DOMAIN stdout : \A i \in 1 .. 4 :
              stdout[k].kind = Sections[i] <=> k = 2 * i
         /\ \A k \in DOMAIN stdout :
              stdout[k].kind = "mitigations" <=> k \in 10 .. 9 + N
<1>1. N \in Nat \ {0} /\ Len(stdout) \in Nat /\ DOMAIN stdout = 1 .. Len(stdout)
      /\ Len(stdout) <= 10 + N
  BY StateFacts
<1>2. ASSUME NEW k \in DOMAIN stdout
      PROVE  /\ \A i \in 1 .. 4 : stdout[k].kind = Sections[i] <=> k = 2 * i
             /\ stdout[k].kind = "mitigations" <=> k \in 10 .. 9 + N
  <2>1. LineRight(k)
    BY DEF IInv, LinesPrinted
  <2>2. k \in 1 .. 10 + N
    BY <1>1
  <2> DEFINE kind == stdout[k].kind
  <2>3. \A j \in 1 .. 5 : k = 2 * j - 1 => kind = "heading"
    BY <2>1 DEF LineRight, Heading
  <2>4. \A j \in 1 .. 4 : k = 2 * j => kind = Sections[j]
    BY <2>1 DEF LineRight
  <2>5. \A t \in 1 .. N : k = 9 + t => kind = "mitigations"
    <3>1. \A data : Table("mitigations", data).kind = "mitigations"
      BY DEF Table
    <3>2. \A t : MitigationsOf(t).kind = "mitigations"
      BY <3>1 DEF MitigationsOf
    <3> QED BY <2>1, <3>2 DEF LineRight
  <2>6. k = 10 + N => kind = "closing"
    BY <2>1 DEF LineRight
  <2>7. \/ \E j \in 1 .. 5 : k = 2 * j - 1
        \/ \E j \in 1 .. 4 : k = 2 * j
        \/ \E t \in 1 .. N : k = 9 + t
        \/ k = 10 + N
    <3>1. CASE k \in 1 .. 9
      <4>1. \/ k = 2 * 1 - 1 \/ k = 2 * 1 \/ k = 2 * 2 - 1 \/ k = 2 * 2
            \/ k = 2 * 3 - 1 \/ k = 2 * 3 \/ k = 2 * 4 - 1 \/ k = 2 * 4 \/ k = 2 * 5 - 1
        BY <3>1
      <4>2. /\ 1 \in 1 .. 5 /\ 2 \in 1 .. 5 /\ 3 \in 1 .. 5 /\ 4 \in 1 .. 5 /\ 5 \in 1 .. 5
            /\ 1 \in 1 .. 4 /\ 2 \in 1 .. 4 /\ 3 \in 1 .. 4 /\ 4 \in 1 .. 4
        OBVIOUS
      <4>3. \/ \E j \in 1 .. 5 : k = 2 * j - 1
            \/ \E j \in 1 .. 4 : k = 2 * j
        BY <4>1, <4>2
      <4> QED BY <4>3
    <3>2. CASE k \in 10 .. 9 + N
      <4>1. k - 9 \in 1 .. N /\ k = 9 + (k - 9)
        BY <1>1, <3>2
      <4> QED BY <4>1
    <3>3. k \in 1 .. 9 \/ k \in 10 .. 9 + N \/ k = 10 + N
      BY <1>1, <2>2
    <3> QED BY <3>1, <3>2, <3>3
  <2> HIDE DEF kind
  <2>8. ASSUME NEW i \in 1 .. 4 PROVE kind = Sections[i] <=> k = 2 * i
    <3>1. Sections[i] \notin {"heading", "mitigations", "closing"}
      BY SectionNames
    <3>2. \A j \in 1 .. 4 : Sections[j] = Sections[i] => j = i
      <4>1. ASSUME NEW j \in 1 .. 4, Sections[j] = Sections[i] PROVE j = i
        <5>1. /\ j = 1 \/ j = 2 \/ j = 3 \/ j = 4
              /\ i = 1 \/ i = 2 \/ i = 3 \/ i = 4
          OBVIOUS
        <5> QED BY <4>1, <5>1, SectionNames
      <4> QED BY <4>1
    <3>3. ASSUME kind = Sections[i] PROVE k = 2 * i
      <4>1. PICK j \in 1 .. 4 : k = 2 * j
        BY <2>3, <2>5, <2>6, <2>7, <3>1, <3>3
      <4>2. j = i
        BY <2>4, <3>2, <3>3, <4>1
      <4> QED BY <4>1, <4>2
    <3> QED BY <2>4, <3>3
  <2>9. kind = "mitigations" <=> k \in 10 .. 9 + N
    <3>1. ASSUME kind = "mitigations" PROVE k \in 10 .. 9 + N
      <4>1. \A j \in 1 .. 4 : Sections[j] # "mitigations"
        BY SectionNames
      <4>2. PICK t \in 1 .. N : k = 9 + t
        BY <2>3, <2>4, <2>6, <2>7, <3>1, <4>1
      <4> QED BY <1>1, <4>2
    <3>2. ASSUME k \in 10 .. 9 + N PROVE kind = "mitigations"
      <4>1. k - 9 \in 1 .. N /\ k = 9 + (k - 9)
        BY <1>1, <3>2
      <4> QED BY <2>5, <4>1
    <3> QED BY <3>1, <3>2
  <2> QED BY <2>8, <2>9 DEF kind
<1> QED BY <1>2

(* A table of the first four sections, found by its heading, has the rows  *)
(* of every name.                                                          *)
LEMMA TablePrinted ==
  ASSUME IInv, NEW i \in 1 .. 4
  PROVE  /\ Printed(Sections[i])
              = IF 2 * i \in DOMAIN stdout THEN {stdout[2 * i].rows} ELSE {}
         /\ \A table \in Printed(Sections[i]) :
              /\ 2 * i \in DOMAIN stdout /\ table = stdout[2 * i].rows
              /\ RowsFor(Sections[i], table, N)
              /\ i = 1 => TailsKept(table)
<1>1. Printed(Sections[i]) = {stdout[k].rows : k \in {j \in DOMAIN stdout :
                                                        stdout[j].kind = Sections[i]}}
  BY DEF Printed, Range
<1>2. \A j \in DOMAIN stdout : stdout[j].kind = Sections[i] <=> j = 2 * i
  BY LinesByKind
<1>3. Printed(Sections[i]) = IF 2 * i \in DOMAIN stdout THEN {stdout[2 * i].rows} ELSE {}
  BY <1>1, <1>2
<1>4. ASSUME NEW table \in Printed(Sections[i])
      PROVE  /\ 2 * i \in DOMAIN stdout /\ table = stdout[2 * i].rows
             /\ RowsFor(Sections[i], table, N)
             /\ i = 1 => TailsKept(table)
  <2>1. 2 * i \in DOMAIN stdout /\ table = stdout[2 * i].rows
    BY <1>3, <1>4
  <2>2. LineRight(2 * i)
    BY <2>1 DEF IInv, LinesPrinted
  <2>3. RowsFor(Sections[i], table, N)
    BY <2>1, <2>2 DEF LineRight
  <2>4. i = 1 => TailsKept(table)
    BY <2>1, <2>2 DEF LineRight
  <2> QED BY <2>1, <2>3, <2>4
<1> QED BY <1>3, <1>4

(* A name's occurrences, all of them.                                      *)
LEMMA AllTimes ==
  ASSUME flags \in Flags, NEW x
  PROVE  TimesUpTo(x, N) = Times(x)
BY FlagsShape DEF TimesUpTo, Times

(* The mitigation tables come after the other lines, in the names' order.  *)
LEMMA MitigationPlaces ==
  ASSUME IInv
  PROVE  /\ MitigationTables = {k \in 10 .. 9 + N : k <= Len(stdout)}
         /\ \A k \in MitigationTables :
              /\ Cardinality({j \in MitigationTables : j <= k}) = k - 9
              /\ stdout[k] = MitigationsOf(k - 9) /\ k - 9 \in 1 .. N
              /\ Len(stdout) > 1
         /\ Len(stdout) = 10 + N => Cardinality(MitigationTables) = N
<1>1. N \in Nat \ {0} /\ Len(stdout) \in Nat /\ DOMAIN stdout = 1 .. Len(stdout)
  BY StateFacts
<1>2. MitigationTables = {k \in 10 .. 9 + N : k <= Len(stdout)}
  <2>1. MitigationTables = {k \in DOMAIN stdout : k \in 10 .. 9 + N}
    BY LinesByKind DEF MitigationTables
  <2> QED BY <1>1, <2>1
<1>3. ASSUME NEW k \in MitigationTables
      PROVE  /\ Cardinality({j \in MitigationTables : j <= k}) = k - 9
             /\ stdout[k] = MitigationsOf(k - 9) /\ k - 9 \in 1 .. N
             /\ Len(stdout) > 1
  <2>1. k \in 10 .. 9 + N /\ k <= Len(stdout)
    BY <1>2
  <2>2. {j \in MitigationTables : j <= k} = 10 .. k
    BY <1>1, <1>2, <2>1
  <2>3. Cardinality(10 .. k) = k - 9
    <3>1. Cardinality(10 .. k) = IF 10 > k THEN 0 ELSE k - 10 + 1
      BY <1>1, <2>1, FS_Interval
    <3> QED BY <1>1, <2>1, <3>1
  <2>4. LineRight(k)
    <3>1. k \in DOMAIN stdout
      BY <1>1, <2>1
    <3> QED BY <3>1 DEF IInv, LinesPrinted
  <2>5. k - 9 \in 1 .. N /\ k = 9 + (k - 9) /\ Len(stdout) > 1
    BY <1>1, <2>1
  <2>6. stdout[k] = MitigationsOf(k - 9)
    BY <2>4, <2>5 DEF LineRight
  <2> QED BY <2>2, <2>3, <2>5, <2>6
<1>4. ASSUME Len(stdout) = 10 + N PROVE Cardinality(MitigationTables) = N
  <2>1. MitigationTables = 10 .. 9 + N
    BY <1>1, <1>2, <1>4
  <2>2. Cardinality(10 .. 9 + N) = IF 10 > 9 + N THEN 0 ELSE 9 + N - 10 + 1
    BY <1>1, FS_Interval
  <2> QED BY <1>1, <2>1, <2>2
<1> QED BY <1>2, <1>3, <1>4

(* What has been printed is whole (reportMigration, main.go): a table has  *)
(* all the rows of all the names or is not there, and the sections end in  *)
(* their order.                                                            *)
LEMMA WholeTables == IInv => TablesAreWholeOrAbsent
<1> SUFFICES ASSUME IInv PROVE TablesAreWholeOrAbsent
  OBVIOUS
<1>1. /\ N \in Nat \ {0} /\ Len(stdout) \in Nat /\ DOMAIN stdout = 1 .. Len(stdout)
      /\ flags \in Flags
  BY StateFacts
<1>2. ASSUME NEW section \in Range(Sections) \ {"mitigations"}, NEW table \in Printed(section)
      PROVE  /\ \A x \in Range(flags.schemes) :
                  Cardinality(RowsOf(table, x)) = Times(x) * Size(section, x)
             /\ \A k \in DOMAIN table : table[k].scheme \in Range(flags.schemes)
  <2>1. PICK i \in 1 .. 4 : section = Sections[i]
    <3>1. section = Sections[1] \/ section = Sections[2] \/ section = Sections[3]
          \/ section = Sections[4]
      BY SectionNames
    <3> QED BY <3>1
  <2>2. RowsFor(section, table, N)
    BY <2>1, <1>2, TablePrinted
  <2> QED BY <1>1, <2>2, AllTimes DEF RowsFor, RowRight
<1>3. ASSUME NEW k \in 1 .. 4, Printed(Sections[k]) = {} PROVE Printed(Sections[k + 1]) = {}
  <2>1. 2 * k \notin DOMAIN stdout
    BY <1>3, TablePrinted
  <2>2. CASE k \in 1 .. 3
    <3>1. k + 1 \in 1 .. 4
      BY <2>2
    <3>2. 2 * (k + 1) \notin DOMAIN stdout
      BY <1>1, <2>1
    <3> QED BY <3>1, <3>2, TablePrinted
  <2>3. CASE k = 4
    <3>1. MitigationTables = {}
      <4>1. ~(10 <= Len(stdout))
        BY <1>1, <2>1, <2>3
      <4>2. \A j \in 10 .. 9 + N : ~(j <= Len(stdout))
        BY <1>1, <4>1
      <4>3. MitigationTables = {j \in 10 .. 9 + N : j <= Len(stdout)}
        BY MitigationPlaces
      <4> QED BY <4>2, <4>3
    <3>2. Printed("mitigations") = {}
      BY <3>1 DEF Printed, MitigationTables, Range
    <3> QED BY <2>3, <3>2, SectionNames
  <2> QED BY <2>2, <2>3
<1>4. Range(flags.schemes) \subseteq SchemeNames \/ Printed("cpu") = {}
  <2>1. CASE 2 \in DOMAIN stdout
    <3>1. Len(stdout) > 1
      BY <1>1, <2>1
    <3> QED BY <3>1 DEF IInv, NamesLookedUp
  <2>2. CASE 2 \notin DOMAIN stdout
    <3>1. 1 \in 1 .. 4 /\ 2 * 1 = 2
      OBVIOUS
    <3>2. Printed(Sections[1]) = {}
      BY <2>2, <3>1, TablePrinted
    <3> QED BY <3>2, SectionNames
  <2> QED BY <2>1, <2>2
<1>5. ASSUME pc = "exit 0"
      PROVE  /\ \A section \in Range(Sections) : Printed(section) # {}
             /\ Cardinality(MitigationTables) = Len(flags.schemes)
  <2>1. Len(stdout) = 10 + N
    BY <1>5 DEF IInv, LinesPrinted
  <2>2. ASSUME NEW i \in 1 .. 4 PROVE Printed(Sections[i]) # {}
    <3>1. 2 * i \in DOMAIN stdout
      BY <1>1, <2>1
    <3> QED BY <3>1, TablePrinted
  <2>3. Printed("mitigations") # {}
    <3>1. 10 \in DOMAIN stdout /\ 10 \in 10 .. 9 + N
      BY <1>1, <2>1
    <3>2. stdout[10].kind = "mitigations"
      BY <3>1, LinesByKind
    <3> QED BY <3>1, <3>2 DEF Printed, Range
  <2>4. ASSUME NEW section \in Range(Sections) PROVE Printed(section) # {}
    <3>1. \/ section = Sections[1] \/ section = Sections[2] \/ section = Sections[3]
          \/ section = Sections[4] \/ section = "mitigations"
      BY SectionNames
    <3> QED BY <2>2, <2>3, <3>1
  <2> QED BY <2>1, <2>4, MitigationPlaces DEF N
<1>6. pc = "panic" => Iterations < MostKeys
  BY DEF IInv, SamplesTaken
<1> QED BY <1>2, <1>3, <1>4, <1>5, <1>6 DEF TablesAreWholeOrAbsent

(* Every table that reportMigration (main.go) prints is whole, and none is *)
(* missing before one that is there.                                       *)
THEOREM MigrationTablesAreWhole == Spec => []TablesAreWholeOrAbsent
BY WholeTables, MigrationInvariant, PTL

(* The percentiles of a profile (profileFrom, cputime.go) are those of the *)
(* samples of all its keys.                                                *)
LEMMA PercentilesHold == IInv => PercentilesRankAllKeys
<1> SUFFICES ASSUME IInv, pc = "cpu", signs # <<>>
             PROVE  LET row == rows[Len(rows)]
                    IN  /\ AtRank(signs, row.signP50, Median)
                        /\ AtRank(signs, row.signP95, Tail95)
                        /\ AtRank(verifies, row.verifyP50, Median)
                        /\ AtRank(verifies, row.verifyP95, Tail95)
                        /\ \A k \in DOMAIN signs : signs[k] \in row.signMin .. row.signMax
                        /\ row.signP50 > 0 => SignSpread(row)[1] >= SignSpread(row)[2]
  BY DEF PercentilesRankAllKeys
<1>1. /\ Durations \subseteq Nat /\ signs \in Seq(Durations) /\ verifies \in Seq(Durations)
      /\ Len(signs) = Len(verifies)
  BY StateFacts
<1>2. PICK x \in Implemented :
        rows[Len(rows)] = profileFrom(x, sortDurations(signs), sortDurations(verifies))
  BY DEF IInv, SamplesTaken
<1>3. verifies # <<>>
  <2>1. Len(signs) # 0
    BY <1>1, EmptySeq
  <2>2. Len(<<>>) = 0
    OBVIOUS
  <2> QED BY <1>1, <2>1, <2>2
<1> DEFINE row == rows[Len(rows)]
<1>4. row = profileFrom(x, sortDurations(signs), sortDurations(verifies))
  BY <1>2
<1> HIDE DEF row
<1>5. /\ AtRank(signs, row.signP50, Median) /\ AtRank(signs, row.signP95, Tail95)
      /\ AtRank(verifies, row.verifyP50, Median) /\ AtRank(verifies, row.verifyP95, Tail95)
      /\ \A k \in DOMAIN signs : signs[k] \in row.signMin .. row.signMax
      /\ row.signP50 > 0 => SignSpread(row)[1] >= SignSpread(row)[2]
  BY <1>1, <1>3, <1>4, ProfileOfSamples
<1> QED BY <1>5 DEF row

(* Every line of the first table ranks the samples of all the keys that    *)
(* SampleProfiles (cputime.go) drew for it.                                *)
THEOREM PercentilesAreOfAllKeys == Spec => []PercentilesRankAllKeys
BY PercentilesHold, MigrationInvariant, PTL

(* A line of the round table is sized on the last profile of its scheme.   *)
LEMMA RoundsHold == IInv => RoundsRestOnTheTail
<1> SUFFICES ASSUME IInv, NEW timed \in Printed("cpu"), NEW table \in Printed("round"),
                    NEW k \in DOMAIN table
             PROVE  \E last \in RowsOf(timed, table[k].scheme) :
                      /\ \A j \in RowsOf(timed, table[k].scheme) : j <= last
                      /\ table[k].verdict.verify = timed[last].verifyP95
  BY DEF RoundsRestOnTheTail
<1> DEFINE x == table[k].scheme
<1>1. TailsKept(timed) /\ RowsFor("round", table, N)
  <2>1. Sections[1] = "cpu" /\ Sections[2] = "round" /\ 1 \in 1 .. 4 /\ 2 \in 1 .. 4
    BY SectionNames
  <2>2. TailsKept(timed)
    BY <2>1, TablePrinted
  <2>3. RowsFor("round", table, N)
    BY <2>1, TablePrinted
  <2> QED BY <2>2, <2>3
<1>2. PICK n \in Range(flags.counts), r \in Range(flags.rounds) :
        /\ x \in DOMAIN verifyFor
        /\ table[k].verdict = AssessRound(flags.arch, n, r, verifyFor[x], flags.cores)
  BY <1>1 DEF RowsFor, RowRight
<1>3. verifyFor[x] \in Durations /\ Durations \subseteq Nat /\ flags \in Flags
  BY <1>2, StateFacts DEF IInv, TypeOK
<1>4. table[k].verdict.verify = verifyFor[x]
  <2> DEFINE d == verifyFor[x]
             w == AssessRound(flags.arch, n, r, d, flags.cores)
  <2>1. d \in Durations /\ table[k].verdict = w
    BY <1>2, <1>3
  <2> HIDE DEF d, x
  <2>2. /\ w.validators = n /\ w.round = r /\ w.verify = d
        /\ w.withCores = Quo(Wrap(VotesOfOthers(n) * d), AtLeastOne(flags.cores))
        /\ w.share = <<w.withCores, FloatToInt(flags.arch, <<r[1] * Second, r[2]>>)>>
        /\ w.fits <=> w.withCores < FloatToInt(flags.arch, <<r[1] * Second, r[2]>>)
    BY <1>3, <2>1, VerdictType
  <2> HIDE DEF w
  <2> QED BY <2>1, <2>2 DEF d
<1>5. TailKept(timed, x, verifyFor[x])
  BY <1>1, <1>2 DEF TailsKept
<1> QED BY <1>4, <1>5 DEF TailKept

(* Every round (AssessRound, cputime.go) is sized on the 95th percentile   *)
(* that the first table shows for the scheme.                              *)
THEOREM RoundsAreSizedOnTheTail == Spec => []RoundsRestOnTheTail
BY RoundsHold, MigrationInvariant, PTL

(* The verdict is that of exact arithmetic where the figures fit the word. *)
LEMMA VerdictExact ==
  ASSUME flags \in Flags, NEW n \in Nat \ {0}, NEW d \in Nat, NEW a \in Nat,
         NEW b \in Nat \ {0}, 2 * (n - 1) * d <= MaxInt,
         (a * Second) \div b <= MaxInt
  PROVE  LET time  == Quo(Wrap(VotesOfOthers(n) * d), AtLeastOne(flags.cores))
             round == FloatToInt(flags.arch, <<a * Second, b>>)
         IN  /\ round = (a * Second) \div b
             /\ time < round <=> 2 * (n - 1) * d < round * AtLeastOne(flags.cores)
<1> DEFINE c    == AtLeastOne(flags.cores)
           work == 2 * (n - 1) * d
           e    == a * Second
           q    == e \div b
<1>1. /\ c \in Nat \ {0} /\ e \in Nat /\ work \in Nat /\ MaxInt \in Nat
  <2>1. c \in Nat \ {0}
    BY FlagsShape DEF AtLeastOne
  <2>2. Second \in Nat /\ MaxInt \in Nat
    BY CpuTimeAssumption, MaxIntAssumption
  <2>3. 2 * (n - 1) \in Nat
    OBVIOUS
  <2> QED BY <2>1, <2>2, <2>3
<1>2. VotesOfOthers(n) * d = work
  <2>1. CASE d = 0
    <3>1. VotesOfOthers(n) \in Int
      <4>1. Wrap(2 * (n - 1)) \in Int
        BY WrapInWord, MaxIntAssumption DEF Int64, MinInt
      <4> QED BY <4>1 DEF VotesOfOthers
    <3> QED BY <2>1, <3>1
  <2>2. CASE d # 0
    <3> DEFINE m == 2 * (n - 1)
    <3>1. m \in Nat /\ m * d <= MaxInt /\ work = m * d
      OBVIOUS
    <3> HIDE DEF m
    <3>2. m <= m * d
      <4>1. 1 <= d /\ m * 1 <= m * d
        BY <2>2, <3>1
      <4> QED BY <3>1, <4>1
    <3>3. m \in 0 .. MaxInt
      BY <1>1, <3>1, <3>2
    <3>4. m \in Int64
      BY <1>1, <3>3 DEF Int64, MinInt
    <3>5. Wrap(m) = m
      BY <3>4, WrapIdentity
    <3>6. VotesOfOthers(n) = m
      BY <3>1, <3>5 DEF VotesOfOthers, m
    <3> QED BY <3>1, <3>6
  <2> QED BY <2>1, <2>2
<1>3. q \in 0 .. MaxInt
  <2> HIDE DEF e
  <2>1. q \in Int
    BY <1>1, DivBounds
  <2>2. 0 <= q <=> 0 * b <= e
    BY <1>1, DivisionInverts
  <2>3. q <= MaxInt
    BY DEF e
  <2> HIDE DEF q
  <2> QED BY <1>1, <2>1, <2>2, <2>3
<1>4. FloatToInt(flags.arch, <<e, b>>) = q
  <2> HIDE DEF e
  <2>1. Quo(e, b) = q
    BY <1>1, QuoOfNaturals
  <2> HIDE DEF q
  <2>2. q \in Int64
    BY <1>1, <1>3 DEF Int64, MinInt
  <2> QED BY <2>1, <2>2 DEF FloatToInt
<1>5. Quo(Wrap(VotesOfOthers(n) * d), c) = work \div c
  <2>1. work \in Int64 /\ Wrap(work) = work
    <3> HIDE DEF work
    <3>1. work <= MaxInt
      BY DEF work
    <3>2. work \in Int64
      BY <1>1, <3>1 DEF Int64, MinInt
    <3> QED BY <3>2, WrapIdentity
  <2> HIDE DEF work, c
  <2> QED BY <1>1, <1>2, <2>1, QuoOfNaturals
<1> HIDE DEF c, work, q, e
<1>6. q <= work \div c <=> q * c <= work
  BY <1>1, <1>3, DivisionInverts
<1>7. work \div c \in Int
  BY <1>1, DivBounds
<1>8. work \div c < q <=> work < q * c
  <2> DEFINE t == work \div c
  <2>1. q \in Nat /\ q * c \in Nat
    BY <1>1, <1>3
  <2>2. t \in Int /\ (q <= t <=> q * c <= work)
    BY <1>6, <1>7
  <2> HIDE DEF t
  <2>3. t < q <=> work < q * c
    BY <1>1, <2>1, <2>2
  <2> QED BY <2>3 DEF t
<1>9. /\ FloatToInt(flags.arch, <<e, b>>) = q
      /\ Quo(Wrap(VotesOfOthers(n) * d), c) < q <=> work < q * c
  BY <1>4, <1>5, <1>8
<1> QED BY <1>9 DEF c, work, q, e

(* So are the lines of the round table.                                    *)
LEMMA VerdictsHold == IInv => VerdictsAreExact
<1> SUFFICES ASSUME IInv, NEW table \in Printed("round"), NEW k \in DOMAIN table,
                    table[k].verdict.round[2] > 0,
                    2 * (table[k].verdict.validators - 1) * table[k].verdict.verify <= MaxInt,
                    (table[k].verdict.round[1] * Second) \div table[k].verdict.round[2] <= MaxInt
             PROVE  LET v     == table[k].verdict
                        work  == 2 * (v.validators - 1) * v.verify
                        round == (v.round[1] * Second) \div v.round[2]
                    IN  /\ v.fits <=> work < round * AtLeastOne(flags.cores)
                        /\ round > 0 => (v.fits <=> v.share[1] < v.share[2])
  BY DEF VerdictsAreExact
<1> DEFINE v == table[k].verdict
           x == table[k].scheme
<1>1. RowsFor("round", table, N)
  <2>1. Sections[2] = "round" /\ 2 \in 1 .. 4
    BY SectionNames
  <2> QED BY <2>1, TablePrinted
<1>2. PICK n \in Range(flags.counts), r \in Range(flags.rounds) :
        /\ x \in DOMAIN verifyFor
        /\ v = AssessRound(flags.arch, n, r, verifyFor[x], flags.cores)
  BY <1>1 DEF RowsFor, RowRight
<1> DEFINE d == verifyFor[x]
<1>3. d \in Durations /\ d \in Nat /\ Durations \subseteq Nat /\ flags \in Flags
  BY <1>2, StateFacts DEF IInv, TypeOK
<1>4. n \in Nat \ {0} /\ r[1] \in Nat /\ r[2] \in Nat
  BY <1>3, FlagsShape
<1> HIDE DEF d, x
<1>5. /\ v.validators = n /\ v.round = r /\ v.verify = d
      /\ v.withCores = Quo(Wrap(VotesOfOthers(n) * d), AtLeastOne(flags.cores))
      /\ v.share = <<v.withCores, FloatToInt(flags.arch, <<r[1] * Second, r[2]>>)>>
      /\ v.fits <=> v.withCores < FloatToInt(flags.arch, <<r[1] * Second, r[2]>>)
  <2> DEFINE w == AssessRound(flags.arch, n, r, d, flags.cores)
  <2>1. /\ w.validators = n /\ w.round = r /\ w.verify = d
        /\ w.withCores = Quo(Wrap(VotesOfOthers(n) * d), AtLeastOne(flags.cores))
        /\ w.share = <<w.withCores, FloatToInt(flags.arch, <<r[1] * Second, r[2]>>)>>
        /\ w.fits <=> w.withCores < FloatToInt(flags.arch, <<r[1] * Second, r[2]>>)
    BY <1>3, VerdictType
  <2>2. v = w
    BY <1>2 DEF d
  <2> HIDE DEF w, v
  <2> QED BY <2>1, <2>2
<1>6. v.round[2] > 0 /\ 2 * (v.validators - 1) * v.verify <= MaxInt
      /\ (v.round[1] * Second) \div v.round[2] <= MaxInt
  OBVIOUS
<1> HIDE DEF v
<1>7. r[2] \in Nat \ {0} /\ 2 * (n - 1) * d <= MaxInt /\ (r[1] * Second) \div r[2] <= MaxInt
  BY <1>4, <1>5, <1>6
<1> DEFINE a == r[1]
           b == r[2]
           time  == Quo(Wrap(VotesOfOthers(n) * d), AtLeastOne(flags.cores))
           round == FloatToInt(flags.arch, <<a * Second, b>>)
<1>8. /\ round = (a * Second) \div b
      /\ time < round <=> 2 * (n - 1) * d < round * AtLeastOne(flags.cores)
  <2>1. a \in Nat /\ b \in Nat \ {0} /\ 2 * (n - 1) * d <= MaxInt /\ (a * Second) \div b <= MaxInt
    BY <1>4, <1>7
  <2> HIDE DEF a, b
  <2> QED BY <1>3, <1>4, <2>1, VerdictExact
<1>9. /\ v.withCores = time /\ v.share = <<time, round>> /\ (v.fits <=> time < round)
  BY <1>5
<1>10. (v.round[1] * Second) \div v.round[2] = round
  BY <1>5, <1>8
<1> HIDE DEF time, round
<1>11. v.fits <=> 2 * (n - 1) * d < round * AtLeastOne(flags.cores)
  BY <1>8, <1>9
<1>12. v.fits <=> v.share[1] < v.share[2]
  BY <1>9
<1>13. v.fits <=> 2 * (v.validators - 1) * v.verify
                    < ((v.round[1] * Second) \div v.round[2]) * AtLeastOne(flags.cores)
  BY <1>5, <1>10, <1>11
<1> QED BY <1>12, <1>13 DEF v

(* What AssessRound (cputime.go) prints is the verdict of exact arithmetic *)
(* for every word, unless the work or the round is beyond it.              *)
THEOREM VerdictsAreThoseOfExactArithmetic == Spec => []VerdictsAreExact
BY VerdictsHold, MigrationInvariant, PTL

(* The share that is not suppressed, a float64 between 0 and 1.            *)
Keep  == LET s == ClampFraction(flags.suppression) IN Rounded(s[2] - s[1])
Whole == ClampFraction(flags.suppression)[2]

(* One is a float64, so rounding the share does not take it beyond.        *)
LEMMA KeepWithinWhole ==
  ASSUME flags \in Flags, flags.suppression # <<0, 0>>
  PROVE  /\ Whole \in Nat \ {0} /\ Keep \in 0 .. Whole
         /\ \E k \in Nat : Whole = spacing[k]
<1> DEFINE f == flags.suppression
           s == ClampFraction(f)
           a == s[1]
           b == s[2]
<1>1. f \in Float64s /\ f \in Fractions
  BY FlagsShape DEF Float64s
<1>2. b \in Nat \ {0} /\ a \in 0 .. b
  <2>1. b \in Nat /\ b > 0 /\ a \in 0 .. b
    BY <1>1, ClampType
  <2> HIDE DEF a, b
  <2> QED BY <2>1
<1>3. PICK k \in Nat : b = spacing[k]
  <2>1. spacing[0] = 1
    BY SpacingBounds, PrecisionAssumption
  <2>2. s \in {<<0, 1>>, <<1, 1>>, f}
    BY DEF ClampFraction
  <2>3. CASE s = f
    <3>1. f[2] = b /\ b # 0
      BY <1>2, <2>3
    <3>2. PICK j \in 0 .. f[2] : f[2] = spacing[Precision * j]
      BY <1>1, <3>1 DEF Float64s
    <3> HIDE DEF a, b, s
    <3>3. Precision * j \in Nat
      BY <1>2, <3>1, <3>2, PrecisionAssumption
    <3> QED BY <3>1, <3>2, <3>3
  <2>4. CASE s # f
    <3>1. b = 1
      BY <2>2, <2>4
    <3> QED BY <2>1, <3>1
  <2> QED BY <2>3, <2>4
<1>4. Whole = b /\ Keep = Rounded(b - a)
  BY DEF Whole, Keep
<1> HIDE DEF a, b, s, f
<1>5. Rounded(b) = b
  <2>1. Held(1 * spacing[k])
    BY SmallIsHeld, ScaledIsHeld, PrecisionAssumption
  <2>2. 1 * spacing[k] = b
    BY <1>2, <1>3
  <2> QED BY <1>2, <2>1, <2>2, RoundedIsNat
<1>6. Keep \in Nat /\ Keep <= Rounded(b)
  <2>1. b - a \in Nat /\ b - a <= b /\ b \in Nat
    BY <1>2
  <2> QED BY <1>4, <2>1, RoundedIsNat, RoundedGrows
<1> QED BY <1>2, <1>3, <1>4, <1>5, <1>6

(* What the conversion to an integer is given.                             *)
Shared(u) == Rounded(Rounded(u) * Keep)

(* The product of two float64 values is not rounded beyond the larger, and *)
(* its conversion to an integer only takes the fraction away.              *)
LEMMA ModelledWithin ==
  ASSUME flags \in Flags, flags.suppression # <<0, 0>>, NEW u \in Nat, Rounded(u) <= MaxInt
  PROVE  /\ Shared(u) \in Nat
         /\ Modelled(u) = Shared(u) \div Whole
         /\ Modelled(u) \in 0 .. Rounded(u)
<1> DEFINE r == Rounded(u)
           b == Whole
           e == Shared(u)
           q == e \div b
<1>1. r \in Nat /\ Held(r) /\ r <= MaxInt /\ MaxInt \in Nat
  BY RoundedIsNat, RoundedIsHeld, MaxIntAssumption
<1>2. b \in Nat \ {0} /\ Keep \in 0 .. b /\ \E k \in Nat : b = spacing[k]
  BY KeepWithinWhole
<1>3. e = Rounded(r * Keep)
  BY DEF Shared
<1> HIDE DEF r, b, e
<1>4. r * Keep \in Nat /\ r * b \in Nat /\ r * Keep <= r * b
  <2>1. Keep * r <= b * r
    BY <1>1, <1>2, ProductMonotone
  <2> QED BY <1>1, <1>2, <2>1
<1>5. Rounded(r * b) = r * b
  <2>1. PICK k \in Nat : b = spacing[k]
    BY <1>2
  <2>2. Held(r * b)
    BY <1>1, <2>1, ScaledIsHeld
  <2> QED BY <1>4, <2>2, RoundedIsNat
<1>6. e \in Nat /\ e <= r * b
  <2>1. e \in Nat
    BY <1>3, <1>4, RoundedIsNat
  <2>2. Rounded(r * Keep) <= Rounded(r * b)
    BY <1>4, RoundedGrows
  <2> QED BY <1>3, <1>5, <2>1, <2>2
<1>7. q \in 0 .. r
  <2>1. q \in Int
    BY <1>2, <1>6, DivBounds
  <2>2. 0 <= q <=> 0 * b <= e
    BY <1>2, <1>6, DivisionInverts
  <2>3. r + 1 <= q <=> (r + 1) * b <= e
    BY <1>1, <1>2, <1>6, DivisionInverts
  <2>4. ~((r + 1) * b <= e)
    <3>1. (r + 1) * b = r * b + b
      BY <1>1, <1>2
    <3> QED BY <1>2, <1>4, <1>6, <3>1
  <2> HIDE DEF q
  <2> QED BY <1>1, <1>2, <1>6, <2>1, <2>2, <2>3, <2>4
<1>8. FloatToInt(flags.arch, <<e, b>>) = q
  <2>1. Quo(e, b) = q
    BY <1>2, <1>6, QuoOfNaturals
  <2> HIDE DEF q
  <2>2. q \in Int64
    BY <1>1, <1>7 DEF Int64, MinInt
  <2> QED BY <1>2, <2>1, <2>2 DEF FloatToInt
<1>9. Modelled(u) = FloatToInt(flags.arch, <<e, b>>)
  BY DEF Modelled, e, b, Shared, Whole, Keep
<1> HIDE DEF q
<1>10. e \in Nat /\ Modelled(u) = q /\ q \in 0 .. r
  BY <1>6, <1>7, <1>8, <1>9
<1> QED BY <1>10 DEF e, r, q, b

(* A larger bound has a larger share.                                      *)
LEMMA ModelledGrows ==
  ASSUME flags \in Flags, flags.suppression # <<0, 0>>, NEW u \in Nat, NEW v \in Nat, u <= v,
         Rounded(u) <= MaxInt, Rounded(v) <= MaxInt
  PROVE  Modelled(u) <= Modelled(v)
<1> DEFINE x == Shared(u)
           y == Shared(v)
           b == Whole
<1>1. b \in Nat \ {0} /\ Keep \in Nat
  BY KeepWithinWhole
<1>2. x \in Nat /\ y \in Nat /\ Modelled(u) = x \div b /\ Modelled(v) = y \div b
  BY ModelledWithin
<1>3. x <= y
  <2>1. Rounded(u) \in Nat /\ Rounded(v) \in Nat /\ Rounded(u) <= Rounded(v)
    BY RoundedIsNat, RoundedGrows
  <2> DEFINE j == Rounded(u) * Keep
             k == Rounded(v) * Keep
  <2>2. j \in Nat /\ k \in Nat /\ j <= k
    BY <1>1, <2>1, ProductMonotone
  <2>3. x = Rounded(j) /\ y = Rounded(k)
    BY DEF Shared
  <2> HIDE DEF j, k
  <2> QED BY <2>2, <2>3, RoundedGrows
<1> HIDE DEF x, y, b
<1>4. x \div b \in Int /\ (x \div b) * b <= x
  BY <1>1, <1>2, DivBounds
<1>5. (x \div b) * b <= y
  BY <1>1, <1>2, <1>3, <1>4
<1>6. x \div b <= y \div b
  BY <1>1, <1>2, <1>4, <1>5, DivisionInverts
<1> QED BY <1>2, <1>6

(* A gossip line's two figures, where the bound is exact.                  *)
LEMMA ExactGossipLine ==
  ASSUME flags \in Flags, flags.suppression # <<0, 0>>, NEW x \in SchemeNames,
         NEW n \in Range(flags.counts), NEW p \in Range(flags.peers),
         n * Cost(x) * p <= MaxInt, Rounded(n * Cost(x) * p) <= MaxInt
  PROVE  LET g == GossipOf(x, n, p)
         IN  /\ g.upper = n * Cost(x) * p /\ g.upper \in Nat /\ Rounded(g.upper) <= MaxInt
             /\ g.modelled = Modelled(g.upper)
<1> DEFINE bound == n * Cost(x) * p
<1>1. n \in Nat /\ p \in Nat /\ Cost(x) \in Nat /\ MaxInt \in Nat
  BY FlagsShape, CostOfMeasure, MaxIntAssumption
<1>2. bound \in 0 .. MaxInt
  <2> DEFINE m == n * Cost(x)
  <2>1. m \in Nat
    BY <1>1
  <2>2. m * p \in Nat
    <3> HIDE DEF m
    <3> QED BY <1>1, <2>1
  <2> QED BY <1>1, <2>2
<1>3. Wrap(bound) = bound
  <2> HIDE DEF bound
  <2>1. bound \in Int64
    BY <1>1, <1>2 DEF Int64, MinInt
  <2> QED BY <2>1, WrapIdentity
<1>4. GossipOf(x, n, p)
        = [scheme |-> x, validators |-> n, peers |-> p, upper |-> bound,
           modelled |-> Modelled(bound)]
  BY <1>3 DEF GossipOf
<1>5. Rounded(bound) <= MaxInt
  OBVIOUS
<1> HIDE DEF bound
<1>6. bound \in Nat
  BY <1>1, <1>2
<1> DEFINE g == GossipOf(x, n, p)
<1>7. /\ g.upper = bound /\ g.upper \in Nat /\ Rounded(g.upper) <= MaxInt
      /\ g.modelled = Modelled(g.upper)
  BY <1>4, <1>5, <1>6
<1> HIDE DEF g
<1> QED BY <1>7 DEF g, bound

(* The gossip table does not show less for more.                           *)
LEMMA GossipHolds == IInv => GossipWithinBound
<1> SUFFICES ASSUME IInv, flags.suppression # <<0, 0>>, NEW table \in Printed("gossip"),
                    NEW j \in DOMAIN table, NEW k \in DOMAIN table,
                    ExactGossip(table[j]), ExactGossip(table[k])
             PROVE  LET g == table[j]
                        h == table[k]
                    IN  /\ g.upper = Traffic(g)
                        /\ g.modelled \in 0 .. Rounded(g.upper)
                        /\ g.upper <= Precision => g.modelled <= g.upper
                        /\ g.scheme = h.scheme /\ g.validators <= h.validators
                             /\ g.peers <= h.peers
                           => g.upper <= h.upper /\ g.modelled <= h.modelled
  BY DEF GossipWithinBound
<1>1. RowsFor("gossip", table, N) /\ flags \in Flags
  <2>1. Sections[4] = "gossip" /\ 4 \in 1 .. 4
    BY SectionNames
  <2> QED BY <2>1, TablePrinted, StateFacts
<1>2. ASSUME NEW i \in DOMAIN table, ExactGossip(table[i])
      PROVE  /\ table[i].scheme \in SchemeNames
             /\ table[i].validators \in Nat /\ table[i].peers \in Nat
             /\ table[i].upper
                  = table[i].validators * Cost(table[i].scheme) * table[i].peers
             /\ table[i].upper = Traffic(table[i])
             /\ table[i].upper \in Nat /\ Rounded(table[i].upper) <= MaxInt
             /\ table[i].modelled = Modelled(table[i].upper)
  <2> DEFINE g == table[i]
  <2>1. PICK n \in Range(flags.counts), p \in Range(flags.peers) :
          g.scheme \in SchemeNames /\ g = GossipOf(g.scheme, n, p)
    BY <1>1, <1>2 DEF RowsFor, RowRight
  <2> DEFINE x == g.scheme
  <2>2. x \in SchemeNames /\ g = GossipOf(x, n, p)
    BY <2>1
  <2> HIDE DEF x
  <2>3. g.validators = n /\ g.peers = p /\ g.scheme = x
    BY <1>1, <2>2, GossipType DEF x
  <2>4. /\ Traffic(g) = n * Cost(x) * p
        /\ n * Cost(x) * p <= MaxInt /\ Rounded(n * Cost(x) * p) <= MaxInt
    BY <1>2, <2>3 DEF ExactGossip, Traffic, Cost
  <2>5. LET h == GossipOf(x, n, p)
        IN  /\ h.upper = n * Cost(x) * p /\ h.upper \in Nat /\ Rounded(h.upper) <= MaxInt
            /\ h.modelled = Modelled(h.upper)
    BY <1>1, <2>2, <2>4, ExactGossipLine
  <2>6. n \in Nat /\ p \in Nat
    BY <1>1, FlagsShape
  <2> HIDE DEF g
  <2>7. /\ g.upper = n * Cost(x) * p /\ g.upper \in Nat /\ Rounded(g.upper) <= MaxInt
        /\ g.modelled = Modelled(g.upper)
    BY <2>2, <2>5
  <2>8. /\ g.scheme \in SchemeNames /\ g.validators \in Nat /\ g.peers \in Nat
        /\ g.upper = g.validators * Cost(g.scheme) * g.peers /\ g.upper = Traffic(g)
    BY <2>2, <2>3, <2>4, <2>6, <2>7
  <2> QED BY <2>7, <2>8 DEF g
<1> DEFINE g == table[j]
           h == table[k]
<1>3. /\ g.scheme \in SchemeNames /\ g.validators \in Nat /\ g.peers \in Nat
      /\ g.upper = g.validators * Cost(g.scheme) * g.peers /\ g.upper = Traffic(g)
      /\ g.upper \in Nat /\ Rounded(g.upper) <= MaxInt /\ g.modelled = Modelled(g.upper)
  BY <1>2
<1>4. /\ h.validators \in Nat /\ h.peers \in Nat
      /\ h.upper = h.validators * Cost(h.scheme) * h.peers
      /\ h.upper \in Nat /\ Rounded(h.upper) <= MaxInt /\ h.modelled = Modelled(h.upper)
  BY <1>2
<1> HIDE DEF g, h
<1>6. /\ g.modelled \in 0 .. Rounded(g.upper)
      /\ g.upper <= Precision => g.modelled <= g.upper
  <2>1. g.modelled \in 0 .. Rounded(g.upper)
    BY <1>1, <1>3, ModelledWithin
  <2>2. g.upper <= Precision => Rounded(g.upper) = g.upper
    BY <1>3, RoundedIsHeld
  <2>3. Rounded(g.upper) \in Nat
    BY <1>3, RoundedIsNat
  <2> QED BY <1>3, <2>1, <2>2, <2>3
<1>5. ASSUME g.scheme = h.scheme, g.validators <= h.validators, g.peers <= h.peers
      PROVE  g.upper <= h.upper /\ g.modelled <= h.modelled
  <2> DEFINE c == Cost(g.scheme)
             u == g.validators * c
             v == h.validators * c
  <2>1. c \in Nat
    BY <1>3, CostOfMeasure
  <2> HIDE DEF c
  <2>2. u \in Nat /\ v \in Nat /\ u <= v
    BY <1>3, <1>4, <1>5, <2>1, ProductMonotone
  <2>3. g.upper = u * g.peers /\ h.upper = v * h.peers
    BY <1>3, <1>4, <1>5 DEF c
  <2> HIDE DEF u, v
  <2>4. u * g.peers <= v * g.peers
    BY <1>3, <2>2, ProductMonotone
  <2>5. g.peers * v <= h.peers * v
    BY <1>3, <1>4, <1>5, <2>2, ProductMonotone
  <2>6. v * g.peers = g.peers * v /\ v * h.peers = h.peers * v
    BY <1>3, <1>4, <2>2
  <2>7. u * g.peers \in Nat /\ v * g.peers \in Nat /\ v * h.peers \in Nat
    BY <1>3, <1>4, <2>2
  <2>8. g.upper <= h.upper
    BY <2>3, <2>4, <2>5, <2>6, <2>7
  <2> QED BY <1>1, <1>3, <1>4, <2>8, ModelledGrows
<1> QED BY <1>3, <1>5, <1>6 DEF g, h

(* What EstimateGossip (migration.go) models stays between nothing and the *)
(* bound, or its float64 beyond 2^53, whatever --gossip-suppression says,  *)
(* and grows with the set.                                                 *)
THEOREM GossipStaysWithinItsBound == Spec => []GossipWithinBound
BY GossipHolds, MigrationInvariant, PTL

(* A name's table of mitigations is about its own votes.                   *)
LEMMA MitigationsHold == IInv => MitigationsFollowTheVotes
<1> SUFFICES ASSUME IInv, NEW k \in MitigationTables
             PROVE
    LET turns == Cardinality({j \in MitigationTables : j <= k})
        sizes == MeasureSizes(lookupScheme(flags.schemes[turns]), <<>>)
        cost  == [change \in Changes |-> CASE
                    change = "compact votes" -> sizes.prevoteNil + sizes.precommitNil + 2 * 4
                    [] OTHER                 -> RoundTripBytes(sizes)]
    IN  /\ \A change \in Changes : \E row \in Range(stdout[k].rows) : row.change = change
        /\ \A row \in Range(stdout[k].rows) :
             /\ row.cost = cost[row.change]
             /\ row.change = "aggregation" => ~row.applicable
        /\ cost["compact votes"] < cost["none"]
  BY DEF MitigationsFollowTheVotes
<1> DEFINE t == k - 9
           x == flags.schemes[t]
           sizes == MeasureSizes(lookupScheme(x), <<>>)
           small == sizes.prevoteNil + sizes.precommitNil + 2 * 4
           full == RoundTripBytes(sizes)
           cost == [change \in Changes |-> CASE change = "compact votes" -> small
                                             [] OTHER                 -> full]
           table == stdout[k].rows
<1>1. /\ Cardinality({j \in MitigationTables : j <= k}) = t
      /\ stdout[k] = MitigationsOf(t) /\ t \in 1 .. N /\ Len(stdout) > 1
  BY MitigationPlaces
<1>2. flags \in Flags /\ DOMAIN flags.schemes = 1 .. N
  BY StateFacts, FlagsShape
<1>3. x \in SchemeNames
  <2>1. Range(flags.schemes) \subseteq SchemeNames
    BY <1>1 DEF IInv, NamesLookedUp
  <2> HIDE DEF t
  <2>2. x \in Range(flags.schemes)
    BY <1>1, <1>2 DEF Range
  <2> QED BY <2>1, <2>2
<1>4. table = Mitigations(MeasureSizes(lookupScheme(x), <<100>>))
  BY <1>1 DEF MitigationsOf, Table
<1> HIDE DEF t, x, table
<1> DEFINE given == MeasureSizes(lookupScheme(x), <<100>>)
<1>5. given.prevoteNil = sizes.prevoteNil /\ given.precommitNil = sizes.precommitNil
  BY DEF MeasureSizes
<1>6. RoundTripBytes(given) = full
  BY <1>3, CostOfMeasure
<1>7. compact(given) = given.prevoteNil + given.precommitNil + 2 * 4 /\ small < full
  <2>1. compact(given) = given.prevoteNil + given.precommitNil + 2 * 4
    BY <1>3, MitigationCosts
  <2>2. small < full
    BY <1>3, MitigationCosts
  <2> QED BY <2>1, <2>2
<1> HIDE DEF sizes, given
<1>8. compact(given) = small
  BY <1>5, <1>7
<1> HIDE DEF small, full
<1>9. table = << Change("none", full, TRUE), Change("compact votes", small, TRUE),
                 Change("aggregation", full, FALSE), Change("committee", full, TRUE) >>
  BY <1>4, <1>6, <1>8 DEF Mitigations, given
<1>10. Range(table) = {Change("none", full, TRUE), Change("compact votes", small, TRUE),
                       Change("aggregation", full, FALSE), Change("committee", full, TRUE)}
  <2> DEFINE a == Change("none", full, TRUE)
             b == Change("compact votes", small, TRUE)
             c == Change("aggregation", full, FALSE)
             d == Change("committee", full, TRUE)
  <2> HIDE DEF a, b, c, d
  <2>1. table = <<a, b, c, d>>
    BY <1>9 DEF a, b, c, d
  <2>2. DOMAIN table = 1 .. 4 /\ table[1] = a /\ table[2] = b /\ table[3] = c /\ table[4] = d
    BY <2>1
  <2>3. Range(table) = {table[i] : i \in 1 .. 4}
    BY <2>2 DEF Range
  <2>4. Range(table) = {a, b, c, d}
    BY <2>2, <2>3
  <2> QED BY <2>4 DEF a, b, c, d
<1>11. /\ cost["none"] = full /\ cost["compact votes"] = small
       /\ cost["aggregation"] = full /\ cost["committee"] = full
  BY DEF Changes
<1> HIDE DEF cost
<1>12. /\ \A change \in Changes : \E row \in Range(table) : row.change = change
       /\ \A row \in Range(table) :
            row.cost = cost[row.change] /\ (row.change = "aggregation" => ~row.applicable)
  <2> DEFINE a == Change("none", full, TRUE)
             b == Change("compact votes", small, TRUE)
             c == Change("aggregation", full, FALSE)
             d == Change("committee", full, TRUE)
  <2>1. /\ a.change = "none" /\ a.cost = full
        /\ b.change = "compact votes" /\ b.cost = small
        /\ c.change = "aggregation" /\ c.cost = full /\ c.applicable = FALSE
        /\ d.change = "committee" /\ d.cost = full
    BY DEF Change
  <2>2. Range(table) = {a, b, c, d}
    BY <1>10
  <2> HIDE DEF a, b, c, d
  <2>3. \A change \in Changes : \E row \in Range(table) : row.change = change
    BY <2>1, <2>2 DEF Changes
  <2>4. \A row \in Range(table) :
          row.cost = cost[row.change] /\ (row.change = "aggregation" => ~row.applicable)
    BY <1>11, <2>1, <2>2
  <2> QED BY <2>3, <2>4
<1>13. cost["compact votes"] < cost["none"]
  BY <1>7, <1>11
<1> QED BY <1>1, <1>12, <1>13 DEF cost, small, full, sizes, x, table

(* Mitigations (migration.go) are costed on the votes of the name they are *)
(* printed for, and a compact vote is shorter than the one shipped.        *)
THEOREM MitigationsAreOfTheName == Spec => []MitigationsFollowTheVotes
BY MitigationsHold, MigrationInvariant, PTL
=============================================================================
