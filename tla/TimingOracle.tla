----------------------------- MODULE TimingOracle ------------------------------
(* The timing oracle of pkg/engine/timing_oracle.go: calibration from samples *)
(* of random paths, and the repeated request whose median is held against it. *)
(* Durations are integers; the comparison with K standard deviations is made  *)
(* with squares, which decides as the floats do.                              *)
EXTENDS Integers, Sequences, FiniteSets, SequencesExt

CONSTANTS
    Durations,   \* bound: durations of an answer
    Baselines,   \* bound: calibration samples, TimingOracleBaselineSamples each
    MinDelta,    \* TimingOracleMinDelta
    RepeatNs     \* values of TimeOracleN, which may change after calibration

VARIABLES
    baselineSamples,  \* <<>> while there is no oracle
    trim,             \* Trim
    repeatN,          \* TimeOracleN, read anew for every request
    samples,          \* of the request under way
    target,           \* samples it will take
    oracleHit         \* the verdict: "none", "failed", "normal", "anomaly"

timingVars == <<baselineSamples, trim, repeatN, samples, target, oracleHit>>

(* sort.Slice: the k-th value in order has fewer than k below it, and it and  *)
(* those below are k at least.                                                *)
Below(s, x) == {i \in DOMAIN s : s[i] < x}
UpToValue(s, x) == {i \in DOMAIN s : s[i] <= x}
IsNth(s, k, x) == Cardinality(Below(s, x)) < k /\ k <= Cardinality(UpToValue(s, x))
SortUp(s) == [k \in DOMAIN s |-> CHOOSE x \in {s[i] : i \in DOMAIN s} : IsNth(s, k, x)]
trimDurations(s) == IF Len(s) < 3 THEN s ELSE SubSeq(SortUp(s), 2, Len(s) - 1)
Work(s) == IF trim THEN trimDurations(s) ELSE s

medianDuration(s) ==
    LET w == SortUp(Work(s))
        mid == Len(w) \div 2
    IN IF Len(w) % 2 = 1 THEN w[mid + 1] ELSE (w[mid] + w[mid + 1]) \div 2

(* n times the sum of squared deviations of the samples: n (n-1) stddev^2.    *)
Total(s) == FoldSeq(+, 0, s)
Spread(w) == Len(w) * Total([i \in DOMAIN w |-> w[i] * w[i]]) - Total(w) * Total(w)

(* Calibration takes TimingOracleBaselineSamples = 30 samples; a sum of       *)
(* integers is one.                                                           *)
ASSUME TimingAssumption ==
    /\ Durations \subseteq Nat /\ MinDelta \in Nat /\ RepeatNs \subseteq Nat \ {0}
    /\ \A b \in Baselines :
          b \in Seq(Nat) /\ Len(b) >= 3 /\ {Spread(b), Spread(trimDurations(b))} \subseteq Int

(* Mutant: the slowest answer is held against the oracle.                     *)
SlowestSample(s) == SortUp(s)[Len(s)]

(* What is held against the oracle: the median of the answers.                *)
Judged(s) == medianDuration(s)

(* IsAnomaly: above the median by more than MinDelta and, with K = 2.5, by    *)
(* more than K standard deviations.                                           *)
IsAnomaly(base, sample) ==
    LET d == sample - medianDuration(base)
        n == Len(Work(base))
    IN d > MinDelta /\ (n < 2 \/ 4 * d * d * n * (n - 1) > 25 * Spread(Work(base)))

TimingInit ==
    /\ baselineSamples = <<>> /\ trim \in BOOLEAN /\ repeatN \in RepeatNs
    /\ samples = <<>> /\ target = 0 /\ oracleHit = "none"

(* The scan does not start when a request of the calibration fails.           *)
CalibrateTimingOracle ==
    /\ baselineSamples = <<>> /\ baselineSamples' \in Baselines
    /\ UNCHANGED <<trim, repeatN, samples, target, oracleHit>>

SetRepeat == repeatN' \in RepeatNs /\ UNCHANGED <<baselineSamples, trim, samples, target, oracleHit>>

(* executeTimingOracleRequests: one failure gives up every sample.            *)
executeTimingOracleRequests ==
    /\ baselineSamples # <<>> /\ target = 0 /\ target' = repeatN /\ samples' = <<>> /\ oracleHit' = "none"
    /\ UNCHANGED <<baselineSamples, trim, repeatN>>
TakeSample ==
    /\ target > 0 /\ oracleHit = "none" /\ Len(samples) < target
    /\ \/ /\ \E d \in Durations : samples' = Append(samples, d)
          /\ oracleHit' = IF Len(samples') < target THEN "none"
                          ELSE IF IsAnomaly(baselineSamples, Judged(samples'))
                               THEN "anomaly" ELSE "normal"
       \/ oracleHit' = "failed" /\ samples' = <<>>
    /\ UNCHANGED <<baselineSamples, trim, repeatN, target>>
NextRequest ==
    /\ oracleHit # "none" /\ target' = 0 /\ samples' = <<>> /\ oracleHit' = "none"
    /\ UNCHANGED <<baselineSamples, trim, repeatN>>

TimingNext ==
    CalibrateTimingOracle \/ SetRepeat \/ executeTimingOracleRequests \/ TakeSample \/ NextRequest

-----------------------------------------------------------------------------
TimingTypeOK ==
    /\ baselineSamples \in Baselines \cup {<<>>} /\ samples \in Seq(Durations) /\ Len(samples) <= target
    /\ oracleHit \in {"none", "failed", "normal", "anomaly"}

(* A request is called slow only when at least half of its answers were: a    *)
(* single slow answer of three or more shows nothing.                         *)
TimingNeedsHalf ==
    oracleHit = "anomaly" =>
        2 * Cardinality({i \in DOMAIN samples : IsAnomaly(baselineSamples, samples[i])}) >= Len(samples)

(* When outliers are trimmed, one slow answer during calibration, however     *)
(* slow, changes no verdict.                                                  *)
Replaced(s, x) ==
    LET slowest == CHOOSE i \in DOMAIN s : \A j \in DOMAIN s : s[j] <= s[i]
    IN [s EXCEPT ![slowest] = x]
TimingOutlierHarmless ==
    trim /\ oracleHit \in {"normal", "anomaly"} =>
        \A x \in {d \in Durations : \A i \in DOMAIN baselineSamples : d >= baselineSamples[i]} :
            IsAnomaly(Replaced(baselineSamples, x), Judged(samples)) = (oracleHit = "anomaly")

(* One slow answer makes neither a request slow nor another one fast.         *)
TimingSound == TimingTypeOK /\ TimingNeedsHalf /\ TimingOutlierHarmless
=============================================================================
