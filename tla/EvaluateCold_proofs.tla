------------------------- MODULE EvaluateCold_proofs ------------------------
(***************************************************************************)
(* Theorems about EvaluateCold, for any metrics, series, thresholds and    *)
(* window.  The percentile of the code is compared with a count of         *)
(* readings (Judged); the loop is then a matter of what it has visited.    *)
(***************************************************************************)
EXTENDS EvaluateCold, FiniteSetTheorems, TLAPS

USE KeysAssumption, PointsAssumption, LimitsAssumption, WindowAssumption

-----------------------------------------------------------------------------
(* Types.                                                                  *)

\* Everything the loop reads is a reading.
LEMMA ReadingType ==
  ASSUME ColdTypeOK, NEW k \in DOMAIN series
  PROVE  /\ IsFiniteSet(Valid(k))
         /\ \A i \in Valid(k) : series[k][i] \in Int
         /\ k \in Keys
         /\ ResolveThreshold(k) \in Limits
<1>1. series[k] \in Seq(Int \cup {Missing}) /\ k \in Keys
  BY DEF ColdTypeOK
<1>2. IsFiniteSet(DOMAIN series[k])
  BY <1>1, FS_Interval
<1>3. IsFiniteSet(Valid(k))
  BY <1>2, FS_Subset DEF Valid
<1>4. \A i \in DOMAIN series[k] : series[k][i] \in Int \cup {Missing}
  BY <1>1
<1> QED
  BY <1>1, <1>3, <1>4 DEF Valid, ResolveThreshold

\* A visit of metric k leaves the types as they are.
LEMMA TypedVisit ==
  ASSUME ColdTypeOK, NEW k \in Keys, Visits(k),
         NEW seen \in SUBSET [metric : DOMAIN series, value : Int,
                              threshold : Limits],
         Visited(k, seen)
  PROVE  ColdTypeOK'
  BY DEF ColdTypeOK, Visited, inputs

\* Every step keeps the state well typed.
LEMMA TypedNext == ColdTypeOK /\ [ColdNext]_evaluation => ColdTypeOK'
<1> SUFFICES ASSUME ColdTypeOK, [ColdNext]_evaluation
             PROVE  ColdTypeOK'
  OBVIOUS
<1>1. ASSUME NEW r \in {"none", "skip", "finding", "raised"}, Return(r)
      PROVE  ColdTypeOK'
  BY <1>1 DEF ColdTypeOK, Return, inputs
<1>2. CASE NoMetricApplies \/ Report
  BY <1>1, <1>2 DEF NoMetricApplies, Report
<1>3. ASSUME NEW k \in Keys,
             PrimaryUncovered(k) \/ NoReading(k) \/ NotCold(k)
      PROVE  ColdTypeOK'
  BY <1>1, <1>3 DEF PrimaryUncovered, NoReading, NotCold
<1>4. ASSUME NEW k \in Keys, SecondaryUncovered(k)
      PROVE  ColdTypeOK'
  BY <1>4, TypedVisit DEF SecondaryUncovered
<1>5. ASSUME NEW k \in Keys, Cold(k)
      PROVE  ColdTypeOK'
  <2>1. k \in DOMAIN series
    BY <1>5 DEF Cold, Visits, IsFirst, ColdTypeOK
  <2>2. PICK i \in Valid(k) :
            Visited(k, {[metric |-> k, value |-> series[k][i],
                         threshold |-> ResolveThreshold(k)]})
    BY <1>5 DEF Cold
  <2>3. series[k][i] \in Int /\ ResolveThreshold(k) \in Limits
    BY <2>1, ReadingType
  <2>4. [metric |-> k, value |-> series[k][i], threshold |-> ResolveThreshold(k)]
            \in [metric : DOMAIN series, value : Int, threshold : Limits]
    BY <2>1, <2>3
  <2>5. Visits(k)
    BY <1>5 DEF Cold
  <2> QED
    BY <2>2, <2>4, <2>5, TypedVisit
<1>6. CASE UNCHANGED evaluation
  BY <1>6 DEF evaluation, ColdTypeOK
<1> QED
  BY <1>2, <1>3, <1>4, <1>5, <1>6 DEF ColdNext, Returned

\* The initial state is well typed.
LEMMA TypedInit == ColdInit => ColdTypeOK
  BY DEF ColdInit, ColdTypeOK, FinopsMetrics

\* The state is always well typed.
THEOREM TypeCorrect == ColdSpec => []ColdTypeOK
  BY TypedInit, TypedNext, PTL DEF ColdSpec
-----------------------------------------------------------------------------
(* A percentile is compared with a threshold exactly if enough readings    *)
(* are.                                                                    *)

\* The rank is the least whole number, from 1, that covers p percent of n.
LEMMA RankCovers ==
  ASSUME NEW p \in 0..100, NEW n \in Nat, NEW c \in Nat
  PROVE  Rank(p, n) <= c <=> c >= 1 /\ p * n <= 100 * c
<1> DEFINE m == p * n
<1>1. m \in Nat
  OBVIOUS
<1>2. (m + 99) \div 100 <= c <=> m <= 100 * c
  <2> HIDE DEF m
  <2> QED
    BY <1>1
<1>3. (m + 99) \div 100 \in Int
  <2> HIDE DEF m
  <2> QED
    BY <1>1
<1> HIDE DEF m
<1> QED
  BY <1>2, <1>3 DEF Rank, m

\* What is left of a hundred percent.
LEMMA Complement ==
  ASSUME NEW p \in Int, NEW n \in Int
  PROVE  (100 - p) * n = 100 * n - p * n /\ p * n \in Int
  OBVIOUS

\* The readings of a metric are those under a threshold and the others.
LEMMA Parts ==
  ASSUME ColdTypeOK, NEW k \in DOMAIN series, NEW t \in Int
  PROVE  /\ Count(k) \in Nat /\ LessThan(k, t) \in Nat /\ AtMost(k, t) \in Nat
         /\ Cardinality({i \in Valid(k) : series[k][i] >= t})
                = Count(k) - LessThan(k, t)
<1> DEFINE L == {i \in Valid(k) : series[k][i] < t}
           G == {i \in Valid(k) : series[k][i] >= t}
<1>1. IsFiniteSet(Valid(k)) /\ \A i \in Valid(k) : series[k][i] \in Int
  BY ReadingType
<1>2. IsFiniteSet(L) /\ IsFiniteSet(G)
  BY <1>1, FS_Subset
<1>3. L \cup G = Valid(k) /\ L \cap G = {}
  BY <1>1
<1>4. Cardinality(L \cup G) =
         Cardinality(L) + Cardinality(G) - Cardinality(L \cap G)
  BY <1>2, FS_Union
<1>5. IsFiniteSet({i \in Valid(k) : series[k][i] <= t})
  BY <1>1, FS_Subset
<1>6. Cardinality(L) \in Nat /\ Cardinality(G) \in Nat
  BY <1>2, FS_CardinalityType
<1>7. Cardinality({}) = 0
  BY FS_EmptySet
<1>8. /\ Count(k) = Cardinality(L \cup G) /\ LessThan(k, t) = Cardinality(L)
      /\ Count(k) \in Nat
  BY <1>1, <1>3, FS_CardinalityType DEF Count, LessThan
<1>9. AtMost(k, t) \in Nat
  BY <1>5, FS_CardinalityType DEF AtMost
<1>10. Cardinality(G) = Count(k) - LessThan(k, t)
  <2>1. Count(k) = Cardinality(L) + Cardinality(G) - 0
    BY <1>3, <1>4, <1>7, <1>8
  <2> QED
    BY <1>6, <1>8, <2>1
<1> QED
  BY <1>6, <1>8, <1>9, <1>10

\* A percentile is under a threshold exactly if its rank many readings are.
LEMMA PercentileBelow ==
  ASSUME ColdTypeOK, NEW k \in DOMAIN series, NEW t \in Int, NEW v \in Int,
         NEW p \in 0..100, IsPercentile(v, k, p)
  PROVE  /\ v < t  <=> Rank(p, Count(k)) <= LessThan(k, t)
         /\ v <= t <=> Rank(p, Count(k)) <= AtMost(k, t)
<1> DEFINE S(Op) == {i \in Valid(k) : Op}
<1>1. IsFiniteSet(Valid(k)) /\ \A i \in Valid(k) : series[k][i] \in Int
  BY ReadingType
<1>2. /\ LessThan(k, v) \in Nat /\ LessThan(k, t) \in Nat
      /\ AtMost(k, v) \in Nat /\ AtMost(k, t) \in Nat
      /\ Count(k) \in Nat
  BY Parts
<1>3. Rank(p, Count(k)) \in Int
  BY <1>2 DEF Rank
<1>4. /\ v < t  => AtMost(k, v) <= LessThan(k, t)
      /\ v <= t => AtMost(k, v) <= AtMost(k, t)
  <2>1. /\ v < t  => {i \in Valid(k) : series[k][i] <= v}
                        \subseteq {i \in Valid(k) : series[k][i] < t}
        /\ v <= t => {i \in Valid(k) : series[k][i] <= v}
                        \subseteq {i \in Valid(k) : series[k][i] <= t}
    BY <1>1
  <2>2. /\ IsFiniteSet({i \in Valid(k) : series[k][i] < t})
        /\ IsFiniteSet({i \in Valid(k) : series[k][i] <= t})
    BY <1>1, FS_Subset
  <2> QED
    BY <2>1, <2>2, FS_Subset DEF AtMost, LessThan
<1>5. /\ t <= v => LessThan(k, t) <= LessThan(k, v)
      /\ t < v  => AtMost(k, t) <= LessThan(k, v)
  <2>1. /\ t <= v => {i \in Valid(k) : series[k][i] < t}
                        \subseteq {i \in Valid(k) : series[k][i] < v}
        /\ t < v  => {i \in Valid(k) : series[k][i] <= t}
                        \subseteq {i \in Valid(k) : series[k][i] < v}
    BY <1>1
  <2>2. IsFiniteSet({i \in Valid(k) : series[k][i] < v})
    BY <1>1, FS_Subset
  <2> QED
    BY <2>1, <2>2, FS_Subset DEF AtMost, LessThan
<1> QED
  BY <1>2, <1>3, <1>4, <1>5 DEF IsPercentile

\* The code's verdict on one metric is the count's.
LEMMA Judged ==
  ASSUME ColdTypeOK, NEW k \in DOMAIN series, NEW v \in Int,
         IsPercentile(v, k, PercentileOf(k))
  PROVE  CountsAsCold(k, v) <=> Idle(k)
<1>1. ResolveThreshold(k) \in Int
  BY ReadingType
<1> DEFINE t == ResolveThreshold(k)
           n == Count(k)
<1>2. /\ n \in Nat /\ LessThan(k, t) \in Nat /\ AtMost(k, t) \in Nat
      /\ Cardinality({i \in Valid(k) : series[k][i] >= t}) = n - LessThan(k, t)
  BY <1>1, Parts
<1>3. PercentileOf(k) \in 0..100
  BY DEF PercentileOf
<1>4. CASE k \in InvertedKeys
  <2>1. Busy(k) = AtMost(k, t)
    BY <1>4 DEF Busy, AtMost
  <2>2. v <= t <=> Rank(100 - Percentile, n) <= AtMost(k, t)
    BY <1>1, <1>3, <1>4, PercentileBelow DEF PercentileOf
  <2>3. Rank(100 - Percentile, n) <= AtMost(k, t)
           <=> AtMost(k, t) >= 1 /\ (100 - Percentile) * n <= 100 * AtMost(k, t)
    BY <1>2, <1>3, <1>4, RankCovers DEF PercentileOf
  <2>4. CountsAsCold(k, v) <=> ~(v <= t)
    BY <1>1, <1>4 DEF CountsAsCold
  <2>5. (100 - Percentile) * n \in Int
    BY <1>2
  <2>6. Idle(k) <=> \/ AtMost(k, t) = 0
                    \/ 100 * AtMost(k, t) < (100 - Percentile) * n
    BY <1>4, <2>1 DEF Idle
  <2> QED
    BY <1>2, <2>2, <2>3, <2>4, <2>5, <2>6
<1>5. CASE k \notin InvertedKeys
  <2>1. Busy(k) = n - LessThan(k, t)
    BY <1>2, <1>5 DEF Busy
  <2>2. v < t <=> Rank(Percentile, n) <= LessThan(k, t)
    BY <1>1, <1>3, <1>5, PercentileBelow DEF PercentileOf
  <2>3. Rank(Percentile, n) <= LessThan(k, t)
           <=> LessThan(k, t) >= 1 /\ Percentile * n <= 100 * LessThan(k, t)
    BY <1>2, RankCovers
  <2>4. CountsAsCold(k, v) <=> v < t
    BY <1>5 DEF CountsAsCold
  <2>5. /\ (100 - Percentile) * n = 100 * n - Percentile * n
        /\ Percentile * n \in Int
    <3>1. n \in Int /\ Percentile \in Int
      BY <1>2
    <3> HIDE DEF n
    <3> QED
      BY <3>1, Complement
  <2>6. Idle(k) <=> Busy(k) < n /\ 100 * Busy(k) <= (100 - Percentile) * n
    BY <1>5 DEF Idle
  <2>7. \A c, a, b, m \in Int : b = 100 * m - a =>
           (m - c < m /\ 100 * (m - c) <= b <=> c >= 1 /\ a <= 100 * c)
    OBVIOUS
  <2>8. Busy(k) < n /\ 100 * Busy(k) <= (100 - Percentile) * n
           <=> LessThan(k, t) >= 1 /\ Percentile * n <= 100 * LessThan(k, t)
    <3> DEFINE a == Percentile * n
               b == (100 - Percentile) * n
               c == LessThan(k, t)
    <3>1. a \in Int /\ b \in Int /\ c \in Int /\ n \in Int /\ b = 100 * n - a
      BY <1>2, <2>5
    <3> HIDE DEF a, b, c, n
    <3>2. n - c < n /\ 100 * (n - c) <= b <=> c >= 1 /\ a <= 100 * c
      BY <2>7, <3>1
    <3> QED
      BY <2>1, <3>2 DEF a, b, c, n
  <2> QED
    BY <2>2, <2>3, <2>4, <2>6, <2>8
<1> QED
  BY <1>4, <1>5
-----------------------------------------------------------------------------
(* The loop.                                                               *)

\* While it runs, every metric it has visited is idle or has no coverage, the
\* first metric has some as soon as one is visited, and it goes in order.
Progress ==
    result = "running" =>
        /\ left \subseteq FinopsMetrics
        /\ \A k \in FinopsMetrics \ left : Covered(k) => Idle(k)
        /\ \A k \in FinopsMetrics \ left, j \in left : k < j
        /\ left # FinopsMetrics =>
              \E k \in FinopsMetrics : Primary(k) /\ Covered(k)

\* The loop's own variables are all a visit changes.
LEMMA SameMetric ==
  ASSUME UNCHANGED inputs
  PROVE  /\ UNCHANGED FinopsMetrics
         /\ \A k : /\ Covered(k)' <=> Covered(k)
                   /\ Idle(k)' <=> Idle(k)
                   /\ Primary(k)' <=> Primary(k)
  BY DEF FinopsMetrics, Covered, Count, Valid, Idle, Busy, ResolveThreshold, Primary,
         IsFirst, inputs

\* The metric a step visits is idle if it goes on, and was the first if none
\* was visited before.
LEMMA ProgressVisit ==
  ASSUME ColdTypeOK, Progress, NEW k \in Keys, Visits(k), NEW seen,
           Visited(k, seen),
         Covered(k) => Idle(k), ~Covered(k) => ~Primary(k)
  PROVE  Progress'
<1>1. /\ k \in left /\ \A j \in left : k <= j
      /\ left \subseteq FinopsMetrics /\ FinopsMetrics \subseteq Nat
  BY DEF Visits, IsFirst, Progress, FinopsMetrics
<1>2. left' = left \ {k}
  BY DEF Visited
<1>3. UNCHANGED FinopsMetrics
  BY SameMetric DEF Visited
<1>4. left' \subseteq FinopsMetrics'
  BY <1>1, <1>2, <1>3
<1>5. \A j \in FinopsMetrics' \ left' : Covered(j)' => Idle(j)'
  <2>1. \A j \in FinopsMetrics \ left' : Covered(j) => Idle(j)
    BY <1>2 DEF Visits, Progress
  <2> QED
    BY <1>3, <2>1, SameMetric DEF Visited
<1>6. \A i \in FinopsMetrics' \ left', j \in left' : i < j
  BY <1>1, <1>2, <1>3 DEF Visits, Progress
<1>7. \E i \in FinopsMetrics' : Primary(i)' /\ Covered(i)'
  <2>1. \E i \in FinopsMetrics : Primary(i) /\ Covered(i)
    <3>1. CASE left = FinopsMetrics
      BY <1>1, <3>1 DEF Primary, IsFirst
    <3>2. CASE left # FinopsMetrics
      BY <3>2 DEF Visits, Progress
    <3> QED
      BY <3>1, <3>2
  <2> QED
    BY <1>3, <2>1, SameMetric DEF Visited
<1> QED
  BY <1>4, <1>5, <1>6, <1>7 DEF Progress

\* What the loop returns is right.
LEMMA VerdictReturn ==
  ASSUME ColdTypeOK, NEW r \in {"none", "skip", "finding", "raised"}, Return(r),
         r = "finding" =>
            /\ \E k \in FinopsMetrics : Primary(k) /\ Covered(k)
            /\ \A k \in FinopsMetrics : Covered(k) => Idle(k),
         r = "none" /\ FinopsMetrics # {} =>
            \E k \in FinopsMetrics : Covered(k) /\ ~Idle(k),
         r = "skip" => \E k \in FinopsMetrics : Primary(k) /\ ~Covered(k)
  PROVE  Progress' /\ Verdict'
<1>1. result' = r /\ UNCHANGED inputs
  BY DEF Return
<1>2. UNCHANGED FinopsMetrics /\ \A k : /\ Covered(k)' <=> Covered(k)
                                        /\ Idle(k)' <=> Idle(k)
                                        /\ Primary(k)' <=> Primary(k)
  BY <1>1, SameMetric
<1>3. Progress'
  BY <1>1 DEF Progress
<1>4. Verdict'
  BY <1>1, <1>2 DEF Verdict
<1> QED
  BY <1>3, <1>4

\* Every step keeps the loop's invariant and the verdict.
LEMMA ProgressNext ==
  ASSUME ColdTypeOK, Progress, Verdict, [ColdNext]_evaluation
  PROVE  Progress' /\ Verdict'
<1>1. CASE NoMetricApplies
  BY <1>1, VerdictReturn DEF NoMetricApplies
<1>2. ASSUME NEW k \in Keys, Visits(k)
      PROVE  k \in FinopsMetrics /\ k \in DOMAIN series /\ result = "running"
  BY <1>2 DEF Visits, IsFirst, Progress, FinopsMetrics
<1>3. ASSUME NEW k \in Keys, PrimaryUncovered(k)
      PROVE  Progress' /\ Verdict'
  BY <1>2, <1>3, VerdictReturn DEF PrimaryUncovered
<1>4. ASSUME NEW k \in Keys, Visits(k), NEW seen, Visited(k, seen)
      PROVE  Verdict'
  BY <1>2, <1>4 DEF Visited, Verdict
<1>5. ASSUME NEW k \in Keys, SecondaryUncovered(k)
      PROVE  Progress' /\ Verdict'
  BY <1>4, <1>5, ProgressVisit DEF SecondaryUncovered
<1>6. ASSUME NEW k \in Keys, NoReading(k)
      PROVE  Progress' /\ Verdict'
  BY <1>6, VerdictReturn DEF NoReading
<1>7. ASSUME NEW k \in Keys, NotCold(k)
      PROVE  Progress' /\ Verdict'
  <2>1. k \in FinopsMetrics /\ k \in DOMAIN series
    BY <1>2, <1>7 DEF NotCold
  <2>2. PICK i \in Valid(k) : /\ IsPercentile(series[k][i], k, PercentileOf(k))
                             /\ ~CountsAsCold(k, series[k][i])
    BY <1>7 DEF NotCold
  <2>3. ~Idle(k)
    BY <2>1, <2>2, ReadingType, Judged
  <2> QED
    BY <1>7, <2>1, <2>3, VerdictReturn DEF NotCold
<1>8. ASSUME NEW k \in Keys, Cold(k)
      PROVE  Progress' /\ Verdict'
  <2>1. k \in FinopsMetrics /\ k \in DOMAIN series
    BY <1>2, <1>8 DEF Cold
  <2>2. PICK i \in Valid(k) :
            /\ IsPercentile(series[k][i], k, PercentileOf(k))
            /\ CountsAsCold(k, series[k][i])
            /\ Visited(k, {[metric |-> k, value |-> series[k][i],
                            threshold |-> ResolveThreshold(k)]})
    BY <1>8 DEF Cold
  <2>3. Idle(k)
    BY <2>1, <2>2, ReadingType, Judged
  <2> QED
    BY <1>4, <1>8, <2>2, <2>3, ProgressVisit DEF Cold
<1>9. CASE Report
  <2>1. /\ \A k \in FinopsMetrics : Covered(k) => Idle(k)
        /\ \E k \in FinopsMetrics : Primary(k) /\ Covered(k)
    BY <1>9 DEF Report, Progress
  <2> QED
    BY <1>9, <2>1, VerdictReturn DEF Report
<1>10. CASE UNCHANGED evaluation
  <2>1. UNCHANGED <<inputs, left, result>>
    BY <1>10 DEF evaluation, inputs
  <2> QED
    BY <2>1, SameMetric DEF Progress, Verdict
<1> QED
  BY <1>1, <1>3, <1>5, <1>6, <1>7, <1>8, <1>9, <1>10 DEF ColdNext, Returned

\* evaluate_cold reports a resource exactly if its first metric has coverage
\* and all its metrics with coverage are idle, counted reading by reading, for
\* any number of metrics and readings, any thresholds, percentile and window.
THEOREM VerdictRight == ColdSpec => []Verdict
<1>1. ColdInit => ColdTypeOK /\ Progress /\ Verdict
  BY TypedInit DEF ColdInit, Progress, Verdict
<1>2. (ColdTypeOK /\ Progress /\ Verdict) /\ [ColdNext]_evaluation
          => (ColdTypeOK /\ Progress /\ Verdict)'
  BY TypedNext, ProgressNext
<1> QED
  BY <1>1, <1>2, PTL DEF ColdSpec

\* observe_cold's assertion that there is a percentile can fail only where
\* min_coverage is configured to be 0.
THEOREM AssertionNeverFails == ColdSpec => []AssertionHolds
<1>1. ColdInit => AssertionHolds
  BY DEF ColdInit, AssertionHolds
<1>2. ColdTypeOK /\ AssertionHolds /\ [ColdNext]_evaluation => AssertionHolds'
  <2> SUFFICES ASSUME ColdTypeOK, AssertionHolds, [ColdNext]_evaluation
               PROVE  AssertionHolds'
    OBVIOUS
  <2>1. ASSUME NEW k \in Keys, NoReading(k)
        PROVE  min_coverage = 0
    <3>1. Count(k) = 0
      BY <2>1, FS_EmptySet DEF NoReading, Count
    <3>2. min_coverage \in Nat
      BY DEF ColdTypeOK
    <3>3. Expected = 0 => min_coverage = 0
      BY <2>1 DEF NoReading, Covered
    <3>4. Expected # 0 => min_coverage * Expected <= 0
      BY <2>1, <3>1 DEF NoReading, Covered
    <3> QED
      BY <3>2, <3>3, <3>4
  <2>2. UNCHANGED min_coverage
    BY DEF ColdNext, NoMetricApplies, PrimaryUncovered, SecondaryUncovered,
           NoReading,
           NotCold, Cold, Report, Returned, Return, Visited, evaluation, inputs
  <2>3. result' = "raised"
           => result = "raised" \/ \E k \in Keys : NoReading(k)
    BY DEF ColdNext, NoMetricApplies, PrimaryUncovered, SecondaryUncovered, NotCold,
           Cold, Report, Returned, Return, Visited, evaluation
  <2>4. min_coverage \in Nat
    BY DEF ColdTypeOK
  <2> QED
    BY <2>1, <2>2, <2>3, <2>4 DEF AssertionHolds
<1> QED
  BY <1>1, <1>2, TypeCorrect, PTL DEF ColdSpec
-----------------------------------------------------------------------------
(* The record.                                                             *)

\* There is one observation for each metric visited that has coverage.
Recorded ==
    result \in {"running", "finding"} =>
        /\ {o.metric : o \in observations} =
              {k \in FinopsMetrics \ left : Covered(k)}
        /\ \A o, q \in observations : o.metric = q.metric => o = q
        /\ result = "finding" => left = {}

\* Returning changes no observation, and a finding is returned after the last
\* metric only.
LEMMA RecordedReturn ==
  ASSUME Recorded, NEW r, Return(r), result = "running",
         r = "finding" => left = {}
  PROVE  Recorded'
<1>1. /\ result' = r /\ UNCHANGED <<left, observations>> /\ UNCHANGED inputs
      /\ result = "running"
  BY DEF Return
<1>2. UNCHANGED FinopsMetrics /\ \A k : Covered(k)' <=> Covered(k)
  BY <1>1, SameMetric
<1> QED
  BY <1>1, <1>2 DEF Recorded

\* Every step records the metric it judges.
LEMMA RecordedNext ==
  ASSUME ColdTypeOK, Progress, Recorded, [ColdNext]_evaluation
  PROVE  Recorded'
<1>1. CASE NoMetricApplies \/ Report
  BY <1>1, RecordedReturn DEF NoMetricApplies, Report
<1>2. ASSUME NEW k \in Keys, PrimaryUncovered(k) \/ NoReading(k) \/ NotCold(k)
      PROVE  Recorded'
  BY <1>2, RecordedReturn
     DEF PrimaryUncovered, NoReading, NotCold, Visits
<1>3. ASSUME NEW k \in Keys, SecondaryUncovered(k)
      PROVE  Recorded'
  <2>1. /\ left' = left \ {k} /\ UNCHANGED inputs /\ result' = result
        /\ observations' = observations /\ ~Covered(k) /\ result = "running"
    BY <1>3 DEF SecondaryUncovered, Visited, Visits
  <2>2. UNCHANGED FinopsMetrics /\ \A j : Covered(j)' <=> Covered(j)
    BY <2>1, SameMetric
  <2>3. {j \in FinopsMetrics \ left : Covered(j)} =
           {j \in FinopsMetrics \ (left \ {k}) : Covered(j)}
    BY <2>1
  <2> QED
    BY <2>1, <2>2, <2>3 DEF Recorded
<1>4. ASSUME NEW k \in Keys, Cold(k)
      PROVE  Recorded'
  <2>1. PICK i \in Valid(k) :
            Visited(k, {[metric |-> k, value |-> series[k][i],
                         threshold |-> ResolveThreshold(k)]})
    BY <1>4 DEF Cold
  <2> DEFINE seen == [metric |-> k, value |-> series[k][i],
                      threshold |-> ResolveThreshold(k)]
  <2>2. /\ left' = left \ {k} /\ UNCHANGED inputs /\ result' = result
        /\ observations' = observations \cup {seen}
        /\ Covered(k) /\ result = "running" /\ k \in left
    BY <1>4, <2>1 DEF Cold, Visited, Visits, IsFirst
  <2>3. seen.metric = k
    OBVIOUS
  <2> HIDE DEF seen
  <2>4. UNCHANGED FinopsMetrics /\ \A j : Covered(j)' <=> Covered(j)
    BY <2>2, SameMetric
  <2>5. k \in FinopsMetrics
    BY <2>2 DEF Progress
  <2>6. {j \in FinopsMetrics \ (left \ {k}) : Covered(j)} =
           {j \in FinopsMetrics \ left : Covered(j)} \cup {k}
    BY <2>2, <2>5
  <2>7. {o.metric : o \in observations'} =
           {o.metric : o \in observations} \cup {k}
    BY <2>2, <2>3
  <2>8. \A o \in observations : o.metric # k
    BY <2>2 DEF Recorded
  <2>9. \A o, q \in observations' : o.metric = q.metric => o = q
    BY <2>2, <2>3, <2>8 DEF Recorded
  <2> QED
    BY <2>2, <2>4, <2>6, <2>7, <2>9 DEF Recorded
<1>5. CASE UNCHANGED evaluation
  <2>1. UNCHANGED <<inputs, left, observations, result>>
    BY <1>5 DEF evaluation, inputs
  <2> QED
    BY <2>1, SameMetric DEF Recorded
<1> QED
  BY <1>1, <1>2, <1>3, <1>4, <1>5 DEF ColdNext, Returned

\* A finding has one observation for each metric with coverage and none for
\* another, for any metrics, series, thresholds and window.
THEOREM EvidenceComplete == ColdSpec => []Evidence
<1>1. ColdInit => ColdTypeOK /\ Progress /\ Verdict /\ Recorded
  BY TypedInit DEF ColdInit, Progress, Verdict, Recorded
<1>2. ColdTypeOK /\ Progress /\ Verdict /\ Recorded /\ [ColdNext]_evaluation
          => (ColdTypeOK /\ Progress /\ Verdict /\ Recorded)'
  BY TypedNext, ProgressNext, RecordedNext
<1>3. Recorded => Evidence
  BY DEF Recorded, Evidence
<1> QED
  BY <1>1, <1>2, <1>3, PTL DEF ColdSpec
=============================================================================
