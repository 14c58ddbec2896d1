----------------------------- MODULE EvaluateCold ---------------------------
(***************************************************************************)
(* Is this resource idle?  evaluate_cold over one resource's series.       *)
(*                                                                         *)
(* The loop of evaluate/metric.py visits the FinOps metrics that apply to  *)
(* the resource in config order and stops at the first that settles the    *)
(* answer.  Each metric is judged by the nearest-rank percentile of its    *)
(* readings; the properties count readings instead.                        *)
(*                                                                         *)
(* Readings and thresholds are integers.  Left out: the median, the        *)
(* recommender's inputs and the rounding of what a row shows.              *)
(***************************************************************************)
EXTENDS Integers, FiniteSets, Sequences

CONSTANTS
    Keys,        \* FinOps metrics of a type, numbered in config order
    InvertedKeys, \* those with hot_when: below
    FinopsCold,  \* [Keys -> Limits], the configured thresholds
    Limits,      \* thresholds a tag may give
    Points,      \* series a resource may have: sequences of readings
    Tags,        \* threshold tags a resource may have: [Keys -> limit or none]
    Expected,    \* points of a complete window
    Coverages,   \* values min_coverage may have, in percent
    Percentile,
    Missing,     \* a point without a value
    NoTag, Malformed

ASSUME KeysAssumption == Keys \subseteq Nat /\ InvertedKeys \subseteq Keys

ASSUME PointsAssumption ==
    /\ Points \subseteq Seq(Int \cup {Missing})
    /\ Missing \notin Int

ASSUME LimitsAssumption ==
    /\ Limits \subseteq Int
    /\ FinopsCold \in [Keys -> Limits]
    /\ Tags \subseteq [Keys -> Limits \cup {NoTag, Malformed}]
    /\ {NoTag, Malformed} \cap Limits = {}

ASSUME WindowAssumption ==
    /\ Expected \in Nat
    /\ Coverages \subseteq Nat
    /\ Percentile \in 0..100

VARIABLES
    min_coverage, \* the configured one
    series,       \* the resource's series, by metric key
    tags,         \* its o11y-threshold-<metric>-cold tags
    left,         \* metrics the loop has not visited
    observations, \* what the loop collected
    result        \* what evaluate_cold returned

evaluation == <<min_coverage, series, tags, left, observations, result>>

\* What the loop reads and no step changes.
inputs == <<min_coverage, series, tags>>

\* Mutant: a metric that does not apply to the resource is visited.
FinopsMetrics_All == Keys

\* Metrics of this resource.
FinopsMetrics == Keys \cap DOMAIN series

\* The first of a set of metrics in config order.
IsFirst(k, S) == k \in S /\ \A j \in S : k <= j

ColdTypeOK ==
    /\ min_coverage \in Coverages
    /\ DOMAIN series \subseteq Keys
    /\ series \in [DOMAIN series -> Points]
    /\ tags \in Tags
    /\ left \subseteq DOMAIN series
    /\ observations \subseteq [metric : DOMAIN series, value : Int,
                               threshold : Limits]
    /\ result \in {"running", "none", "skip", "finding", "raised"}

ColdInit ==
    /\ min_coverage \in Coverages
    /\ series \in UNION {[applicable -> Points] : applicable \in SUBSET Keys}
    /\ tags \in Tags
    /\ left = FinopsMetrics
    /\ observations = {}
    /\ result = "running"
-----------------------------------------------------------------------------
(* One metric.                                                             *)

Valid(k) == {i \in DOMAIN series[k] : series[k][i] # Missing}

\* Mutant: points without a value count.
Count_All(k) == Cardinality(DOMAIN series[k])

Count(k) == Cardinality(Valid(k))

AtMost(k, v)   == Cardinality({i \in Valid(k) : series[k][i] <= v})
LessThan(k, v) == Cardinality({i \in Valid(k) : series[k][i] < v})

\* coverage >= min_coverage; no coverage when the window expects no points.
Covered(k) ==
    IF Expected = 0 THEN min_coverage = 0
                    ELSE min_coverage * Expected <= 100 * Count(k)

\* Mutant: without the ceiling.
Rank_Floor(p, n) == LET r == (p * n) \div 100 IN IF r < 1 THEN 1 ELSE r

\* max(1, ceil(p / 100 * n))
Rank(p, n) == LET r == (p * n + 99) \div 100 IN IF r < 1 THEN 1 ELSE r

\* v is the element at this rank of the ordered readings.
IsPercentile(v, k, p) ==
    /\ \E i \in Valid(k) : series[k][i] = v
    /\ LessThan(k, v) < Rank(p, Count(k))
    /\ Rank(p, Count(k)) <= AtMost(k, v)

\* Peak use of an inverted metric is its minimum.
PercentileOf(k) == IF k \in InvertedKeys THEN 100 - Percentile ELSE Percentile

ResolveThreshold(k) == IF tags[k] \in Limits THEN tags[k] ELSE FinopsCold[k]

CountsAsCold(k, v) ==
    IF k \in InvertedKeys THEN v > ResolveThreshold(k)
                          ELSE v < ResolveThreshold(k)
-----------------------------------------------------------------------------
(* The loop.                                                               *)

Visits(k) == result = "running" /\ IsFirst(k, left)

Primary(k) == IsFirst(k, FinopsMetrics)

Return(r) == result' = r /\ UNCHANGED <<inputs, left, observations>>

Visited(k, seen) ==
    /\ left' = left \ {k}
    /\ observations' = observations \cup seen
    /\ UNCHANGED <<inputs, result>>

NoMetricApplies ==
    /\ result = "running"
    /\ FinopsMetrics = {}
    /\ Return("none")

PrimaryUncovered(k) ==
    /\ Visits(k)
    /\ ~Covered(k)
    /\ Primary(k)
    /\ Return("skip")

SecondaryUncovered(k) ==
    /\ Visits(k)
    /\ ~Covered(k)
    /\ ~Primary(k)
    /\ Visited(k, {})

\* The assertion that there is a percentile fails.
NoReading(k) ==
    /\ Visits(k)
    /\ Covered(k)
    /\ Valid(k) = {}
    /\ Return("raised")

NotCold(k) ==
    /\ Visits(k)
    /\ Covered(k)
    /\ \E i \in Valid(k) : /\ IsPercentile(series[k][i], k, PercentileOf(k))
                           /\ ~CountsAsCold(k, series[k][i])
    /\ Return("none")

\* Mutant: only the primary metric is put on record.
Cold_PrimaryOnly(k) ==
    /\ Visits(k)
    /\ Covered(k)
    /\ \E i \in Valid(k) :
          /\ IsPercentile(series[k][i], k, PercentileOf(k))
          /\ CountsAsCold(k, series[k][i])
          /\ Visited(k, IF Primary(k)
                        THEN {[metric |-> k, value |-> series[k][i],
                               threshold |-> ResolveThreshold(k)]}
                        ELSE {})

Cold(k) ==
    /\ Visits(k)
    /\ Covered(k)
    /\ \E i \in Valid(k) :
          /\ IsPercentile(series[k][i], k, PercentileOf(k))
          /\ CountsAsCold(k, series[k][i])
          /\ Visited(k, {[metric |-> k, value |-> series[k][i],
                          threshold |-> ResolveThreshold(k)]})

Report ==
    /\ result = "running"
    /\ FinopsMetrics # {}
    /\ left = {}
    /\ Return("finding")

Returned == result # "running" /\ UNCHANGED evaluation

ColdNext ==
    \/ NoMetricApplies
    \/ \E k \in Keys : \/ PrimaryUncovered(k)
                       \/ SecondaryUncovered(k)
                       \/ NoReading(k)
                       \/ NotCold(k)
                       \/ Cold(k)
    \/ Report
    \/ Returned

ColdSpec == ColdInit /\ [][ColdNext]_evaluation
-----------------------------------------------------------------------------
(* Properties.                                                             *)

\* Readings that show use: at or over the threshold, or at or under it.
Busy(k) == Cardinality(
    {i \in Valid(k) : IF k \in InvertedKeys
                      THEN series[k][i] <= ResolveThreshold(k)
                      ELSE series[k][i] >= ResolveThreshold(k)})

\* What docs/agents/thresholds.md calls cold, by counting: at most
\* 100 - Percentile percent of the readings show use, and not all of them; for
\* an inverted metric none does, or less than that share.
Idle(k) ==
    LET share == (100 - Percentile) * Count(k)
    IN  IF k \in InvertedKeys
        THEN Busy(k) = 0 \/ 100 * Busy(k) < share
        ELSE Busy(k) < Count(k) /\ 100 * Busy(k) <= share

\* A resource is reported exactly if it has a metric, its first one has enough
\* coverage, and every metric with enough coverage is idle; it is skipped
\* exactly if its first metric has too little.
Verdict ==
    /\ result = "finding" =>
          /\ \E k \in FinopsMetrics : Primary(k) /\ Covered(k)
          /\ \A k \in FinopsMetrics : Covered(k) => Idle(k)
    /\ result = "none" /\ FinopsMetrics # {} =>
          \E k \in FinopsMetrics : Covered(k) /\ ~Idle(k)
    /\ result = "skip" =>
          \E k \in FinopsMetrics : Primary(k) /\ ~Covered(k)

\* The recommender can tell a metric that was cold from one that was not
\* evaluated: a finding has one observation for each metric with coverage.
Evidence ==
    result = "finding" =>
        /\ {o.metric : o \in observations} =
              {k \in FinopsMetrics : Covered(k)}
        /\ \A o, q \in observations : o.metric = q.metric => o = q

\* The assertion in observe_cold, that a metric with enough coverage has a
\* percentile, fails only where min_coverage is 0: an empty series has enough
\* then.
AssertionHolds == min_coverage > 0 => result # "raised"
=============================================================================
