---------------------------- MODULE Resize_proofs ---------------------------
(***************************************************************************)
(* What the recommenders' advice is worth for any SKUs, ladders, floors,   *)
(* thresholds, headroom and load.                                          *)
(*                                                                         *)
(* What a rule answers depends on the present size alone (Right); that a   *)
(* size once advised is not advised down again needs memory: no smaller    *)
(* size holds what the metrics it was chosen by carry (Settled).           *)
(***************************************************************************)
EXTENDS Resize, NaturalsInduction, WellFoundedInduction, TLAPS

-----------------------------------------------------------------------------
(* Rounding up.                                                            *)

\* a, rounded up to a multiple of u, is no more than n * u exactly if a is not.
LEMMA RoundUp ==
    ASSUME NEW a \in Nat, NEW u \in Nat \ {0}, NEW n \in Nat
    PROVE  /\ (a + u - 1) \div u \in Nat
           /\ (a + u - 1) \div u <= n <=> a <= n * u
<1> DEFINE q == (a + u - 1) \div u
           r == (a + u - 1) % u
<1>1. q \in Int /\ r \in 0..(u - 1) /\ a + u - 1 = u * q + r
  OBVIOUS
<1>2. q >= 0
  <2>1. a + u - 1 >= 0
    OBVIOUS
  <2> QED
    BY <2>1
<1> HIDE DEF q, r
<1>3. ASSUME q <= n PROVE a <= n * u
  <2>1. u * q <= u * n
    BY <1>1, <1>2, <1>3
  <2> QED
    BY <1>1, <2>1
<1>4. ASSUME ~(q <= n) PROVE ~(a <= n * u)
  <2>1. q >= n + 1
    BY <1>1, <1>4
  <2>2. u * q >= u * (n + 1)
    BY <1>1, <1>2, <2>1
  <2>3. u * (n + 1) = n * u + u
    OBVIOUS
  <2>4. n * u \in Nat /\ u * q \in Int
    BY <1>1
  <2> QED
    BY <1>1, <2>2, <2>3, <2>4
<1>5. q \in Nat /\ (q <= n <=> a <= n * u)
  BY <1>1, <1>2, <1>3, <1>4
<1> QED
  BY <1>5 DEF q

\* A set of naturals that is not empty has a least element.
LEMMA LeastElement ==
    ASSUME NEW S \in SUBSET Nat, S # {}
    PROVE  Least(S) \in S /\ \A n \in S : Least(S) <= n
<1>1. PICK m \in S : \A n \in S : <<n, m>> \notin OpToRel(<, Nat)
  BY NatLessThanWellFounded, WFMin
<1>2. \A n \in S : ~(n < m)
  BY <1>1 DEF OpToRel
<1>3. \E n \in S : \A k \in S : n <= k
  BY <1>2
<1> QED
  BY <1>3, Zenon DEF Least

-----------------------------------------------------------------------------
(* Sizes that hold the load.                                               *)

\* The units a metric needs are the fewest that hold it, with headroom.
LEMMA NeedsHolds ==
    ASSUME TypeOK, NEW s \in Skus, NEW m \in Metrics, NEW n \in Nat
    PROVE  /\ Needs(s, m) \in Nat
           /\ Needs(s, m) <= n
                 <=> Headroom * load[m] <= 100 * Capacity(Resized(s, n), m)
<1> DEFINE a == Headroom * load[m]
           c == IF m = "cpu" THEN Vcpu[s] ELSE Memory[s]
           u == 100 * c
<1>1. c \in Nat \ {0}
  BY CatalogAssumption
<1>2. Headroom \in Nat /\ load[m] \in Nat
  BY RulesAssumption DEF TypeOK
<1>3. a \in Nat /\ u \in Nat \ {0}
  BY <1>1, <1>2
<1>4. Capacity(Resized(s, n), m) = n * c
  BY DEF Capacity, Resized
<1>5. Capacity(Resized(s, 1), m) = c
  BY <1>1 DEF Capacity, Resized
<1>6. Needs(s, m) = (a + u - 1) \div u
  BY <1>5 DEF Needs
<1>7. 100 * (n * c) = n * u
  BY <1>1
<1> HIDE DEF a, c, u
<1>8. /\ (a + u - 1) \div u \in Nat
      /\ (a + u - 1) \div u <= n <=> a <= n * u
  BY <1>3, RoundUp
<1> QED
  BY <1>4, <1>6, <1>7, <1>8 DEF a

\* The peak's units are the fewest that hold what the finding measured.
LEMMA PeakHolds ==
    ASSUME TypeOK, NEW found \in SUBSET Metrics, "cpu" \in found, NEW n \in Nat
    PROVE  /\ Peak(found) \in Nat
           /\ Peak(found) <= n <=> Holds(Resized(sku, n), found)
<1> DEFINE needs == {Needs(sku, m) : m \in found}
<1>1. sku \in Skus
  BY DEF TypeOK, Sizes, sku
<1>2. \A m \in found : Needs(sku, m) \in Nat
  BY <1>1, NeedsHolds
<1>3. \E k \in needs : \A l \in needs : l <= k
  <2>1. CASE found = {"cpu"}
    BY <1>2, <2>1
  <2>2. CASE found = {"cpu", "memory"}
    <3>1. needs = {Needs(sku, "cpu"), Needs(sku, "memory")}
      BY <2>2
    <3>2. CASE Needs(sku, "cpu") <= Needs(sku, "memory")
      BY <1>2, <2>2, <3>1, <3>2
    <3>3. CASE Needs(sku, "memory") <= Needs(sku, "cpu")
      BY <1>2, <2>2, <3>1, <3>3
    <3> QED
      BY <1>2, <2>2, <3>2, <3>3
  <2> QED
    BY <2>1, <2>2 DEF Metrics
<1>4. Peak(found) \in needs /\ \A l \in needs : l <= Peak(found)
  BY <1>3 DEF Peak
<1>5. Peak(found) <= n <=> \A m \in found : Needs(sku, m) <= n
  BY <1>2, <1>4
<1>6. \A m \in found :
          Needs(sku, m) <= n <=>
              Headroom * load[m] <= 100 * Capacity(Resized(sku, n), m)
  BY <1>1, NeedsHolds
<1>7. \A m \in found :
          /\ Headroom * load[m] \in Nat
          /\ 100 * Capacity(Resized(sku, n), m) \in Nat
  <2> TAKE m \in found
  <2>1. Headroom \in Nat /\ load[m] \in Nat
    BY RulesAssumption DEF TypeOK
  <2>2. Vcpu[sku] \in Nat /\ Memory[sku] \in Nat
    BY <1>1, CatalogAssumption
  <2>3. Capacity(Resized(sku, n), m) \in Nat
    BY <2>2 DEF Capacity, Resized
  <2> QED
    BY <2>1, <2>3
<1>8. Holds(Resized(sku, n), found) <=>
          \A m \in found :
              Headroom * load[m] <= 100 * Capacity(Resized(sku, n), m)
  BY <1>7 DEF Holds
<1> QED
  BY <1>2, <1>4, <1>5, <1>6, <1>8
-----------------------------------------------------------------------------
(* Answers.                                                                *)

Targets == Sizes \cup {NoTarget, Delete}

Levels == {"none", "low", "medium"}

\* A plan's or a node's next smaller SKU has as much memory for each vCPU: the
\* projection through vCPUs is then right for memory too.
Proportional ==
    \A k \in {"appserviceplan", "aks"} : \A s \in Catalog[k] :
        \A t \in NextSmaller(k, s) : Memory[t] * Vcpu[s] >= Memory[s] * Vcpu[t]

\* What every rule gets right about its target for what was found.
Right(found, target) ==
    /\ target \in Targets
    /\ kind \in CountKinds /\ target \in Sizes =>
          /\ target.sku = sku
          /\ target.count \in Room(found)
          /\ \A n \in Room(found) : target.count <= n
    /\ kind \in CountKinds /\ target \notin Sizes =>
          /\ target = NoTarget
          /\ Room(found) = {} \/ ~Listed \/ Is("unnamed") \/ Is("unmetered")
    /\ Proportional /\ target \in Sizes /\ kind \notin FamilyKinds =>
          Holds(target, IF kind = "redis" THEN found \ {"cpu"} ELSE found)

\* A rule ends in Advise with a right target.
Answers(found) ==
    \E target, c : /\ Right(found, target) /\ c \in Levels
                  /\ Advise(found, target, c)

\* The smallest size of a ladder that fits is the least with room for the load.
LEMMA FitsDownIsRoom ==
    ASSUME TypeOK, NEW found \in SUBSET Metrics, "cpu" \in found,
           NEW floor \in Nat,
           Sold \subseteq Nat,
           IF Is("dtu") THEN floor = 0 ELSE floor = MinCount[kind]
    PROVE  FitsDown(found, Sold, floor) = Room(found)
<1>1. Peak(found) \in Nat
  BY PeakHolds
<1>2. \A n \in Sold :
          AtLeast(floor, Peak(found)) <= n
              <=> floor <= n /\ Holds(Resized(sku, n), found)
  <2> TAKE n \in Sold
  <2>1. n \in Nat
    OBVIOUS
  <2>2. Peak(found) <= n <=> Holds(Resized(sku, n), found)
    BY <2>1, PeakHolds
  <2> QED
    BY <1>1, <2>1, <2>2 DEF AtLeast
<1>3. \A n \in Sold : floor <= n <=> (~Is("dtu") => n >= MinCount[kind])
  BY RulesAssumption DEF TypeOK
<1> QED
  BY <1>2, <1>3 DEF FitsDown, Room

\* A ladder rule answers: least size with room, or none has room.
LEMMA OnLadderAnswers ==
    ASSUME TypeOK, NEW found \in SUBSET Metrics, "cpu" \in found,
           NEW floor \in Nat, NEW c \in Levels, kind \in CountKinds,
           Sold \subseteq Nat,
           IF Is("dtu") THEN floor = 0 ELSE floor = MinCount[kind],
           OnLadder(found, Sold, floor, c)
    PROVE  Answers(found)
<1> DEFINE fits == FitsDown(found, Sold, floor)
<1>1. fits = Room(found)
  BY FitsDownIsRoom
<1>2. CASE fits = {} /\ Advise(found, NoTarget, c)
  BY <1>1, <1>2, TargetsAssumption DEF Answers, Right, Targets
<1>3. CASE fits # {} /\ Advise(found, Resized(sku, Least(fits)), c)
  <2> DEFINE target == Resized(sku, Least(fits))
  <2>1. fits \in SUBSET Nat
    BY DEF FitsDown
  <2>2. Least(fits) \in fits /\ \A n \in fits : Least(fits) <= n
    BY <1>3, <2>1, LeastElement
  <2>3. target \in Sizes /\ target.sku = sku /\ target.count = Least(fits)
    BY <2>1, <2>2 DEF TypeOK, Sizes, sku, Resized
  <2> HIDE DEF target
  <2>4. Right(found, target)
    <3>1. target = Resized(sku, target.count)
      BY <2>3 DEF Sizes, Resized
    <3>2. Holds(target, found)
      BY <1>1, <2>2, <2>3, <3>1 DEF Room
    <3> QED
      BY <1>1, <2>2, <2>3, <3>2 DEF Right, Targets, CountKinds
  <2>5. Advise(found, target, c)
    BY <1>3 DEF target
  <2> QED
    BY <2>4, <2>5 DEF Answers
<1> QED
  BY <1>2, <1>3 DEF OnLadder

\* The ceiling of a contiguous ladder is the least with room for the load.
LEMMA InUnitsAnswers ==
    ASSUME TypeOK, NEW found \in SUBSET Metrics, "cpu" \in found,
           NEW floor \in Nat \ {0}, NEW c \in Levels, kind \in CountKinds,
           Sold = 1..count, ~Is("dtu"), floor >= MinCount[kind],
           floor = 1 \/ floor = MinCount[kind],
           InUnits(found, floor, c)
    PROVE  Answers(found)
<1> DEFINE n == AtLeast(floor, Peak(found))
           target == IF n < count THEN Resized(sku, n) ELSE NoTarget
<1>1. Peak(found) \in Nat
  BY PeakHolds
<1>2. n \in Nat \ {0}
  BY <1>1 DEF AtLeast
<1>3. sku \in Skus /\ count \in Nat /\ MinCount[kind] \in Nat
  BY RulesAssumption DEF TypeOK, Sizes, sku, count, kind
<1>4. \A k \in 1..count :
          n <= k <=> k >= MinCount[kind] /\ Holds(Resized(sku, k), found)
  <2> TAKE k \in 1..count
  <2>1. Peak(found) <= k <=> Holds(Resized(sku, k), found)
    BY <1>3, PeakHolds
  <2> QED
    BY <1>1, <1>3, <2>1 DEF AtLeast
<1>5. Room(found) = {k \in 1..count : k < count /\ n <= k}
  BY <1>4 DEF Room
<1> HIDE DEF n
<1>6. ASSUME n < count PROVE Right(found, target)
  <2>1. target = Resized(sku, n)
    BY <1>6
  <2>2. target \in Sizes /\ target.sku = sku /\ target.count = n
    BY <1>2, <1>3, <2>1 DEF Sizes, Resized
  <2>3. n \in Room(found) /\ \A k \in Room(found) : n <= k
    BY <1>2, <1>3, <1>5, <1>6
  <2>4. Holds(target, found)
    BY <2>1, <2>3 DEF Room
  <2> HIDE DEF target
  <2> QED
    BY <2>2, <2>3, <2>4 DEF Right, Targets, CountKinds
<1>7. ASSUME ~(n < count) PROVE Right(found, target)
  <2>1. target = NoTarget
    BY <1>7
  <2>2. Room(found) = {}
    BY <1>2, <1>3, <1>5, <1>7
  <2> HIDE DEF target
  <2> QED
    BY <2>1, <2>2, TargetsAssumption DEF Right, Targets
<1>8. Right(found, target)
  BY <1>6, <1>7
<1>9. Advise(found, target, c)
  BY DEF InUnits, n
<1> HIDE DEF target
<1> QED
  BY <1>8, <1>9 DEF Answers

\* A positive factor can be cancelled.
LEMMA Cancel ==
    ASSUME NEW a \in Nat, NEW b \in Nat, NEW v \in Nat \ {0}, a * v <= b * v
    PROVE  a <= b
<1>1. ASSUME b + 1 <= a PROVE FALSE
  <2>1. (b + 1) * v <= a * v
    BY <1>1
  <2>2. (b + 1) * v = b * v + v
    OBVIOUS
  <2>3. a * v \in Nat /\ b * v \in Nat
    OBVIOUS
  <2> QED
    BY <2>1, <2>2, <2>3
<1> QED
  BY <1>1

\* The next smaller SKU is one of the resource's kind.
LEMMA NextSmallerSkus ==
    ASSUME NEW k \in Kinds, NEW from, NEW s \in NextSmaller(k, from)
    PROVE  s \in Skus /\ Vcpu[s] \in Nat \ {0} /\ Memory[s] \in Nat \ {0}
BY CatalogAssumption DEF NextSmaller, Last

\* A SKU on which the projected peak fits holds what the finding measured.
LEMMA FitsOnHolds ==
    ASSUME TypeOK, Proportional, kind \in {"appserviceplan", "aks"}, Listed,
           NEW s \in NextSmaller(kind, sku), NEW found \in SUBSET Metrics,
           FitsOn(s, found)
    PROVE  Holds(Resized(s, count), found)
<1>1. kind \in Kinds /\ sku \in Skus /\ count \in Nat
  BY DEF TypeOK, Sizes, kind, sku, count
<1>2. /\ Vcpu[s] \in Nat \ {0} /\ Memory[s] \in Nat \ {0}
      /\ Vcpu[sku] \in Nat \ {0} /\ Memory[sku] \in Nat \ {0}
  BY <1>1, NextSmallerSkus, CatalogAssumption
<1>3. Memory[s] * Vcpu[sku] >= Memory[sku] * Vcpu[s]
  BY DEF Proportional, Listed
<1> SUFFICES ASSUME NEW m \in found
             PROVE  100 * Capacity(Resized(s, count), m) >= Headroom * load[m]
  BY DEF Holds
<1> DEFINE old == IF m = "cpu" THEN Vcpu[sku] ELSE Memory[sku]
           new == IF m = "cpu" THEN Vcpu[s] ELSE Memory[s]
           need == Headroom * load[m]
           v == Vcpu[sku]
           w == Vcpu[s]
<1>4. need \in Nat
  <2>1. Headroom \in Nat /\ load[m] \in Nat
    BY RulesAssumption DEF TypeOK
  <2> QED
    BY <2>1
<1>5. Capacity(resource.size, m) = count * old
  BY DEF Capacity, count, sku
<1>6. Capacity(Resized(s, count), m) = count * new
  BY DEF Capacity, Resized
<1>7. need * v <= 100 * (count * old) * w
  BY <1>5 DEF FitsOn
<1>8. old * w <= new * v
  BY <1>2, <1>3
<1>9. old \in Nat /\ new \in Nat /\ v \in Nat \ {0} /\ w \in Nat
  BY <1>2
<1> HIDE DEF old, new, need, v, w
<1>10. need * v <= (100 * (count * new)) * v
  <2>1. 100 * (count * old) * w = (100 * count) * (old * w)
    BY <1>1, <1>9
  <2>2. (100 * (count * new)) * v = (100 * count) * (new * v)
    BY <1>1, <1>9
  <2>3. (100 * count) * (old * w) <= (100 * count) * (new * v)
    <3>1. 100 * count \in Nat /\ old * w \in Nat /\ new * v \in Nat
      BY <1>1, <1>9
    <3> QED
      BY <3>1, <1>8
  <2>4. /\ need * v \in Nat
        /\ (100 * count) * (old * w) \in Nat
        /\ (100 * count) * (new * v) \in Nat
    BY <1>1, <1>4, <1>9
  <2> QED
    BY <1>7, <2>1, <2>2, <2>3, <2>4
<1>11. 100 * (count * new) \in Nat
  BY <1>1, <1>9
<1>12. need <= 100 * (count * new)
  BY <1>4, <1>9, <1>10, <1>11, Cancel
<1> QED
  BY <1>4, <1>6, <1>11, <1>12 DEF need

-----------------------------------------------------------------------------
(* The rules.                                                              *)

\* Traits stay with the kinds that have them.
Kept == Fits(kind, resource.traits)

\* No target is the right answer for a kind sized otherwise, and where no size
\* has room or the present one is not known.
LEMMA NoTargetAnswers ==
    ASSUME NEW found \in SUBSET Metrics, NEW c \in Levels,
           \/ kind \notin CountKinds
           \/ Room(found) = {} \/ ~Listed \/ Is("unnamed") \/ Is("unmetered"),
           Advise(found, NoTarget, c)
    PROVE  Answers(found)
BY TargetsAssumption DEF Answers, Right, Targets

\* A size of a kind chosen from a family, if it holds what a finding of the kind
\* must be held to.
LEMMA SizeAnswers ==
    ASSUME NEW found \in SUBSET Metrics, NEW c \in Levels,
           NEW s \in Skus, NEW n \in Nat, kind \notin CountKinds,
           Proportional /\ kind \notin FamilyKinds =>
               Holds(Resized(s, n), IF kind = "redis" THEN found \ {"cpu"}
                                                       ELSE found),
           Advise(found, Resized(s, n), c)
    PROVE  Answers(found)
<1> DEFINE target == Resized(s, n)
<1>1. target \in Sizes
  BY DEF Sizes, Resized
<1>2. Right(found, target)
  BY <1>1 DEF Right, Targets
<1> QED
  BY <1>2 DEF Answers

\* The family rule answers: a listed SKU of the same family, or no target.
LEMMA DownsizeInFamilyAnswers ==
    ASSUME TypeOK, NEW found \in SUBSET Metrics, kind \in FamilyKinds,
           DownsizeInFamily(found)
    PROVE  Answers(found)
<1>1. kind \notin CountKinds /\ kind \in Kinds /\ count \in Nat
  BY DEF TypeOK, Sizes, kind, count, FamilyKinds, CountKinds
<1>2. "low" \in Levels /\ Confidence(found) \in Levels
  BY DEF Levels, Confidence
<1>3. CASE \/ Advise(found, NoTarget, "low")
           \/ Advise(found, NoTarget, Confidence(found))
  BY <1>1, <1>2, <1>3, NoTargetAnswers
<1>4. CASE \E s \in NextSmaller(kind, sku) :
               Advise(found, Resized(s, count), Confidence(found))
  BY <1>1, <1>2, <1>4, NextSmallerSkus, SizeAnswers
<1> QED
  BY <1>3, <1>4 DEF DownsizeInFamily, Unknown

\* The cache rule answers: its target has room for what the memory carries.
LEMMA RedisAnswers ==
    ASSUME TypeOK, NEW found \in SUBSET Metrics, RecommendRedis(found)
    PROVE  Answers(found)
<1>1. /\ kind = "redis" /\ kind \notin CountKinds /\ kind \in Kinds
      /\ count \in Nat
  BY DEF TypeOK, Sizes, kind, count, CountKinds, RecommendRedis
<1>2. "low" \in Levels /\ Confidence(found) \in Levels
  BY DEF Levels, Confidence
<1> DEFINE smaller == {s \in Catalog[kind] : /\ Family[s] = Family[sku]
                                             /\ Memory[s] < Memory[sku]
                                             /\ Number[s] >= MinCount[kind]}
           next == {s \in Last(smaller) :
                       "memory" \in found =>
                          Headroom * load["memory"]
                             <= 100 * Capacity(Resized(s, count), "memory")}
<1>3. CASE \/ Advise(found, NoTarget, "low")
           \/ Advise(found, NoTarget, Confidence(found))
  BY <1>1, <1>2, <1>3, NoTargetAnswers
<1>4. ASSUME NEW s \in next, Advise(found, Resized(s, count), Confidence(found))
      PROVE  Answers(found)
  <2>1. s \in Skus
    BY <1>1, CatalogAssumption DEF Last
  <2>2. /\ Headroom * load["memory"] \in Int
        /\ 100 * Capacity(Resized(s, count), "memory") \in Int
    <3>1. Headroom \in Nat /\ load["memory"] \in Nat
      BY RulesAssumption DEF TypeOK, Metrics
    <3>2. Capacity(Resized(s, count), "memory") = count * Memory[s]
      BY DEF Capacity, Resized
    <3>3. Memory[s] \in Nat
      BY <2>1, CatalogAssumption
    <3> QED
      BY <1>1, <3>1, <3>2, <3>3
  <2>3. Holds(Resized(s, count), found \ {"cpu"})
    BY <2>2 DEF Holds, Metrics
  <2> QED
    BY <1>1, <1>2, <1>4, <2>1, <2>3, SizeAnswers
<1>5. \/ Advise(found, NoTarget, "low")
      \/ Advise(found, NoTarget, Confidence(found))
      \/ \E s \in next : Advise(found, Resized(s, count), Confidence(found))
  BY DEF RecommendRedis, Unknown
<1> QED
  BY <1>3, <1>4, <1>5

\* The count of instances or nodes that covers the peak.
LEMMA FewerAnswers ==
    ASSUME TypeOK, NEW found \in SUBSET Metrics, "cpu" \in found,
           NEW c \in Levels, kind \in {"appserviceplan", "aks"},
           Advise(found, Resized(sku, Fewer(found)), c)
    PROVE  Answers(found)
<1>1. kind \notin CountKinds /\ kind # "redis" /\ MinCount[kind] \in Nat
  BY RulesAssumption DEF TypeOK, kind, CountKinds
<1>2. sku \in Skus
  BY DEF TypeOK, Sizes, sku
<1>3. Peak(found) \in Nat
  BY PeakHolds
<1>4. Fewer(found) \in Nat /\ Peak(found) <= Fewer(found)
  BY <1>1, <1>3 DEF Fewer, AtLeast
<1>5. Holds(Resized(sku, Fewer(found)), found)
  BY <1>4, PeakHolds
<1> QED
  BY <1>1, <1>2, <1>4, <1>5, SizeAnswers

\* A family step that was checked against the peak holds the load.
LEMMA StepAnswers ==
    ASSUME TypeOK, NEW found \in SUBSET Metrics, NEW c \in Levels,
           kind \in {"appserviceplan", "aks"}, Listed,
           NEW s \in NextSmaller(kind, sku), FitsOn(s, found),
           Advise(found, Resized(s, count), c)
    PROVE  Answers(found)
<1>1. /\ kind \notin CountKinds /\ kind # "redis" /\ kind \in Kinds
      /\ count \in Nat
  BY DEF TypeOK, Sizes, kind, count, CountKinds
<1>2. Proportional => Holds(Resized(s, count), found)
  BY FitsOnHolds
<1> QED
  BY <1>1, <1>2, NextSmallerSkus, SizeAnswers

\* The plan rule answers, deletion among its targets.
LEMMA AppServicePlanAnswers ==
    ASSUME TypeOK, NEW found \in SUBSET Metrics, "cpu" \in found,
           RecommendAppServicePlan(found)
    PROVE  Answers(found)
<1>1. kind = "appserviceplan" /\ kind \notin CountKinds
  BY DEF RecommendAppServicePlan, CountKinds
<1>2. "low" \in Levels /\ Confidence(found) \in Levels
  BY DEF Levels, Confidence
<1>3. CASE Advise(found, Delete, Confidence(found))
  BY <1>1, <1>2, <1>3, TargetsAssumption DEF Answers, Right, Targets
<1>4. CASE Advise(found, Resized(sku, Fewer(found)), Confidence(found))
  BY <1>1, <1>2, <1>4, FewerAnswers
<1>5. CASE \/ Advise(found, NoTarget, "low")
           \/ Advise(found, NoTarget, Confidence(found))
  BY <1>1, <1>2, <1>5, NoTargetAnswers
<1>6. CASE /\ Listed
           /\ \E s \in {t \in NextSmaller(kind, sku) : FitsOn(t, found)} :
                 Advise(found, Resized(s, count), Confidence(found))
  BY <1>1, <1>2, <1>6, StepAnswers
<1> QED
  BY <1>3, <1>4, <1>5, <1>6 DEF RecommendAppServicePlan, Unknown

\* The cluster rule answers.
LEMMA AksAnswers ==
    ASSUME TypeOK, NEW found \in SUBSET Metrics, "cpu" \in found,
           RecommendAks(found)
    PROVE  Answers(found)
<1>1. kind = "aks" /\ kind \notin CountKinds
  BY DEF RecommendAks, CountKinds
<1>2. "low" \in Levels
  BY DEF Levels
<1>3. CASE Advise(found, Resized(sku, Fewer(found)), "low")
  BY <1>1, <1>2, <1>3, FewerAnswers
<1>4. CASE Advise(found, NoTarget, "low")
  BY <1>1, <1>2, <1>4, NoTargetAnswers
<1>5. CASE /\ Listed
           /\ \E s \in {t \in NextSmaller(kind, sku) : FitsOn(t, found)} :
                 Advise(found, Resized(s, count), "low")
  BY <1>1, <1>2, <1>5, StepAnswers
<1> QED
  BY <1>3, <1>4, <1>5 DEF RecommendAks

\* Each kind sized by count, and what it is sold in.
LEMMA SoldIs ==
    ASSUME TypeOK, kind \in CountKinds
    PROVE  /\ Sold \subseteq Nat
           /\ kind = "sqldb" /\ Is("dtu") => Sold = Ladder["dtu"]
           /\ kind = "sqldb" /\ ~Is("dtu") => Sold = Ladder["database"]
           /\ kind = "sqlpool" /\ Is("dtu") => Sold = Ladder["pool_edtu"]
           /\ kind = "sqlpool" /\ ~Is("dtu") => Sold = Ladder["pool"]
           /\ kind = "sqlmi" => Sold = Ladder["managed_instance"]
           /\ kind = "servicebus" => Sold = Ladder["messaging_units"]
           /\ kind \in {"eventhub", "appgateway", "cosmos"} => Sold = 1..count
<1>1. \A l \in Ladders : Ladder[l] \subseteq Nat
  BY RulesAssumption
<1>2. count \in Nat
  BY DEF TypeOK, Sizes, count
<1> QED
  BY <1>1, <1>2 DEF Sold, Ladders, CountKinds

\* The rules of the kinds sized by count answer.
LEMMA CountAnswers ==
    ASSUME TypeOK, Kept, NEW found \in SUBSET Metrics, "cpu" \in found,
           kind \in CountKinds, Recommend(found)
    PROVE  Answers(found)
<1>1. "low" \in Levels /\ "medium" \in Levels /\ Confidence(found) \in Levels
  BY DEF Levels, Confidence
<1>2. \A k \in Kinds : MinCount[k] \in Nat
  BY RulesAssumption
<1>3. kind \in Kinds /\ MinCount[kind] \in Nat /\ 0 \in Nat
  BY <1>2 DEF TypeOK, kind
<1>4. kind \notin {"sqldb", "sqlpool"} => ~Is("dtu")
  BY DEF Kept, Fits, Is
<1>5. CASE kind = "sqldb" /\ RecommendSqlDb(found)
  <2>1. CASE Is("dtu")
    <3>1. Sold = Ladder["dtu"] /\ Sold \subseteq Nat
      BY <1>5, <2>1, SoldIs
    <3>2. CASE Unknown(found)
      BY <1>1, <3>2, NoTargetAnswers DEF Unknown
    <3>3. CASE OnLadder(found, Ladder["dtu"], 0, "medium")
      BY <1>1, <1>3, <2>1, <3>1, <3>3, OnLadderAnswers
    <3> QED
      BY <1>5, <2>1, <3>2, <3>3 DEF RecommendSqlDb
  <2>2. CASE ~Is("dtu")
    <3>1. Sold = Ladder["database"] /\ Sold \subseteq Nat
      BY <1>5, <2>2, SoldIs
    <3>2. CASE Is("unnamed") /\ Advise(found, NoTarget, "low")
      BY <1>1, <3>2, NoTargetAnswers
    <3>3. CASE OnLadder(found, Ladder["database"], MinCount[kind], "medium")
      BY <1>1, <1>3, <2>2, <3>1, <3>3, OnLadderAnswers
    <3> QED
      BY <1>5, <2>2, <3>2, <3>3 DEF RecommendSqlDb
  <2> QED
    BY <2>1, <2>2
<1>6. CASE kind = "sqlpool" /\ RecommendSqlPool(found)
  <2>1. CASE Is("dtu")
    <3>1. Sold = Ladder["pool_edtu"] /\ Sold \subseteq Nat
      BY <1>6, <2>1, SoldIs
    <3>2. CASE Unknown(found)
      BY <1>1, <3>2, NoTargetAnswers DEF Unknown
    <3>3. CASE OnLadder(found, Ladder["pool_edtu"], 0, "medium")
      BY <1>1, <1>3, <2>1, <3>1, <3>3, OnLadderAnswers
    <3> QED
      BY <1>6, <2>1, <3>2, <3>3 DEF RecommendSqlPool
  <2>2. CASE ~Is("dtu")
    <3>1. Sold = Ladder["pool"] /\ Sold \subseteq Nat
      BY <1>6, <2>2, SoldIs
    <3>2. OnLadder(found, Ladder["pool"], MinCount[kind], "medium")
      BY <1>6, <2>2 DEF RecommendSqlPool
    <3> QED
      BY <1>1, <1>3, <2>2, <3>1, <3>2, OnLadderAnswers
  <2> QED
    BY <2>1, <2>2
<1>7. CASE kind = "sqlmi" /\ RecommendSqlMi(found)
  <2>1. Sold = Ladder["managed_instance"] /\ Sold \subseteq Nat
    BY <1>7, SoldIs
  <2>2. OnLadder(found, Sold, MinCount[kind], "medium")
    BY <1>7, <2>1 DEF RecommendSqlMi
  <2> QED
    BY <1>1, <1>3, <1>4, <1>7, <2>1, <2>2, OnLadderAnswers
<1>8. CASE kind = "servicebus" /\ RecommendServiceBus(found)
  <2>1. Sold = Ladder["messaging_units"] /\ Sold \subseteq Nat
    BY <1>8, SoldIs
  <2>2. OnLadder(found, Sold, MinCount[kind], Confidence(found))
    BY <1>8, <2>1 DEF RecommendServiceBus
  <2> QED
    BY <1>1, <1>3, <1>4, <1>8, <2>1, <2>2, OnLadderAnswers
<1>9. CASE kind = "eventhub" /\ RecommendEventHub(found)
  <2>1. Sold = 1..count
    BY <1>9, SoldIs
  <2>2. InUnits(found, 1, "medium") /\ 1 >= MinCount[kind]
    BY <1>9, FloorAssumption DEF RecommendEventHub
  <2> QED
    BY <1>1, <1>4, <1>9, <2>1, <2>2, InUnitsAnswers
<1>10. CASE kind = "appgateway" /\ RecommendAppGateway(found)
  <2>1. Sold = 1..count
    BY <1>10, SoldIs
  <2>2. InUnits(found, MinCount[kind], "medium") /\ MinCount[kind] \in Nat \ {0}
    BY <1>3, <1>10, FloorAssumption DEF RecommendAppGateway
  <2>3. MinCount[kind] >= MinCount[kind]
    BY <1>3
  <2> QED
    BY <1>1, <1>4, <1>10, <2>1, <2>2, <2>3, InUnitsAnswers
<1>11. CASE kind = "cosmos" /\ RecommendCosmos(found)
  <2>1. Sold = 1..count
    BY <1>11, SoldIs
  <2>2. CASE Is("unmetered") /\ Advise(found, NoTarget, "low")
    BY <1>1, <2>2, NoTargetAnswers
  <2>3. CASE InUnits(found, MinCount[kind], "low")
    <3>1. MinCount[kind] \in Nat \ {0} /\ MinCount[kind] >= MinCount[kind]
      BY <1>3, <1>11, FloorAssumption
    <3> QED
      BY <1>1, <1>4, <1>11, <2>1, <2>3, <3>1, InUnitsAnswers
  <2> QED
    BY <1>11, <2>2, <2>3 DEF RecommendCosmos
<1>12. \/ RecommendSqlDb(found) \/ RecommendSqlPool(found)
       \/ RecommendSqlMi(found) \/ RecommendServiceBus(found)
       \/ RecommendEventHub(found) \/ RecommendAppGateway(found)
       \/ RecommendCosmos(found)
  BY DEF Recommend, CountKinds, RecommendVm, RecommendPostgres, RecommendRedis,
         RecommendAppServicePlan, RecommendAks
<1> QED
  BY <1>5, <1>6, <1>7, <1>8, <1>9, <1>10, <1>11, <1>12
     DEF RecommendSqlDb, RecommendSqlPool, RecommendSqlMi, RecommendServiceBus,
         RecommendEventHub, RecommendAppGateway, RecommendCosmos

\* Every rule answers right.
LEMMA RecommendAnswers ==
    ASSUME TypeOK, Kept, NEW found \in SUBSET Metrics, "cpu" \in found,
           Recommend(found)
    PROVE  Answers(found)
<1>1. CASE kind \in CountKinds
  BY <1>1, CountAnswers
<1>2. CASE kind \notin CountKinds
  <2>1. CASE RecommendVm(found) \/ RecommendPostgres(found)
    BY <2>1, DownsizeInFamilyAnswers
    DEF RecommendVm, RecommendPostgres, FamilyKinds
  <2>2. \/ RecommendVm(found) \/ RecommendPostgres(found)
        \/ RecommendRedis(found) \/ RecommendAppServicePlan(found)
        \/ RecommendAks(found)
    BY <1>2 DEF Recommend, CountKinds, RecommendSqlDb, RecommendSqlPool,
                RecommendSqlMi, RecommendServiceBus, RecommendEventHub,
                RecommendAppGateway, RecommendCosmos
  <2> QED
    BY <2>1, <2>2, RedisAnswers, AppServicePlanAnswers, AksAnswers
<1> QED
  BY <1>1, <1>2

-----------------------------------------------------------------------------
(* The resource's life.                                                    *)

\* The last finding, if there is one, was answered right.
Advised == seen # {} => Right(seen, rec.target)

\* No recommendation without a finding.
Idle == seen = {} => rec = None

\* A size that was advised by count is the smallest that holds the load.
Settled == kind \in CountKinds /\ sizedBy # {} => Room(sizedBy) = {}

IInv == TypeOK /\ Kept /\ Advised /\ Idle /\ Settled

\* Before the first run there is no finding and nothing was sized.
LEMMA InvInit == Init => IInv
<1> SUFFICES ASSUME Init PROVE IInv
  OBVIOUS
<1>1. resource \in [kind : Kinds, size : Sizes, traits : SUBSET Traits] /\ Kept
  BY ResourcesAssumption DEF Init, Kept, kind
<1>2. rec \in [target : Targets, confidence : Levels]
  BY DEF Init, None, Targets, Levels
<1>3. TypeOK
  BY <1>1, <1>2 DEF Init, TypeOK, Targets, Levels
<1> QED
  BY <1>1, <1>3 DEF Init, IInv, Advised, Idle, Settled

\* A step that leaves resource and load alone leaves the room there is.
LEMMA SameRoom ==
    ASSUME UNCHANGED <<resource, load>>
    PROVE  /\ kind' = kind /\ sku' = sku /\ count' = count /\ Listed' = Listed
           /\ \A t : Is(t)' = Is(t)
           /\ \A M, z : Holds(z, M)' = Holds(z, M)
           /\ \A M : Room(M)' = Room(M)
<1>1. kind' = kind /\ sku' = sku /\ count' = count /\ Listed' = Listed
  BY DEF kind, sku, count, Listed
<1>2. \A t : Is(t)' = Is(t)
  BY DEF Is
<1>3. \A M, z : Holds(z, M)' = Holds(z, M)
  BY DEF Holds, Capacity
<1>4. Sold' = Sold
  BY <1>1, <1>2 DEF Sold
<1>5. \A M : Room(M)' = Room(M)
  BY <1>1, <1>2, <1>3, <1>4 DEF Room
<1> QED
  BY <1>1, <1>2, <1>3, <1>5

\* A finding leaves a right answer and the room as it was.
LEMMA AdviseNext ==
    ASSUME IInv, NEW found \in SUBSET Metrics, Finds(found), Recommend(found)
    PROVE  IInv'
<1>1. "cpu" \in found
  BY DEF Finds
<1>2. PICK target, c : /\ Right(found, target) /\ c \in Levels
                       /\ Advise(found, target, c)
  BY <1>1, RecommendAnswers DEF IInv, Answers
<1>3. /\ rec' = [target |-> target, confidence |-> c] /\ seen' = found
      /\ UNCHANGED <<resource, load, sizedBy>>
  BY <1>2 DEF Advise
<1>4. rec' \in [target : Targets, confidence : Levels] /\ rec'.target = target
  BY <1>2, <1>3 DEF Right
<1>5. TypeOK'
  BY <1>3, <1>4 DEF IInv, TypeOK, Targets, Levels
<1>6. /\ kind' = kind /\ sku' = sku /\ Listed' = Listed
      /\ \A t : Is(t)' = Is(t)
      /\ \A M, z : Holds(z, M)' = Holds(z, M)
      /\ \A M : Room(M)' = Room(M)
  BY <1>3, SameRoom
<1>7. Kept' /\ Idle'
  BY <1>1, <1>3, <1>6 DEF IInv, Kept, Idle
<1>8. Settled'
  BY <1>3, <1>6 DEF IInv, Settled
<1>9. Advised'
  BY <1>2, <1>3, <1>4, <1>6 DEF Advised, Right
<1> QED
  BY <1>5, <1>7, <1>8, <1>9 DEF IInv

\* A target is only there for a finding.
LEMMA TargetWasFound ==
    ASSUME IInv, rec.target # NoTarget
    PROVE  seen # {} /\ Right(seen, rec.target)
BY DEF IInv, Advised, Idle, None

\* A run without a finding takes the answer away, the room stays.
LEMMA NoFindingNext == IInv /\ NoFinding => IInv'
<1> SUFFICES ASSUME IInv, NoFinding PROVE IInv'
  OBVIOUS
<1>1. UNCHANGED <<resource, load, sizedBy>> /\ rec' = None /\ seen' = {}
  BY DEF NoFinding
<1>2. TypeOK'
  <2>1. rec' \in [target : Targets, confidence : Levels]
    BY <1>1 DEF None, Targets, Levels
  <2> QED
    BY <1>1, <2>1 DEF IInv, TypeOK, Targets, Levels
<1>3. kind' = kind /\ \A M : Room(M)' = Room(M)
  BY <1>1, SameRoom
<1>4. Kept' /\ Settled'
  BY <1>1, <1>3 DEF IInv, Kept, Settled
<1> QED
  BY <1>1, <1>2, <1>4 DEF IInv, Advised, Idle, None

\* At the size that was advised nothing smaller has room for the same load: it
\* would have had room before, and the advice was the least of those.
LEMMA ResizeNext == IInv /\ Resize => IInv'
<1> SUFFICES ASSUME IInv, Resize PROVE IInv'
  OBVIOUS
<1> DEFINE target == rec.target
<1>1. /\ target \in Sizes
      /\ resource' = [resource EXCEPT !.size = target]
      /\ sizedBy' = seen /\ seen' = {} /\ rec' = None /\ load' = load
  BY DEF Resize
<1>2. seen # {} /\ Right(seen, target)
  BY <1>1, TargetWasFound, TargetsAssumption
<1>3. resource \in [kind : Kinds, size : Sizes, traits : SUBSET Traits]
  BY DEF IInv, TypeOK
<1>4. /\ resource' \in [kind : Kinds, size : Sizes, traits : SUBSET Traits]
      /\ resource'.kind = resource.kind /\ resource'.traits = resource.traits
      /\ resource'.size = target
  BY <1>1, <1>3
<1>5. TypeOK'
  <2>1. rec' \in [target : Targets, confidence : Levels]
    BY <1>1 DEF None, Targets, Levels
  <2> QED
    BY <1>1, <1>4, <2>1 DEF IInv, TypeOK, Targets, Levels
<1>6. /\ kind' = kind /\ sku' = target.sku /\ count' = target.count
      /\ \A t : Is(t)' = Is(t)
  BY <1>4 DEF kind, sku, count, Is
<1>7. Kept'
  BY <1>4, <1>6 DEF IInv, Kept
<1>8. Settled'
  <2>1. PICK f : f = seen
    OBVIOUS
  <2>2. SUFFICES ASSUME kind' \in CountKinds, NEW n, n \in Room(f)' PROVE FALSE
    BY <1>1, <2>1 DEF Settled, Room, Holds
  <2>3. /\ target.sku = sku /\ target.count \in Room(f)
        /\ \A k \in Room(f) : target.count <= k
    BY <1>1, <1>2, <1>6, <2>1, <2>2 DEF Right
  <2>4. sku' = sku /\ count' < count /\ count' \in Nat /\ count \in Nat
    BY <1>1, <1>3, <1>6, <2>3 DEF Room, Sizes, count
  <2>5. /\ n \in Sold' /\ n < count'
        /\ ~Is("dtu")' => n >= MinCount[kind']
        /\ Holds(Resized(sku, n), f)
    BY <1>1, <1>6, <2>2, <2>4 DEF Room, Holds, Capacity, Resized
  <2>6. n \in Sold /\ n < count
    <3>1. kind \in CountKinds /\ Sold \subseteq Nat
      BY <1>6, <2>2, SoldIs DEF IInv
    <3>2. CASE kind \in {"eventhub", "appgateway", "cosmos"}
      <4>1. Sold = 1..count /\ Sold' = 1..count'
        BY <1>6, <3>2 DEF Sold
      <4> QED
        BY <2>4, <2>5, <4>1
    <3>3. CASE kind \notin {"eventhub", "appgateway", "cosmos"}
      <4>1. Sold' = Sold
        BY <1>6, <3>1, <3>3 DEF Sold, CountKinds
      <4>2. n \in Nat
        BY <2>5, <3>1, <4>1
      <4> QED
        BY <2>4, <2>5, <4>1, <4>2
    <3> QED
      BY <3>2, <3>3
  <2>7. n \in Nat
    BY <1>6, <2>2, <2>6, SoldIs DEF IInv
  <2>8. n \in Room(f)
    BY <1>6, <2>5, <2>6 DEF Room
  <2> QED
    BY <1>6, <2>3, <2>4, <2>5, <2>7, <2>8
<1> QED
  BY <1>1, <1>5, <1>7, <1>8 DEF IInv, Advised, Idle, None

\* A deleted plan is of count 0; no kind sized by count is deleted.
LEMMA DeletePlanNext == IInv /\ DeletePlan => IInv'
<1> SUFFICES ASSUME IInv, DeletePlan PROVE IInv'
  OBVIOUS
<1>1. /\ resource' = [resource EXCEPT !.size.count = 0]
      /\ rec' = None /\ seen' = {} /\ UNCHANGED <<load, sizedBy>>
  BY DEF DeletePlan
<1>2. resource \in [kind : Kinds, size : Sizes, traits : SUBSET Traits]
  BY DEF IInv, TypeOK
<1>3. /\ resource' \in [kind : Kinds, size : Sizes, traits : SUBSET Traits]
      /\ resource'.kind = resource.kind /\ resource'.traits = resource.traits
      /\ resource'.size.count = 0
  <2>1. resource' = [kind |-> resource.kind, traits |-> resource.traits,
                     size |-> [sku |-> resource.size.sku, count |-> 0]]
    BY <1>1, <1>2 DEF Sizes
  <2>2. resource.size.sku \in Skus
    BY <1>2 DEF Sizes
  <2> QED
    BY <1>2, <2>1, <2>2 DEF Sizes
<1>4. TypeOK'
  <2>1. rec' \in [target : Targets, confidence : Levels]
    BY <1>1 DEF None, Targets, Levels
  <2> QED
    BY <1>1, <1>3, <2>1 DEF IInv, TypeOK, Targets, Levels
<1>5. Kept'
  BY <1>3 DEF IInv, Kept, kind
<1>6. kind' \in CountKinds => Sold' \subseteq Nat
  <2>1. \A l \in Ladders : Ladder[l] \subseteq Nat
    BY RulesAssumption
  <2>2. count' = 0
    BY <1>3 DEF count
  <2> QED
    BY <2>1, <2>2 DEF Sold, Ladders, CountKinds
<1>7. Settled'
  BY <1>3, <1>6 DEF Settled, Room, count
<1> QED
  BY <1>1, <1>4, <1>5, <1>7 DEF IInv, Advised, Idle, None

\* Every step keeps the invariant.
LEMMA InvNext == IInv /\ [Next]_vars => IInv'
<1> SUFFICES ASSUME IInv, [Next]_vars PROVE IInv'
  OBVIOUS
<1>1. CASE \E found \in SUBSET Metrics : Finds(found) /\ Recommend(found)
  BY <1>1, AdviseNext
<1>2. CASE UNCHANGED vars
  <2>1. UNCHANGED <<resource, load, seen, rec, sizedBy>>
    BY <1>2 DEF vars
  <2> QED
    BY <2>1 DEF IInv, TypeOK, Kept, Advised, Idle, Settled, Right, Room, Sold,
                Holds, Capacity, Listed, Is, kind, sku, count
<1> QED
  BY <1>1, <1>2, NoFindingNext, ResizeNext, DeletePlanNext DEF Next, Gone

\* The inductive invariant.
LEMMA InvAlways == Spec => []IInv
<1> QED
  BY InvInit, InvNext, PTL DEF Spec

\* Type correctness of advice and of the sizes it leads to.
THEOREM TypeCorrect == Spec => []TypeOK
<1>1. IInv => TypeOK
  BY DEF IInv
<1> QED
  BY <1>1, InvAlways, PTL

\* Advice by count is exact: recommend/ never overshoots, and never stays silent
\* while a smaller size has room.
THEOREM AdviceIsExact == Spec => []Smallest
<1>1. IInv => Smallest
  <2> SUFFICES ASSUME IInv, seen # {}, kind \in CountKinds PROVE Smallest
    BY DEF Smallest
  <2>1. Right(seen, rec.target)
    BY DEF IInv, Advised
  <2>2. CASE rec.target = NoTarget
    BY <2>1, <2>2, TargetsAssumption DEF Smallest, Right
  <2>3. CASE rec.target # NoTarget
    BY <2>1, <2>3 DEF Smallest, Right
  <2> QED
    BY <2>2, <2>3
<1> QED
  BY <1>1, InvAlways, PTL

\* Advice by count does not repeat itself: a size that was advised is not
\* followed by another while the load is what it was.
THEOREM AdvisedOnce == Spec => []Stable
<1>1. IInv => Stable
  <2> SUFFICES ASSUME IInv, kind \in CountKinds, sizedBy # {},
                      sizedBy \subseteq seen, rec.target # NoTarget
               PROVE  FALSE
    BY DEF Stable
  <2>1. Right(seen, rec.target)
    BY TargetWasFound
  <2>2. rec.target.count \in Room(seen)
    BY <2>1 DEF Right
  <2>3. rec.target.count \in Room(sizedBy)
    BY <2>2 DEF Room, Holds
  <2> QED
    BY <2>3 DEF IInv, Settled
<1> QED
  BY <1>1, InvAlways, PTL

\* Where smaller SKUs of plans and nodes have as much memory for each vCPU, a
\* target of every kind but the plain family step holds the load.
THEOREM TargetsHold == ASSUME Proportional PROVE Spec => []Covers
<1>1. IInv => Covers
  <2> SUFFICES ASSUME IInv, rec.target \in Sizes, kind \notin FamilyKinds
               PROVE  Covers
    BY DEF Covers
  <2>1. Right(seen, rec.target)
    BY TargetWasFound, TargetsAssumption
  <2> QED
    BY <2>1 DEF Right, Covers
<1> QED
  BY <1>1, InvAlways, PTL
=============================================================================
