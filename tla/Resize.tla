------------------------------- MODULE Resize -------------------------------
(***************************************************************************)
(* One resource under the weekly advice of the recommenders.               *)
(*                                                                         *)
(* A FinOps run measures the resource's load as a share of its size and    *)
(* asks the recommender of its kind (recommend/) for a smaller one; the    *)
(* owner may apply the answer, and the next run measures the same load     *)
(* against the new size.                                                   *)
(*                                                                         *)
(* A size is a SKU and a count: of nodes, instances, or units of a ladder  *)
(* (DTU, vCores, messaging, throughput or capacity units, hundreds of      *)
(* RU/s).  Loads and capacities share one unit, so what the rules compute  *)
(* from percentages, current * observed / 100, is the load itself.  Left   *)
(* out: reasons, prices, the spelling of a target, storage tiers.  A       *)
(* cluster has one node pool.                                              *)
(***************************************************************************)
EXTENDS Integers, FiniteSets

CONSTANTS
    Skus,                 \* sizes there are
    Catalog,              \* those config/ lists for each kind
    Family, Vcpu, Memory, \* of a SKU; the capacities of one unit of it
    Number,               \* the number in the name of a cache size
    Ladder,               \* counts that are sold, by name
    Resources,            \* resources to advise, see Kinds
    Loads,                \* what one metric may carry
    Threshold,            \* use in percent under which a metric is cold
    Headroom,             \* in percent
    MinCount, MinVcpu,    \* the floors of each kind's rules
    NoTarget, Delete

Metrics == {"cpu", "memory"}

\* Kinds a SKU is chosen for from a family, and kinds sized by a count alone.
FamilyKinds == {"vm", "postgres"}
CountKinds  == {"sqldb", "sqlpool", "sqlmi", "servicebus",
                "eventhub", "appgateway", "cosmos"}
Kinds == FamilyKinds \cup CountKinds \cup {"redis", "appserviceplan", "aks"}

\* Kinds whose second FinOps metric is their memory.
TwoMetrics == FamilyKinds \cup {"redis", "appserviceplan", "aks", "servicebus"}

Ladders == {"dtu", "pool_edtu", "database", "pool", "managed_instance",
            "messaging_units"}

\* A database or pool sold by DTU; a database whose SKU name has no parts; an
\* account that reports no throughput; a plan that scales itself; one with apps.
Traits == {"dtu", "unnamed", "unmetered", "elastic", "apps"}

Sizes == [sku : Skus, count : Nat]

ASSUME CatalogAssumption ==
    /\ Catalog \in [Kinds -> SUBSET Skus]
    /\ {Vcpu, Memory} \subseteq [Skus -> Nat \ {0}]
    /\ Number \in [Skus -> Nat]

ASSUME RulesAssumption ==
    /\ Ladder \in [Ladders -> SUBSET (Nat \ {0})]
    /\ Headroom \in Nat /\ Headroom >= 100
    /\ {MinCount, MinVcpu} \subseteq [Kinds -> Nat]
    /\ Threshold \in [Kinds -> [Metrics -> 0..100]]
    /\ Loads \subseteq Nat

\* An event hub namespace has no floor but its last unit.  No code checks the
\* others: with a floor of 0 an idle gateway is advised to have no instance.
ASSUME FloorAssumption ==
    /\ MinCount["eventhub"] <= 1
    /\ MinCount["appgateway"] >= 1
    /\ MinCount["cosmos"] >= 1

\* Which kinds have which trait.
Fits(k, traits) ==
    /\ "dtu" \in traits => k \in {"sqldb", "sqlpool"}
    /\ "unnamed" \in traits => k = "sqldb" /\ "dtu" \notin traits
    /\ "unmetered" \in traits => k = "cosmos"

ASSUME ResourcesAssumption ==
    /\ Resources \subseteq [kind : Kinds, size : Sizes, traits : SUBSET Traits]
    /\ \A r \in Resources : Fits(r.kind, r.traits)

ASSUME TargetsAssumption == NoTarget \notin Sizes /\ Delete \notin Sizes

VARIABLES
    resource, \* [kind, size, traits]; of count 0 once deleted
    load,     \* what each metric carries
    seen,     \* metrics of the last finding
    rec,      \* its recommendation
    sizedBy   \* metrics the resource's size was chosen by

vars == <<resource, load, seen, rec, sizedBy>>

None == [target |-> NoTarget, confidence |-> "none"]

TypeOK ==
    /\ resource \in [kind : Kinds, size : Sizes, traits : SUBSET Traits]
    /\ load \in [Metrics -> Loads]
    /\ seen \subseteq Metrics
    /\ rec \in [target : Sizes \cup {NoTarget, Delete},
                confidence : {"none", "low", "medium"}]
    /\ sizedBy \subseteq Metrics

Capacity(size, m) ==
    size.count * (IF m = "cpu" THEN Vcpu[size.sku] ELSE Memory[size.sku])

Init ==
    /\ resource \in Resources
    /\ load \in [Metrics -> Loads]
    /\ \A m \in Metrics : load[m] <= Capacity(resource.size, m)
    /\ seen = {}
    /\ rec = None
    /\ sizedBy = {}
-----------------------------------------------------------------------------
(* The finding.                                                            *)

kind == resource.kind
sku == resource.size.sku
count == resource.size.count
Is(trait) == trait \in resource.traits

IsCold(m) == 100 * load[m] < Threshold[kind][m] * Capacity(resource.size, m)

\* The metrics of a finding: the first, and the other unless it had no data.
Finds(found) ==
    /\ count > 0
    /\ "cpu" \in found
    /\ found \subseteq (IF kind \in TwoMetrics THEN Metrics ELSE {"cpu"})
    /\ \A m \in found : IsCold(m)

Advise(found, target, confidence) ==
    /\ rec' = [target |-> target, confidence |-> confidence]
    /\ seen' = found
    /\ UNCHANGED <<resource, load, sizedBy>>

Confidence(found) == IF "memory" \in found THEN "medium" ELSE "low"

Resized(s, n) == [sku |-> s, count |-> n]
-----------------------------------------------------------------------------
(* Sizes that fit.                                                         *)

\* ceil(current * observed / 100 * headroom), in units of a SKU
Needs(s, m) ==
    LET unit == 100 * Capacity(Resized(s, 1), m)
    IN  (Headroom * load[m] + unit - 1) \div unit

\* Mutant: the quieter metric.
Peak_Least(found) ==
    LET needs == {Needs(sku, m) : m \in found}
    IN  CHOOSE n \in needs : \A k \in needs : n <= k

\* The busier metric decides.
Peak(found) ==
    LET needs == {Needs(sku, m) : m \in found}
    IN  CHOOSE n \in needs : \A k \in needs : k <= n

AtLeast(floor, n) == IF n < floor THEN floor ELSE n

\* Mutant: the current size is not left out.
FitsDown_Same(found, ladder, floor) ==
    {n \in ladder : AtLeast(floor, Peak(found)) <= n /\ n <= count}

\* fit_down: sizes of a ladder below the current one, from the floor, that cover
\* the observed share and the headroom.
FitsDown(found, ladder, floor) ==
    {n \in ladder : AtLeast(floor, Peak(found)) <= n /\ n < count}

Least(S) == CHOOSE n \in S : \A m \in S : n <= m

\* Of some SKUs, the last in the order of vCPUs and memory.
Last(S) ==
    {s \in S : \A t \in S :
        Vcpu[t] < Vcpu[s] \/ (Vcpu[t] = Vcpu[s] /\ Memory[t] <= Memory[s])}

\* next_smaller_in_family, under the floor of a kind.
NextSmaller(k, from) ==
    Last({s \in Catalog[k] : /\ Family[s] = Family[from]
                             /\ MinVcpu[k] <= Vcpu[s]
                             /\ Vcpu[s] < Vcpu[from]})

\* config/ lists the resource's SKU or tier.
Listed == sku \in Catalog[kind]

\* Mutant: the peak is not scaled up to the smaller SKU.
FitsOn_Unscaled(s, found) ==
    \A m \in found : Headroom * load[m] <= 100 * Capacity(resource.size, m)

\* peak * headroom * vcpu / target.vcpu <= 100
FitsOn(s, found) ==
    \A m \in found :
        Headroom * load[m] * Vcpu[sku]
            <= 100 * Capacity(resource.size, m) * Vcpu[s]
-----------------------------------------------------------------------------
(* The rules.                                                              *)

\* A SKU or tier that config/ does not list: the row is kept, without a target.
Unknown(found) == ~Listed /\ Advise(found, NoTarget, "low")

\* downsize_in_family
DownsizeInFamily(found) ==
    \/ Unknown(found)
    \/ /\ Listed
       /\ NextSmaller(kind, sku) = {}
       /\ Advise(found, NoTarget, Confidence(found))
    \/ /\ Listed
       /\ \E s \in NextSmaller(kind, sku) :
             Advise(found, Resized(s, count), Confidence(found))

RecommendVm(found) == kind = "vm" /\ DownsizeInFamily(found)

RecommendPostgres(found) == kind = "postgres" /\ DownsizeInFamily(found)

\* The largest smaller cache, if its memory covers the peak.
RecommendRedis(found) ==
    /\ kind = "redis"
    /\ LET smaller == {s \in Catalog[kind] : /\ Family[s] = Family[sku]
                                       /\ Memory[s] < Memory[sku]
                                       /\ Number[s] >= MinCount[kind]}
           next == {s \in Last(smaller) :
                       "memory" \in found =>
                          Headroom * load["memory"]
                             <= 100 * Capacity(Resized(s, count), "memory")}
       IN  \/ Unknown(found)
           \/ /\ Listed
              /\ next = {}
              /\ Advise(found, NoTarget, Confidence(found))
           \/ /\ Listed
              /\ \E s \in next :
                    Advise(found, Resized(s, count), Confidence(found))

\* The smallest size of a ladder that fits.
OnLadder(found, ladder, floor, confidence) ==
    LET fits == FitsDown(found, ladder, floor)
    IN  \/ fits = {} /\ Advise(found, NoTarget, confidence)
        \/ fits # {} /\ Advise(found, Resized(sku, Least(fits)), confidence)

\* The target of a database by vCore is its SKU name with another last part.
RecommendSqlDb(found) ==
    /\ kind = "sqldb"
    /\ LET fits == FitsDown(found, Ladder["database"], MinCount[kind])
       IN  \/ Is("dtu") /\ Unknown(found)
           \/ /\ Is("dtu") /\ Listed
              /\ OnLadder(found, Ladder["dtu"], 0, "medium")
           \/ /\ ~Is("dtu") /\ (Is("unnamed") => fits = {})
              /\ OnLadder(found, Ladder["database"], MinCount[kind], "medium")
           \/ /\ ~Is("dtu") /\ Is("unnamed") /\ fits # {}
              /\ Advise(found, NoTarget, "low")

RecommendSqlPool(found) ==
    /\ kind = "sqlpool"
    /\ \/ Is("dtu") /\ Unknown(found)
       \/ /\ Is("dtu") /\ Listed
          /\ OnLadder(found, Ladder["pool_edtu"], 0, "medium")
       \/ /\ ~Is("dtu")
          /\ OnLadder(found, Ladder["pool"], MinCount[kind], "medium")

RecommendSqlMi(found) ==
    /\ kind = "sqlmi"
    /\ OnLadder(found, Ladder["managed_instance"], MinCount[kind], "medium")

RecommendServiceBus(found) ==
    /\ kind = "servicebus"
    /\ OnLadder(found, Ladder["messaging_units"], MinCount[kind],
                Confidence(found))

\* A contiguous ladder: the ceiling itself.
InUnits(found, floor, confidence) ==
    LET n == AtLeast(floor, Peak(found))
    IN  Advise(found, IF n < count THEN Resized(sku, n) ELSE NoTarget,
               confidence)

RecommendEventHub(found) == kind = "eventhub" /\ InUnits(found, 1, "medium")

RecommendAppGateway(found) ==
    kind = "appgateway" /\ InUnits(found, MinCount[kind], "medium")

RecommendCosmos(found) ==
    /\ kind = "cosmos"
    /\ \/ Is("unmetered") /\ Advise(found, NoTarget, "low")
       \/ ~Is("unmetered") /\ InUnits(found, MinCount[kind], "low")

\* Fewer instances or nodes, from the floor up.
Fewer(found) == AtLeast(MinCount[kind], Peak(found))

\* An empty plan goes; else fewer instances; else one step down the family.
RecommendAppServicePlan(found) ==
    /\ kind = "appserviceplan"
    /\ LET c == Confidence(found)
           scaleIn == /\ ~Is("elastic") /\ count > MinCount[kind]
                      /\ Fewer(found) < count
           next == {s \in NextSmaller(kind, sku) : FitsOn(s, found)}
       IN  \/ ~Is("apps") /\ Advise(found, Delete, c)
           \/ /\ Is("apps") /\ scaleIn
              /\ Advise(found, Resized(sku, Fewer(found)), c)
           \/ Is("apps") /\ ~scaleIn /\ Unknown(found)
           \/ /\ Is("apps") /\ ~scaleIn /\ Listed
              /\ \/ next = {} /\ Advise(found, NoTarget, c)
                 \/ \E s \in next : Advise(found, Resized(s, count), c)

\* Fewer nodes; else, for a pool at its floor, one step down the family.
RecommendAks(found) ==
    /\ kind = "aks"
    /\ LET scaleIn == Fewer(found) < count
           next == IF count = MinCount[kind] /\ Listed
                   THEN {s \in NextSmaller(kind, sku) : FitsOn(s, found)}
                   ELSE {}
       IN  \/ scaleIn /\ Advise(found, Resized(sku, Fewer(found)), "low")
           \/ ~scaleIn /\ next = {} /\ Advise(found, NoTarget, "low")
           \/ /\ ~scaleIn
              /\ \E s \in next : Advise(found, Resized(s, count), "low")

\* No finding: the primary metric is not cold or has no data, or another one is
\* not cold.
NoFinding ==
    /\ count > 0
    /\ rec' = None
    /\ seen' = {}
    /\ UNCHANGED <<resource, load, sizedBy>>

\* The owner applies the recommendation.
Resize ==
    /\ rec.target \in Sizes
    /\ resource' = [resource EXCEPT !.size = rec.target]
    /\ sizedBy' = seen
    /\ seen' = {}
    /\ rec' = None
    /\ UNCHANGED load

\* Mutant: the plan is resized to the answer.
DeletePlan_Resized ==
    /\ rec.target = Delete
    /\ resource' = [resource EXCEPT !.size = Delete]
    /\ rec' = None
    /\ seen' = {}
    /\ UNCHANGED <<load, sizedBy>>

DeletePlan ==
    /\ rec.target = Delete
    /\ resource' = [resource EXCEPT !.size.count = 0]
    /\ rec' = None
    /\ seen' = {}
    /\ UNCHANGED <<load, sizedBy>>

Gone == count = 0 /\ UNCHANGED vars

Recommend(found) ==
    \/ RecommendVm(found)
    \/ RecommendPostgres(found)
    \/ RecommendRedis(found)
    \/ RecommendSqlDb(found)
    \/ RecommendSqlPool(found)
    \/ RecommendSqlMi(found)
    \/ RecommendServiceBus(found)
    \/ RecommendEventHub(found)
    \/ RecommendAppGateway(found)
    \/ RecommendCosmos(found)
    \/ RecommendAppServicePlan(found)
    \/ RecommendAks(found)

Next ==
    \/ \E found \in SUBSET Metrics : Finds(found) /\ Recommend(found)
    \/ NoFinding
    \/ Resize
    \/ DeletePlan
    \/ Gone

Spec == Init /\ [][Next]_vars
-----------------------------------------------------------------------------
(* Properties.                                                             *)

\* This many units of the SKU hold what the finding measured, with headroom.
Holds(size, metrics) ==
    \A m \in metrics : 100 * Capacity(size, m) >= Headroom * load[m]

\* Apart from the plain step down a family, a target holds the load of every
\* metric that was measured, with headroom; of a cache, its memory.
Covers ==
    rec.target \in Sizes /\ kind \notin FamilyKinds =>
        Holds(rec.target, IF kind = "redis" THEN seen \ {"cpu"} ELSE seen)

\* Counts a kind sized by count is sold in.
Sold ==
    CASE kind = "sqldb" /\ Is("dtu")    -> Ladder["dtu"]
      [] kind = "sqldb" /\ ~Is("dtu")   -> Ladder["database"]
      [] kind = "sqlpool" /\ Is("dtu")  -> Ladder["pool_edtu"]
      [] kind = "sqlpool" /\ ~Is("dtu") -> Ladder["pool"]
      [] kind = "sqlmi"      -> Ladder["managed_instance"]
      [] kind = "servicebus" -> Ladder["messaging_units"]
      [] OTHER               -> 1..count

\* Those below the current one that respect the floor and hold what these
\* metrics carry.
Room(metrics) ==
    {n \in Sold : /\ n < count
                  /\ ~Is("dtu") => n >= MinCount[kind]
                  /\ Holds(Resized(sku, n), metrics)}

\* Advice by count is exact: the smallest size that holds the load, and no
\* target only if none does or the resource's SKU or size is unknown.
Smallest ==
    seen # {} /\ kind \in CountKinds =>
        IF rec.target = NoTarget
        THEN Room(seen) = {} \/ ~Listed \/ Is("unnamed") \/ Is("unmetered")
        ELSE /\ rec.target.count \in Room(seen)
             /\ \A n \in Room(seen) : rec.target.count <= n

\* A resource sized by count is advised once: after its owner followed the
\* advice, the same load measured by the same metrics brings no further target.
Stable ==
    kind \in CountKinds /\ sizedBy # {} /\ sizedBy \subseteq seen
        => rec.target = NoTarget
=============================================================================
