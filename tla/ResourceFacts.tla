---------------------------- MODULE ResourceFacts ---------------------------
(***************************************************************************)
(* What a run knows of one resource, from its inventory row to its         *)
(* judgement: resource_types/ (parse, enrich, active, finops_skip),        *)
(* the applies_to of config/thresholds/default.yaml, metrics/derive.py and *)
(* what the recommenders require of the facts.                             *)
(*                                                                         *)
(* The run lists two resources with the same row, spelled in the case of   *)
(* the catalogs and in another one: Resource Graph's casing is not         *)
(* guaranteed.  Each carries the same load, constant over the window.      *)
(*                                                                         *)
(* The last values of the metrics that size an account without rating it   *)
(* (evaluate_cold's inputs) stand in the row.                              *)
(*                                                                         *)
(* Left out: ids, names and tags, the columns no decision reads, the sku   *)
(* column, the evaluators' second metric.  Shares are integers, hundredths *)
(* of a percent; targets by ladder and by family are in Resize.            *)
(***************************************************************************)
EXTENDS Integers, FiniteSets, FiniteSetsExt, Sequences

CONSTANTS
    Rows,          \* inventory rows: the columns each kind projects, by word
    Loads,         \* what a metric may read
    Missing,       \* every interval of the window without a value
    Null,          \* a column without a value
    BytesPerMb,    \* BYTES_PER_MB
    MbPerTu, MbPerPu, CuPerInstance,
    MinInstances,  \* of a gateway, by its rules
    MinPlan,       \* min_instances of a plan
    MinNodes,      \* min_nodes of a pool
    Vcores, MinVcores,  \* a database's ladder and the least size advised
    Headroom,      \* in percent
    Hot, HotSubnet, Cold,  \* thresholds, in hundredths of a percent
    Dtu,           \* tiers of config/sql-skus.yaml
    Objectives,    \* and its DTU objectives
    Bare,          \* SKU names of vCore databases without a "_"
    Catalog        \* SKUs the other catalogs list

Kinds == {"vm", "sqldb", "sqlpool", "sqlmi", "postgres", "cosmos", "eventhub",
          "vnet", "appserviceplan", "aks", "redis", "servicebus", "appgateway",
          "storage"}

\* Numbers are counts: of units, instances, addresses, or the bits of a prefix.
Numbers == Nat \cup {Null}

ASSUME RowsAssumption ==
    /\ Null \notin Nat
    /\ \A r \in Rows :
          /\ r.kind \in Kinds
          /\ r.kind \in {"sqldb", "sqlpool", "sqlmi", "eventhub",
                        "appserviceplan", "servicebus", "appgateway"}
                => r.capacity \in Numbers
          /\ r.kind = "appgateway" => /\ r.minimum \in Numbers
                                      /\ r.autoscale \in BOOLEAN
          /\ r.kind = "vnet" => /\ r.used \in Numbers
                                /\ r.prefixes \in Seq(Numbers)
          /\ r.kind = "appserviceplan" => /\ r.sites \in Numbers
                                          /\ r.elastic \in BOOLEAN
          /\ r.kind = "aks" => \A i \in DOMAIN r.pools :
                /\ {r.pools[i].count, r.pools[i].minimum} \subseteq Numbers
                /\ r.pools[i].autoscale \in BOOLEAN
          /\ r.kind = "cosmos" => {r.provisioned, r.autoscale_max}
                                     \subseteq Numbers

ASSUME LoadsAssumption == Loads \subseteq Nat /\ Missing \notin Nat

ASSUME RulesAssumption ==
    /\ {BytesPerMb, MbPerTu, MbPerPu, CuPerInstance, MinInstances, MinPlan}
          \subseteq Nat \ {0}
    /\ MinNodes \in Nat /\ MinVcores \in Nat /\ Vcores \subseteq Nat
    /\ Headroom \in Nat /\ Headroom >= 100
    /\ {Hot, HotSubnet, Cold} \subseteq Nat

\* The two resources: spelled in the catalogs' case, or not.
Spellings == BOOLEAN

VARIABLES
    mode,   \* "ops" or "finops"
    row,    \* the row
    load,   \* what every metric reads
    step,   \* the part of _run_type that comes next
    props,  \* [Spellings -> props of the parsed, enriched resource]
    series, \* [Spellings -> metric key -> share, or Missing]
    fate,   \* what has become of each resource
    target  \* units or instances advised; 0 for none

facts == <<mode, row, load, step, props, series, fate, target>>

Fates == {"listed", "inactive", "unsizeable", "unmeasured", "uncovered",
          "quiet", "hot", "busy", "cold", "reported", "unknown"}

FactsTypeOK ==
    /\ mode \in {"ops", "finops"}
    /\ row \in Rows
    /\ load \in Loads \cup {Missing}
    /\ step \in {"list", "filter", "size", "fetch", "evaluate", "recommend",
                 "done"}
    /\ DOMAIN props = Spellings
    /\ \A t \in Spellings : \A m \in DOMAIN series[t] :
          series[t][m] \in Nat \cup {Missing}
    /\ fate \in [Spellings -> Fates]
    /\ target \in [Spellings -> Nat]
-----------------------------------------------------------------------------
(* Text and numbers of a row.                                              *)

Text(word, titled) == [word |-> word, titled |-> titled]

Lower(text) == text.word

\* `or 0`
OrZero(n) == IF n = Null THEN 0 ELSE n

\* round(n / d), half to even.
Round(n, d) ==
    LET q == n \div d
        r == 2 * (n % d)
    IN  IF r > d \/ (r = d /\ q % 2 = 1) THEN q + 1 ELSE q

Ceiling(n, d) == (n + d - 1) \div d
-----------------------------------------------------------------------------
(* Rows become resources.  t: spelled in the catalogs' case.               *)

ParseVm(r, t) == [power_state |-> Text(r.state, t), sku |-> Text(r.sku, t)]

PurchasingModel(tier, sku) ==
    CASE Lower(tier) \in {"basic", "standard", "premium"} -> "dtu"
      [] OTHER -> IF Lower(sku) \in {"gp_s_gen5_2"} THEN "serverless"
                                                   ELSE "vcore"

ParseSqlDb(r, t) ==
    LET tier == Text(r.tier, t)
        sku  == Text(r.sku, t)
    IN  [tier |-> tier, sku |-> sku, status |-> Text(r.state, t),
         capacity |-> OrZero(r.capacity), pool_id |-> r.pool,
         purchasing_model |-> PurchasingModel(tier, sku)]

ParseSqlPool(r, t) ==
    [tier |-> Text(r.tier, t), state |-> Text(r.state, t),
     capacity |-> OrZero(r.capacity),
     purchasing_model |->
        IF Lower(Text(r.tier, t)) \in {"basic", "standard", "premium"}
        THEN "dtu" ELSE "vcore"]

ParseSqlMi(r, t) ==
    [state |-> Text(r.state, t), capacity |-> OrZero(r.capacity)]

ParsePostgres(r, t) == [state |-> Text(r.state, t), sku |-> Text(r.sku, t)]

ParseCosmos(r, t) ==
    [capacity_mode |-> IF r.serverless THEN "serverless" ELSE "provisioned"]

ParseEventHub(r, t) ==
    [tier |-> Text(r.tier, t), capacity |-> OrZero(r.capacity)]

\* Azure reserves 5 addresses of each IPv4 prefix.  An IPv6 or malformed prefix
\* has no length here and is not sized.
Usable(len) == IF len = Null \/ len >= 30 THEN 0 ELSE 2 ^ (32 - len) - 5

UsableIps(prefixes) ==
    MapThenSumSet(LAMBDA i : Usable(prefixes[i]), DOMAIN prefixes)

ParseVnet(r, t) ==
    LET usable == UsableIps(r.prefixes)
        used   == OrZero(r.used)
    IN  [utilization_percent |->
            IF usable > 0 THEN Round(10000 * used, usable) ELSE 0]

ParseAppServicePlan(r, t) ==
    [tier |-> Text(r.tier, t), status |-> Text(r.state, t),
     sku_name |-> Text(r.sku, t), instances |-> OrZero(r.capacity),
     sites |-> OrZero(r.sites), elastic_scale |-> r.elastic]

ParsePool(profile, t) ==
    [vm_size |-> Text(profile.sku, t), autoscale |-> profile.autoscale,
     count |-> OrZero(profile.count), min_count |-> OrZero(profile.minimum)]

ParseAks(r, t) ==
    [power_state |-> Text(r.state, t),
     pools |-> [i \in DOMAIN r.pools |-> ParsePool(r.pools[i], t)]]

ParseRedis(r, t) == [state |-> Text(r.state, t), sku |-> Text(r.sku, t)]

ParseServiceBus(r, t) ==
    [tier |-> Text(r.tier, t), status |-> Text(r.state, t),
     capacity |-> OrZero(r.capacity)]

\* v2: the tier ends with _v2.
ParseAppGateway(r, t) ==
    [tier |-> Text(r.tier, t), state |-> Text(r.state, t),
     v2 |-> Lower(Text(r.tier, t)) \in {"standard_v2", "waf_v2"},
     autoscale |-> r.autoscale, capacity |-> OrZero(r.capacity),
     min_capacity |-> OrZero(r.minimum)]

ParseStorage(r, t) ==
    [state |-> Text(r.state, t),
     tierable |-> /\ Lower(Text(r.tier, t)) = "standard"
                  /\ Lower(Text(r.account, t)) \in {"storagev2", "blobstorage"}
                  /\ Lower(Text(r.access, t)) = "hot"]

Parse(r, t) ==
    CASE r.kind = "vm"             -> ParseVm(r, t)
      [] r.kind = "sqldb"          -> ParseSqlDb(r, t)
      [] r.kind = "sqlpool"        -> ParseSqlPool(r, t)
      [] r.kind = "sqlmi"          -> ParseSqlMi(r, t)
      [] r.kind = "postgres"       -> ParsePostgres(r, t)
      [] r.kind = "cosmos"         -> ParseCosmos(r, t)
      [] r.kind = "eventhub"       -> ParseEventHub(r, t)
      [] r.kind = "vnet"           -> ParseVnet(r, t)
      [] r.kind = "appserviceplan" -> ParseAppServicePlan(r, t)
      [] r.kind = "aks"            -> ParseAks(r, t)
      [] r.kind = "redis"          -> ParseRedis(r, t)
      [] r.kind = "servicebus"     -> ParseServiceBus(r, t)
      [] r.kind = "appgateway"     -> ParseAppGateway(r, t)
      [] r.kind = "storage"        -> ParseStorage(r, t)
-----------------------------------------------------------------------------
(* Facts that need the type's rules.                                       *)

\* Mutant: a processing unit's rate for every tier.
UnitMbps_Premium(tier) ==
    CASE Lower(tier) \in {"basic", "standard", "premium"} -> MbPerPu
      [] OTHER -> Null

UnitMbps(tier) ==
    CASE Lower(tier) = "premium"               -> MbPerPu
      [] Lower(tier) \in {"basic", "standard"} -> MbPerTu
      [] OTHER                                 -> Null

\* The props p, and one more.
With(p, key, value) ==
    [k \in DOMAIN p \cup {key} |-> IF k = key THEN value ELSE p[k]]

\* A namespace without a capacity or a rate gets no capacity_bytes_per_second.
EnrichEventHub(p) ==
    IF UnitMbps(p.tier) = Null \/ p.capacity <= 0
    THEN p
    ELSE With(p, "capacity_bytes_per_second",
              p.capacity * UnitMbps(p.tier) * BytesPerMb)

\* Instances a gateway runs at least.
Instances(p) == IF p.autoscale THEN p.min_capacity ELSE p.capacity

EnrichAppGateway(p) ==
    IF ~p.v2 \/ Instances(p) * CuPerInstance <= 0
    THEN p
    ELSE With(p, "reserved_capacity_units", Instances(p) * CuPerInstance)

Enrich(k, p) ==
    CASE k = "eventhub"   -> EnrichEventHub(p)
      [] k = "appgateway" -> EnrichAppGateway(p)
      [] OTHER            -> p
-----------------------------------------------------------------------------
(* Resources a type leaves out.                                            *)

\* Mutant: the state is compared as it is spelled.
RequireState_Exact(state, expected) == state = Text(expected, TRUE)

RequireState(state, expected) == Lower(state) = expected

Active(k, p) ==
    CASE k = "vm"  -> RequireState(p.power_state, "powerstate/running")
      [] k = "aks" -> RequireState(p.power_state, "running")
      [] k = "sqldb" -> RequireState(p.status, "online")
      [] k = "appserviceplan" -> RequireState(p.status, "ready")
      [] k = "servicebus" -> RequireState(p.status, "active")
      [] k \in {"sqlpool", "sqlmi", "postgres"} ->
            RequireState(p.state, "ready")
      [] k \in {"redis", "storage"} -> RequireState(p.state, "succeeded")
      [] k = "appgateway" -> RequireState(p.state, "running")
      [] OTHER -> TRUE

SkipSqlDb(p) == p.pool_id

\* Serverless accounts bill per request.
SkipCosmos(p) == p.capacity_mode = "serverless"

SkipEventHub(p) == Lower(p.tier) = "dedicated"

SkipAppServicePlan(p) == Lower(p.tier) \in {"free", "shared"}

SkipServiceBus(p) == Lower(p.tier) # "premium"

\* Mutant: an autoscaling gateway with a minimum of 0 is let through.
SkipAppGateway_V1(p) == ~p.v2

\* No capacity model: v1, or no instance reserved.
SkipAppGateway(p) == ~p.v2 \/ "reserved_capacity_units" \notin DOMAIN p

SkipStorage(p) == ~p.tierable

FinopsSkip(k, p) ==
    CASE k = "sqldb"          -> SkipSqlDb(p)
      [] k = "cosmos"         -> SkipCosmos(p)
      [] k = "eventhub"       -> SkipEventHub(p)
      [] k = "appserviceplan" -> SkipAppServicePlan(p)
      [] k = "servicebus"     -> SkipServiceBus(p)
      [] k = "appgateway"     -> SkipAppGateway(p)
      [] k = "storage"        -> SkipStorage(p)
      [] OTHER                -> FALSE
-----------------------------------------------------------------------------
(* Metrics.                                                                *)

\* The metrics of default.yaml a mode evaluates.  Of several that apply to the
\* same resources one is here.
Metrics(k, m) ==
    CASE k = "vnet"       -> IF m = "ops" THEN {"subnet_ip"} ELSE {}
      [] k = "sqldb"      -> IF m = "ops" THEN {"dtu", "cpu", "app_cpu",
                                                "workers"}
                                          ELSE {"dtu", "cpu"}
      [] k = "sqlpool"    -> {"dtu", "cpu"}
      [] k = "eventhub"   -> IF m = "ops" THEN {"throttled", "cpu"}
                                          ELSE {"ingress"}
      [] k = "servicebus" -> IF m = "ops" THEN {"throttled", "cpu"} ELSE {"cpu"}
      [] k = "appgateway" -> IF m = "ops" THEN {"unhealthy_hosts", "cpu"}
                                          ELSE {"capacity"}
      [] k = "storage"    -> IF m = "ops" THEN {"throttled"}
                                          ELSE {"transactions"}
      [] OTHER            -> {"cpu"}

\* MetricThreshold.applies, under the applies_to of default.yaml.
Applies(k, p, key) ==
    CASE key = "dtu"     -> p.purchasing_model = "dtu"
      [] key = "app_cpu" -> p.purchasing_model = "serverless"
      [] key = "ingress" -> Lower(p.tier) \in {"basic", "standard", "premium"}
      [] key = "capacity" -> p.v2
      [] key = "cpu" /\ k \in {"sqldb", "sqlpool"} ->
            p.purchasing_model = "vcore"
      [] key = "cpu" /\ k \in {"eventhub", "servicebus"} ->
            Lower(p.tier) = "premium"
      [] key = "cpu" /\ k = "appgateway" -> ~p.v2
      [] OTHER -> TRUE

\* The prop a derived metric is a share of: default.yaml's capacity_prop.
CapacityProp(key) ==
    CASE key = "ingress"  -> "capacity_bytes_per_second"
      [] key = "capacity" -> "reserved_capacity_units"

Derived(key) == key \in {"ingress", "capacity"}

\* resolve_series: metrics that do not apply, or have no capacity to be a share
\* of, are absent.
ResolveSeries(k, p) ==
    LET resolved == {key \in Metrics(k, mode) :
                        /\ Applies(k, p, key)
                        /\ Derived(key) => CapacityProp(key) \in DOMAIN p}
    IN  [key \in resolved |->
            CASE key = "subnet_ip" -> p.utilization_percent
              [] key # "subnet_ip" /\ load = Missing ->
                    IF k = "storage" THEN 0 ELSE Missing \* missing_as_zero
              [] OTHER -> IF Derived(key)
                          THEN Round(10000 * load, p[CapacityProp(key)])
                          ELSE 100 * load]
-----------------------------------------------------------------------------
(* The recommenders' demands on the facts.                                 *)

\* Tiers and objectives are looked up as they are spelled.
KnowsDtu(k, p) ==
    /\ p.tier \in {Text(w, TRUE) : w \in Dtu}
    /\ k = "sqldb" => p.sku \in {Text(w, TRUE) : w \in Objectives}

AtLeast(floor, n) == IF n < floor THEN floor ELSE n

\* A vCore database's smaller size on the ladder gets the name of the SKU with
\* another last part.
NamesTarget(p, observed) ==
    \/ Lower(p.sku) \notin Bare
    \/ ~\E v \in Vcores : /\ MinVcores <= v /\ v < p.capacity
                          /\ 10000 * 100 * v >= p.capacity * observed * Headroom

KnowsDatabase(p, s) ==
    IF p.purchasing_model = "dtu" THEN KnowsDtu("sqldb", p)
    ELSE p.capacity > 0 /\ NamesTarget(p, s["cpu"])

\* Instances that carry a plan's observed share.
PlanTarget(p, observed) ==
    AtLeast(MinPlan, Ceiling(p.instances * observed * Headroom, 10000 * 100))

\* An empty plan goes and one that can has fewer instances, whatever its SKU.
KnowsPlan(p, observed) ==
    \/ p.sites = 0
    \/ ~p.elastic_scale /\ PlanTarget(p, observed) < p.instances
    \/ Lower(p.sku_name) \in Catalog

\* Only a pool at its least number of nodes is looked up.
KnowsPool(pool) ==
    LET current == IF pool.autoscale THEN pool.min_count ELSE pool.count
    IN  current <= 0 \/ current # MinNodes \/ Lower(pool.vm_size) \in Catalog

\* Every size the recommender asks for is one it knows; otherwise the resource,
\* or the pool, gets no target.  r: the row, p: its props, s: its series.
KnowsSize(r, p, s) ==
    CASE r.kind \in {"vm", "postgres", "redis"} -> Lower(p.sku) \in Catalog
      [] r.kind = "sqldb" -> KnowsDatabase(p, s)
      [] r.kind = "sqlpool" -> IF p.purchasing_model = "dtu"
                               THEN KnowsDtu(r.kind, p) ELSE p.capacity > 0
      [] r.kind \in {"sqlmi", "servicebus"} -> p.capacity > 0
      [] r.kind = "appgateway" -> /\ Instances(p) > 0
                                  /\ "reserved_capacity_units" \in DOMAIN p
      [] r.kind = "appserviceplan" -> KnowsPlan(p, s["cpu"])
      [] r.kind = "aks" -> \A i \in DOMAIN p.pools : KnowsPool(p.pools[i])
      [] r.kind = "cosmos" -> \/ OrZero(r.autoscale_max) > 0
                              \/ OrZero(r.provisioned) > 0
      [] r.kind = "storage" -> r.used # Null
      [] OTHER -> TRUE \* namespaces: a share of no capacity is not evaluated

\* Mutant: the change, not the target.
Fewer_Change(n, current) == n - current

\* Units or instances for the observed share, 0 if that is not fewer.
Fewer(n, current) == IF n < current THEN n ELSE 0

RecommendEventHub(p, observed) ==
    Fewer(AtLeast(1, Ceiling(p.capacity * observed * Headroom, 10000 * 100)),
          p.capacity)

RecommendAppGateway(p, observed) ==
    Fewer(AtLeast(MinInstances,
                  Ceiling(p.reserved_capacity_units * observed * Headroom,
                          10000 * 100 * CuPerInstance)),
          Instances(p))
-----------------------------------------------------------------------------
(* The run.                                                                *)

FactsInit ==
    /\ mode \in {"ops", "finops"}
    /\ row \in Rows
    /\ load \in Loads \cup {Missing}
    /\ step = "list"
    /\ props = [t \in Spellings |-> <<>>]
    /\ series = [t \in Spellings |-> <<>>]
    /\ fate = [t \in Spellings |-> "listed"]
    /\ target = [t \in Spellings |-> 0]

\* The resources at `from` get their verdict.
Judge(from, verdict) ==
    fate' = [t \in Spellings |->
                IF fate[t] = from THEN verdict[t] ELSE fate[t]]

ListResources ==
    /\ step = "list"
    /\ props' = [t \in Spellings |-> Enrich(row.kind, Parse(row, t))]
    /\ step' = "filter"
    /\ UNCHANGED <<mode, row, load, series, fate, target>>

FilterResources ==
    /\ step = "filter"
    /\ Judge("listed", [t \in Spellings |->
          IF Active(row.kind, props[t]) THEN "listed" ELSE "inactive"])
    /\ step' = IF mode = "finops" THEN "size" ELSE "fetch"
    /\ UNCHANGED <<mode, row, load, props, series, target>>

DropUnsizeable ==
    /\ step = "size"
    /\ Judge("listed", [t \in Spellings |->
          IF FinopsSkip(row.kind, props[t]) THEN "unsizeable" ELSE "listed"])
    /\ step' = "fetch"
    /\ UNCHANGED <<mode, row, load, props, series, target>>

Fetch ==
    /\ step = "fetch"
    /\ series' = [t \in Spellings |->
                     IF fate[t] = "listed"
                     THEN ResolveSeries(row.kind, props[t]) ELSE <<>>]
    /\ step' = "evaluate"
    /\ UNCHANGED <<mode, row, load, props, fate, target>>

Threshold(key) ==
    IF mode = "finops" THEN Cold
    ELSE IF key = "subnet_ip" THEN HotSubnet ELSE Hot

EvaluateHot ==
    /\ step = "evaluate" /\ mode = "ops"
    /\ Judge("listed", [t \in Spellings |->
          IF DOMAIN series[t] = {} THEN "unmeasured"
          ELSE IF \E key \in DOMAIN series[t] :
                     /\ series[t][key] # Missing
                     /\ series[t][key] >= Threshold(key)
               THEN "hot" ELSE "quiet"])
    /\ step' = "done"
    /\ UNCHANGED <<mode, row, load, props, series, target>>

\* Not more than one FinOps metric here applies to a resource.
EvaluateCold ==
    /\ step = "evaluate" /\ mode = "finops"
    /\ Judge("listed", [t \in Spellings |->
          IF DOMAIN series[t] = {} THEN "unmeasured"
          ELSE IF \E key \in DOMAIN series[t] : series[t][key] = Missing
               THEN "uncovered"
          ELSE IF \E key \in DOMAIN series[t] :
                     series[t][key] < Threshold(key)
               THEN "cold" ELSE "busy"])
    /\ step' = "recommend"
    /\ UNCHANGED <<mode, row, load, props, series, target>>

\* The target of a size known only as units or instances.
Advice(k, p, s) ==
    CASE k = "eventhub"   -> RecommendEventHub(p, s["ingress"])
      [] k = "appgateway" -> RecommendAppGateway(p, s["capacity"])
      [] OTHER            -> 0

Recommend ==
    /\ step = "recommend"
    /\ Judge("cold", [t \in Spellings |->
          IF KnowsSize(row, props[t], series[t]) THEN "reported" ELSE "unknown"])
    /\ target' = [t \in Spellings |->
                     IF fate[t] = "cold" /\ KnowsSize(row, props[t], series[t])
                     THEN Advice(row.kind, props[t], series[t]) ELSE 0]
    /\ step' = "done"
    /\ UNCHANGED <<mode, row, load, props, series>>

Done == step = "done" /\ UNCHANGED facts

FactsNext ==
    \/ ListResources
    \/ FilterResources
    \/ DropUnsizeable
    \/ Fetch
    \/ EvaluateHot
    \/ EvaluateCold
    \/ Recommend
    \/ Done

FactsSpec == FactsInit /\ [][FactsNext]_facts
-----------------------------------------------------------------------------
(* Properties.                                                             *)

\* models.Skip: a resource that was not fully evaluated is always logged and
\* counted.  A resource at "unmeasured" is counted as evaluated, and neither
\* logged nor in a row.
AlwaysSaid == \A t \in Spellings : fate[t] # "unmeasured"

\* A recommender asks for a size it cannot know: what sizes the resource is
\* missing from the row, or is a name the catalogs lack or spell otherwise.
Unsized(r, t) ==
    \/ r.kind \in {"vm", "postgres", "redis"} /\ r.sku \notin Catalog
    \/ /\ r.kind \in {"sqldb", "sqlpool"}
       /\ r.tier \in {"basic", "standard", "premium"}
       /\ \/ ~t \/ r.tier \notin Dtu
          \/ r.kind = "sqldb" /\ r.sku \notin Objectives
    \/ /\ r.kind \in {"sqldb", "sqlpool", "sqlmi", "servicebus"}
       /\ OrZero(r.capacity) = 0
    \/ r.kind = "sqldb" /\ r.sku \in Bare
    \/ /\ r.kind = "appserviceplan" /\ r.sku \notin Catalog
       /\ OrZero(r.sites) # 0
       /\ r.elastic \/ \A n \in MinPlan .. OrZero(r.capacity) - 1 :
                          10000 * n < OrZero(r.capacity) * load * Headroom
    \/ r.kind = "aks" /\ \E i \in DOMAIN r.pools :
          /\ r.pools[i].sku \notin Catalog
          /\ MinNodes = OrZero(IF r.pools[i].autoscale
                               THEN r.pools[i].minimum ELSE r.pools[i].count)
    \/ r.kind = "cosmos" /\ {r.provisioned, r.autoscale_max} \subseteq {0, Null}
    \/ r.kind = "storage" /\ r.used = Null

\* Which resources end without a judgement.  Only in FinOps runs: unmeasured
\* (see AlwaysSaid) are subnets, serverless databases, and namespaces whose
\* capacity or tier is unknown, and finops_skip lets nothing else through that
\* has no metric.  And a recommender asks for an unknown size only where the
\* row says so: never for a gateway, for an empty plan, for a plan that fewer
\* instances carry, or for a pool that has more than the least nodes.
Judged ==
    \A t \in Spellings :
        /\ fate[t] = "unmeasured" =>
              /\ mode = "finops"
              /\ \/ row.kind = "vnet"
                 \/ row.kind = "sqldb" /\ row.sku = "gp_s_gen5_2"
                 \/ /\ row.kind = "eventhub"
                    /\ \/ OrZero(row.capacity) = 0
                       \/ row.tier \notin {"basic", "standard", "premium",
                                          "dedicated"}
        /\ fate[t] = "unknown" => mode = "finops" /\ Unsized(row, t)

\* Resource Graph's casing is not guaranteed: it changes nothing, except for
\* the target of a database or pool sold by DTU, whose tier is looked up as it
\* is spelled.
CaseInsensitive ==
    \/ fate[TRUE] = fate[FALSE] /\ target[TRUE] = target[FALSE]
    \/ /\ row.kind \in {"sqldb", "sqlpool"}
       /\ row.tier \in {"basic", "standard", "premium"}
       /\ fate[TRUE] \in {"cold", "reported"}
       /\ fate[FALSE] \in {"cold", "unknown"}

\* What a unit or an instance carries, in what the metric reads.
UnitCapacity ==
    CASE row.kind = "eventhub"   ->
            BytesPerMb * (IF row.tier = "premium" THEN MbPerPu ELSE MbPerTu)
      [] row.kind = "appgateway" -> CuPerInstance

\* From the reading to the target: the advised units or instances carry the
\* load with headroom, but for the rounding of the share to hundredths of a
\* percent of the current capacity.
TargetCarriesLoad ==
    \A t \in Spellings : target[t] > 0 =>
        LET current == IF row.kind = "eventhub"
                       THEN props[t].capacity ELSE Instances(props[t])
        IN  /\ target[t] < current
            /\ 20000 * 100 * target[t] * UnitCapacity
                  >= Headroom * (20000 * load - current * UnitCapacity)
=============================================================================
