--------------------------- MODULE MCResourceFacts --------------------------
(* The rows of every kind: each column with the values its kind's code tells *)
(* apart.                                                                    *)
EXTENDS ResourceFacts

Counts == {Null, 0, 1, 4}

MCPrefixes == {<<>>, <<29>>, <<31>>, <<Null>>, <<Null, 28>>, <<28, 29>>}

\* The state a kind's active check asks for.
Live == [vm |-> "powerstate/running", aks |-> "running", sqldb |-> "online",
         appserviceplan |-> "ready", servicebus |-> "active",
         sqlpool |-> "ready", sqlmi |-> "ready", postgres |-> "ready",
         redis |-> "succeeded", storage |-> "succeeded",
         appgateway |-> "running"]

StatesOf(k) == {Live[k], "stopped", ""}

Pool(sku, autoscale, count, minimum) ==
    [sku |-> sku, autoscale |-> autoscale, count |-> count,
     minimum |-> minimum]

\* The first is at its least nodes, or above, or scaled by its minimum.
Pools ==
    {<<>>} \cup {<<Pool(sku, a, c, m), Pool("listed", FALSE, 1, Null)>> :
                    sku \in {"listed", "other"}, a \in BOOLEAN,
                    c \in {Null, 1, 4}, m \in {Null, 1, 4}}

MCRows ==
    UNION {[kind : {k}, state : StatesOf(k), sku : {"listed", "other"}] :
              k \in {"vm", "postgres", "redis"}}
    \cup [kind : {"aks"}, state : StatesOf("aks"), pools : Pools]
    \cup [kind : {"sqldb"}, state : StatesOf("sqldb"),
          tier : {"standard"}, sku : {"s3", "s99"}, pool : BOOLEAN,
          capacity : Counts]
    \cup [kind : {"sqldb"}, state : StatesOf("sqldb"),
          tier : {"generalpurpose"}, sku : {"gp_s_gen5_2", "gp_gen5_2", "gp"},
          pool : BOOLEAN, capacity : Counts]
    \cup [kind : {"sqlpool"}, state : StatesOf("sqlpool"),
          tier : {"standard", "generalpurpose"}, capacity : Counts]
    \cup [kind : {"sqlmi"}, state : StatesOf("sqlmi"), capacity : Counts]
    \cup [kind : {"cosmos"}, serverless : BOOLEAN,
          provisioned : {Null, 0, 4}, autoscale_max : {Null, 0, 4}]
    \cup [kind : {"eventhub"}, capacity : Counts \cup {2, 3},
          tier : {"basic", "standard", "premium", "dedicated", ""}]
    \cup [kind : {"vnet"}, prefixes : MCPrefixes, used : {Null, 2, 3, 9, 15}]
    \cup [kind : {"appserviceplan"}, state : StatesOf("appserviceplan"),
          tier : {"free", "premiumv3"}, capacity : Counts,
          sku : {"listed", "other"}, sites : {Null, 0, 2}, elastic : BOOLEAN]
    \cup [kind : {"servicebus"}, state : StatesOf("servicebus"),
          tier : {"standard", "premium"}, capacity : Counts]
    \cup [kind : {"appgateway"}, state : StatesOf("appgateway"),
          tier : {"standard", ""}, autoscale : {FALSE},
          capacity : Counts, minimum : {Null}]
    \cup [kind : {"appgateway"}, state : StatesOf("appgateway"),
          tier : {"standard_v2"}, autoscale : BOOLEAN,
          capacity : Counts, minimum : Counts]
    \cup [kind : {"storage"}, state : StatesOf("storage"),
          tier : {"standard", "premium"}, account : {"storagev2", "storage"},
          access : {"hot", "cool", ""}, used : {Null, 0}]

\* A premium namespace of every capacity: enough to lose sight of one.
NamespaceRows ==
    [kind : {"eventhub"}, capacity : Counts, tier : {"premium"}]
=============================================================================
