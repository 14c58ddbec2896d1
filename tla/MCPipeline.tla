----------------------------- MODULE MCPipeline -----------------------------
(* Pipeline on two resource types: virtual machines, whose metrics are     *)
(* fetched, and subnets, whose values come with the inventory.             *)
EXTENDS Pipeline

Res(kind, id, region, rg, exclude, active, sizeable) ==
    [kind |-> kind, id |-> id, sub |-> "s1", region |-> region, rg |-> rg,
     exclude |-> exclude, active |-> active, sizeable |-> sizeable]

MCConfigured   == <<"vm", "vnet">>
MCUnconfigured == "vmss"
MCIgnoredRgs   == {"lab"}
MCMonitored    == {"vm"}
MCRecommended  == {"vm"}
MCOpsMetrics   == [k \in {"vm", "vnet"} |->
                      IF k = "vm" THEN {"cpu", "memory"} ELSE {"ip"}]
MCFinopsMetrics == [k \in {"vm", "vnet"} |->
                      IF k = "vm" THEN {"cpu"} ELSE {}]

\* One resource per way of being dropped, two to evaluate in one batch group,
\* and an ignored group that holds resources of both types.
MCResources == {
    Res("vm",   "v1", "east", "app", FALSE, TRUE,  TRUE),
    Res("vm",   "v2", "east", "app", FALSE, TRUE,  FALSE),
    Res("vm",   "v3", "east", "lab", TRUE,  TRUE,  TRUE),
    Res("vm",   "v4", "east", "app", FALSE, FALSE, TRUE),
    Res("vnet", "n1", "east", "lab", FALSE, TRUE,  TRUE),
    Res("vnet", "n2", "east", "app", TRUE,  TRUE,  TRUE),
    Res("vnet", "n3", "east", "app", FALSE, TRUE,  TRUE)}
=============================================================================
