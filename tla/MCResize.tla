------------------------------ MODULE MCResize ------------------------------
(* Ten units of load are one vCPU, one GiB or one unit of a ladder.  The SKUs *)
(* are the B family of config/vm-skus.yaml, three plans, caches C0 to C3 with *)
(* four times their memory, and one for units.                                *)
EXTENDS Resize

\* <<family, vCPUs, memory, number>>
Spec4 ==
    [B1s  |-> <<"B", 10, 10, 0>>,  B1ms |-> <<"B", 10, 20, 0>>,
     B2s  |-> <<"B", 20, 40, 0>>,  B2ms |-> <<"B", 20, 80, 0>>,
     B4ms |-> <<"B", 40, 160, 0>>, BX   |-> <<"B", 30, 60, 0>>,
     P0v3 |-> <<"P", 10, 40, 0>>,  P1v3 |-> <<"P", 20, 80, 0>>,
     P2v3 |-> <<"P", 40, 160, 0>>, PX   |-> <<"P", 30, 120, 0>>,
     C0   |-> <<"C", 10, 10, 0>>,  C1   |-> <<"C", 10, 40, 1>>,
     C2   |-> <<"C", 10, 100, 2>>, C3   |-> <<"C", 10, 240, 3>>,
     unit |-> <<"unit", 10, 10, 0>>, odd |-> <<"unit", 10, 10, 0>>]

MCSkus    == DOMAIN Spec4
MCFamily  == [s \in MCSkus |-> Spec4[s][1]]
MCVcpu    == [s \in MCSkus |-> Spec4[s][2]]
MCMemory  == [s \in MCSkus |-> Spec4[s][3]]
MCNumber  == [s \in MCSkus |-> Spec4[s][4]]

MCLadder == [l \in Ladders |->
                CASE l \in {"dtu", "pool_edtu"} -> {1, 2, 5, 10}
                  [] l = "messaging_units" -> {1, 2, 4, 8}
                  [] l = "managed_instance" -> {4, 8, 12}
                  [] OTHER -> {2, 4, 6, 8}]

\* Databases by DTU have no floor of their own: theirs is that of vCores.
MCMinCount == [k \in Kinds |->
    CASE k \in {"sqlmi", "cosmos"} -> 4
      [] k \in {"sqldb", "sqlpool", "appgateway"} -> 2
      [] OTHER -> 1]
MCMinVcpu  == [k \in Kinds |-> IF k \in {"postgres", "aks"} THEN 20 ELSE 10]

MCThreshold == [k \in Kinds |->
    [m \in Metrics |->
        CASE k = "appserviceplan" /\ m = "memory" -> 40
          [] m = "memory" \/ k \in {"eventhub", "appgateway", "cosmos"} -> 30
          [] OTHER -> 20]]

MCLoads == {0, 1, 2, 3, 5, 7, 8, 10, 12, 15, 23, 24, 31, 47, 60}

SkusOf(k) ==
    CASE k \in FamilyKinds \cup {"aks"} -> {s \in MCSkus : MCFamily[s] = "B"}
      [] k = "appserviceplan" -> {"P0v3", "P1v3", "P2v3", "PX"}
      [] k = "redis" -> {s \in MCSkus : MCFamily[s] = "C"}
      [] k \in {"sqldb", "sqlpool"} -> {"unit", "odd"}
      [] OTHER -> {"unit"}

MCCatalog == [k \in Kinds |-> SkusOf(k) \ {"BX", "PX", "odd"}]

CountsOf(k) ==
    CASE k \in FamilyKinds \cup {"redis"} -> {1}
      [] k \in {"appserviceplan", "aks"} -> {1, 2, 5}
      [] OTHER -> 1..12

TraitsOf(k) ==
    CASE k = "sqldb" -> {{"dtu"}, {}, {"unnamed"}}
      [] k = "sqlpool" -> {{"dtu"}, {}}
      [] k = "cosmos" -> {{}, {"unmetered"}}
      [] k = "appserviceplan" -> SUBSET {"elastic", "apps"}
      [] OTHER -> {{}}

EveryResource ==
    UNION {{[kind |-> k, size |-> [sku |-> s, count |-> n], traits |-> t] :
                s \in SkusOf(k), n \in CountsOf(k), t \in TraitsOf(k)} :
           k \in Kinds}

\* TLC evaluates EveryResource once.
MCResources == EveryResource
=============================================================================
