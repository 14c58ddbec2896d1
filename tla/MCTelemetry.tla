---------------------------- MODULE MCTelemetry ----------------------------
(* Two resources and a stranger; blocks of two keys over two raw metrics. *)
EXTENDS Telemetry

CONSTANTS r1, r2, x, used, total

MCRequested == <<r1, r2>>

MCOrders == {<<>>, <<r2>>, <<r1, r2>>, <<r2, r1>>, <<r1, x, r2>>}

\* Two intervals, the second after a gap of values or not reported.
One(reading) == [t \in {1} |-> reading]
Two(first, second) == [t \in {1, 2} |-> IF t = 1 THEN first ELSE second]

MCBodies == {
    [n \in {} |-> {}],
    [n \in {used} |-> {Two("some", "none")}],
    [n \in {used, total} |-> IF n = used THEN {Two("zero", "some")}
                                        ELSE {One("some")}],
    [n \in {used, total} |-> {One("none"), Two("some", "none")}]}

Key(thresholds, derive, names, aggregation, filter, zero) ==
    [thresholds |-> thresholds, derive |-> derive, names |-> names,
     aggregation |-> aggregation, filter |-> filter, missing_as_zero |-> zero]

First == {Key(s, "none", <<used>>, "Average", f, z) :
            s \in {{"ops"}, {}}, f \in Filters, z \in BOOLEAN}

Second ==
    {Key({"ops"}, "ratio", <<used, total>>, a, f, z) :
        a \in Aggregations, f \in Filters, z \in BOOLEAN}
    \cup {Key({"finops"}, d, <<n>>, "Total", f, FALSE) :
        d \in {"none", "capacity", "unknown"}, n \in Names, f \in Filters}
    \cup {Key({"ops", "finops"}, d, <<used>>, "Average", 0, FALSE) :
        d \in {"capacity", "ratio"}}

MCConfigs == {<<j, k>> : j \in First, k \in Second}

\* The second key does not apply to the second resource in every block.
MCApplies == {<<1, r1>>, <<1, r2>>, <<2, r1>>}
=============================================================================
