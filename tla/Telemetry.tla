------------------------------ MODULE Telemetry -----------------------------
(***************************************************************************)
(* From the metrics block of a resource type to the series its resources   *)
(* are evaluated on, for one batch and one mode.                           *)
(*                                                                         *)
(* A metric key names one raw metric, or two for a ratio, with an          *)
(* aggregation and a dimension filter.  derive.py asks for each raw metric *)
(* once, batch.py makes one call per filter and sorts the answer back to   *)
(* resources, derive.py turns raw series into those of the keys.  Nothing  *)
(* downstream can see where a series came from, so the model keeps its     *)
(* origin beside its points.                                               *)
(*                                                                         *)
(* A reading has no value, is zero or is some other number.  Names and ids *)
(* that differ only in case are one.  A filter implies its dimension.      *)
(* Left out: types read from the inventory, which fetch nothing.           *)
(***************************************************************************)
EXTENDS Integers, FiniteSets, Sequences, SequencesExt

CONSTANTS
    Requested,    \* ids of the batch, in order
    Strangers,    \* other ids an answer may hold
    Names,        \* raw metrics
    Aggregations,
    Filters,      \* numbered in the order of the calls; one means none
    NoFilter,
    Configs,      \* metrics blocks: [keys, numbered in config order -> Metrics]
    Applies,      \* <<key, id>> pairs that match applies_to
    Sized,        \* ids with the property a capacity is read from
    Times,        \* the intervals of the window
    Orders,       \* orders an answer may list its resources in
    Bodies,       \* what it may hold of one: [metrics -> SUBSET Timeseries]
    Nobody        \* the origin of a series without an answer

Ids   == ToSet(Requested)
Modes == {"ops", "finops"}

Metrics == [thresholds : SUBSET Modes, names : Seq(Names),
            derive : {"none", "ratio", "capacity", "unknown"},
            aggregation : Aggregations, filter : Filters,
            missing_as_zero : BOOLEAN]

Readings   == {"none", "zero", "some"}
Timeseries == UNION {[T -> Readings] : T \in SUBSET Times}
Origins    == [resource : Ids \cup Strangers, name : Names,
               aggregation : Aggregations, filter : Filters] \cup {Nobody}

ASSUME ConfigAssumption ==
    /\ Filters \subseteq Nat /\ NoFilter \in Filters
    /\ \A c \in Configs :
          /\ DOMAIN c \subseteq Nat
          /\ c \in [DOMAIN c -> Metrics]
          /\ \A k \in DOMAIN c : c[k].derive = "none" => Len(c[k].names) = 1

\* The service lists no resource twice.
ASSUME AnswerAssumption ==
    /\ Requested \in Seq(Ids) /\ IsInjective(Requested)
    /\ Orders \subseteq Seq(Ids \cup Strangers)
    /\ \A order \in Orders : IsInjective(order)
    /\ \A b \in Bodies : /\ DOMAIN b \subseteq Names
                         /\ b \in [DOMAIN b -> SUBSET Timeseries]
    /\ Ids \cap Strangers = {} /\ Nobody \notin Ids

VARIABLES
    cfg,     \* the type's metrics block
    mode,    \* of the run
    phase,   \* how far the batch is
    pending, \* filters that are still to be called
    raw,     \* series of the raw metrics, by id
    out,     \* series of the keys, by id
    told,    \* history: what the service answered
    mishaps  \* history: an answer was "shuffled" or "lost"

vars == <<cfg, mode, phase, pending, raw, out, told, mishaps>>

Series(origins) == [of : origins, points : Timeseries]

Empty == [of |-> Nobody, points |-> [t \in {} |-> "none"]]
-----------------------------------------------------------------------------
(* Requests.                                                               *)

\* wanted_metrics: those with a threshold of the mode, and in finops those with
\* none at all.
Wanted(m) == {k \in DOMAIN cfg : \/ m \in cfg[k].thresholds
                                 \/ m = "finops" /\ cfg[k].thresholds = {}}

Uses(k) == ToSet(cfg[k].names)

\* requests_for: every raw metric once, as the first key asks for it.  (finops
\* puts keys without thresholds last; in an accepted block the keys agree, and a
\* block is accepted whichever is first.)
Raw(m) == UNION {Uses(k) : k \in Wanted(m)}

FirstKey(n, m) ==
    CHOOSE k \in Wanted(m) : /\ n \in Uses(k)
                             /\ \A j \in Wanted(m) : n \in Uses(j) => k <= j

AggregationOf(n) == cfg[FirstKey(n, mode)].aggregation
FilterOf(n) == cfg[FirstKey(n, mode)].filter

\* Mutant: the filters are not compared.
OneRequestPerRawMetric_AnyFilter ==
    \A m \in Modes : \A k \in Wanted(m) : \A n \in Uses(k) :
        cfg[k].aggregation = cfg[FirstKey(n, m)].aggregation

OneRequestPerRawMetric ==
    \A m \in Modes : \A k \in Wanted(m) : \A n \in Uses(k) :
        /\ cfg[k].aggregation = cfg[FirstKey(n, m)].aggregation
        /\ cfg[k].filter = cfg[FirstKey(n, m)].filter

TypeOK ==
    /\ cfg \in Configs
    /\ mode \in Modes
    /\ phase \in {"load", "fetch", "resolved", "rejected", "failed", "raised"}
    /\ pending \subseteq Filters
    /\ raw \in [Ids -> [Raw(mode) -> Series(Origins)]]
    /\ DOMAIN out \subseteq Ids
    /\ \A r \in DOMAIN out :
          /\ DOMAIN out[r] \subseteq Wanted(mode)
          /\ out[r] \in [DOMAIN out[r] -> Series(Seq(Origins))]
    /\ told \subseteq [resource : Ids \cup Strangers, name : Names,
                      filter : Filters, parts : SUBSET Timeseries]
    /\ mishaps \subseteq {"shuffled", "lost"}

Init ==
    /\ cfg \in Configs
    /\ mode \in Modes
    /\ phase = "load"
    /\ pending = {}
    /\ raw = [r \in Ids |-> [n \in Raw(mode) |-> Empty]]
    /\ out = [r \in {} |-> <<>>]
    /\ told = {}
    /\ mishaps = {}

To(p) ==
    /\ phase' = p
    /\ UNCHANGED <<cfg, mode, told, mishaps>>

Load ==
    /\ phase = "load"
    /\ OneRequestPerRawMetric
    /\ pending' = {FilterOf(n) : n \in Raw(mode)}
    /\ To("fetch")
    /\ UNCHANGED <<raw, out>>

Reject ==
    /\ phase = "load"
    /\ ~OneRequestPerRawMetric
    /\ To("rejected")
    /\ UNCHANGED <<pending, raw, out>>
-----------------------------------------------------------------------------
(* A call.                                                                 *)

IsFirst(f, S) == f \in S /\ \A g \in S : f <= g

Group(f) == {n \in Raw(mode) : FilterOf(n) = f}

Sum(values) == IF "some" \in values THEN "some"
               ELSE IF "zero" \in values THEN "zero" ELSE "none"

\* The series of several dimension values are summed by interval; the only
\* series of an unfiltered metric is its own sum.
Points(parts) ==
    [t \in UNION {DOMAIN s : s \in parts} |->
        Sum({s[t] : s \in {p \in parts : t \in DOMAIN p}})]

\* The id the j-th resource of an answer is taken for.
Owner(order, named, j) ==
    IF named THEN order[j]
             ELSE IF j <= Len(Requested) THEN Requested[j] ELSE Nobody

\* parse_batch_response
Parse(f, order, named, body) ==
    [r \in Ids |-> [n \in Group(f) |->
        LET found == {j \in DOMAIN order : /\ Owner(order, named, j) = r
                                           /\ n \in DOMAIN body[order[j]]}
        IN  IF found = {} THEN Empty
            ELSE LET j == CHOOSE j \in found : TRUE
                 IN  [of |-> [resource |-> order[j], name |-> n,
                              aggregation |-> AggregationOf(n), filter |-> f],
                      points |-> Points(body[order[j]][n])]]]

\* Mutant: a part replaces the parts before it.
Merge_Replace(part) == part

\* The series of every call are merged per resource.
Merge(part) ==
    [r \in Ids |-> [n \in Raw(mode) |->
        IF n \in DOMAIN part[r] THEN part[r][n] ELSE raw[r][n]]]

\* What an answer says about the metrics that were asked for.
Told(f, order, body) ==
    UNION {{[resource |-> order[j], name |-> n, filter |-> f,
             parts |-> body[order[j]][n]] :
                n \in Group(f) \cap DOMAIN body[order[j]]} : j \in DOMAIN order}

\* An answer may leave out resources and metrics, and hold others.  Without ids,
\* or if its text was not captured, the model notes what went wrong with it.
Answer(f, order, named, captured, body) ==
    /\ f = NoFilter =>
          \A r \in DOMAIN body : \A n \in DOMAIN body[r] :
             \A s, t \in body[r][n] : s = t
    /\ raw' = Merge(Parse(f, IF captured THEN order ELSE <<>>, named, body))
    /\ told' = told \cup Told(f, order, body)
    /\ mishaps' = mishaps
          \cup (IF captured THEN {} ELSE {"lost"})
          \cup (IF named \/ IsPrefix(order, Requested) THEN {}
                                                    ELSE {"shuffled"})

Call(f) ==
    /\ phase = "fetch"
    /\ IsFirst(f, pending)
    /\ pending' = pending \ {f}
    /\ \E order \in Orders, named \in BOOLEAN, captured \in BOOLEAN :
          \E body \in [ToSet(order) -> Bodies] :
             Answer(f, order, named, captured, body)
    /\ UNCHANGED <<cfg, mode, phase, out>>

\* The batch fails as a whole.
CallRaises ==
    /\ phase = "fetch"
    /\ pending # {}
    /\ To("failed")
    /\ UNCHANGED <<pending, raw, out>>
-----------------------------------------------------------------------------
(* The series of the keys.                                                 *)

\* Mutant: intervals that were not reported are filled, too.
Filled_All(k, points) ==
    IF cfg[k].missing_as_zero
    THEN [t \in Times |-> IF t \notin DOMAIN points \/ points[t] = "none"
                          THEN "zero" ELSE points[t]]
    ELSE points

\* zero_missing
Filled(k, points) ==
    IF cfg[k].missing_as_zero
    THEN [t \in DOMAIN points |->
            IF points[t] = "none" THEN "zero" ELSE points[t]]
    ELSE points

\* ratio_percent
Ratio(num, den) ==
    [t \in DOMAIN num |->
        IF t \in DOMAIN den /\ den[t] = "some" THEN num[t] ELSE "none"]

\* Keys a resource has a series for.
Resolved(r) ==
    {k \in Wanted(mode) : /\ <<k, r>> \in Applies
                          /\ cfg[k].derive = "capacity" => r \in Sized}

Inputs(k) == IF cfg[k].derive = "ratio" THEN 2 ELSE 1

ResolveSeries(r) ==
    [k \in Resolved(r) |->
        LET input(i) == raw[r][cfg[k].names[i]]
            points(i) == Filled(k, input(i).points)
        IN  [of |-> [i \in 1..Inputs(k) |-> input(i).of],
             points |-> IF cfg[k].derive = "ratio"
                        THEN Ratio(points(1), points(2))
                        ELSE points(1)]]

\* No code checks a derivation's name or how many inputs it has before this.
Broken(k) == cfg[k].derive = "unknown" \/ Len(cfg[k].names) < Inputs(k)

Resolve ==
    /\ phase = "fetch"
    /\ pending = {}
    /\ \A r \in Ids : \A k \in Resolved(r) : ~Broken(k)
    /\ out' = [r \in Ids |-> ResolveSeries(r)]
    /\ To("resolved")
    /\ UNCHANGED <<pending, raw>>

ResolveRaises ==
    /\ phase = "fetch"
    /\ pending = {}
    /\ \E r \in Ids : \E k \in Resolved(r) : Broken(k)
    /\ To("raised")
    /\ UNCHANGED <<pending, raw, out>>

Ended ==
    /\ phase \in {"resolved", "rejected", "failed", "raised"}
    /\ UNCHANGED vars

Next ==
    \/ Load
    \/ Reject
    \/ \E f \in Filters : Call(f)
    \/ CallRaises
    \/ Resolve
    \/ ResolveRaises
    \/ Ended

Spec == Init /\ [][Next]_vars
-----------------------------------------------------------------------------
(* Properties.                                                             *)

\* Every series a resource is evaluated on was measured on that resource, is of
\* the raw metrics its key names, and was asked for with the key's own
\* aggregation and filter, as far as answers without ids keep the order of the
\* request.
OwnReadings ==
    "shuffled" \notin mishaps =>
        \A r \in DOMAIN out : \A k \in DOMAIN out[r] :
            \A i \in DOMAIN out[r][k].of :
                out[r][k].of[i] \in
                    {Nobody, [resource |-> r, name |-> cfg[k].names[i],
                              aggregation |-> cfg[k].aggregation,
                              filter |-> cfg[k].filter]}

Heard(r, k, i) ==
    UNION {q.parts : q \in {p \in told : /\ p.resource = r
                                         /\ p.name = cfg[k].names[i]
                                         /\ p.filter = cfg[k].filter}}

Reported(r, k, i) == UNION {DOMAIN s : s \in Heard(r, k, i)}

\* Intervals for which the service reported one of these readings.
Valued(r, k, i, readings) ==
    {t \in Reported(r, k, i) :
        \E s \in Heard(r, k, i) : t \in DOMAIN s /\ s[t] \in readings}

\* A key's series has a point for every interval the service reported of its
\* metric and for no other, and a value where the service reported one (where it
\* reported the interval, for a count; where the denominator is some number, for
\* a ratio), as far as no answer was shuffled or lost.
EveryInterval ==
    mishaps = {} =>
        \A r \in DOMAIN out : \A k \in DOMAIN out[r] :
            LET points == out[r][k].points
                valued == IF cfg[k].missing_as_zero
                          THEN Reported(r, k, 1)
                          ELSE Valued(r, k, 1, {"zero", "some"})
            IN  /\ DOMAIN points = Reported(r, k, 1)
                /\ {t \in DOMAIN points : points[t] # "none"} =
                       IF cfg[k].derive = "ratio"
                       THEN valued \cap Valued(r, k, 2, {"some"})
                       ELSE valued
=============================================================================
