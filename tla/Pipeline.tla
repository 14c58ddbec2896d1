------------------------------ MODULE Pipeline ------------------------------
(***************************************************************************)
(* One evaluation run: src/pipeline.py.  A run walks over the enabled      *)
(* resource types; each type is listed, filtered, its metrics are fetched  *)
(* in batches, every resource with metrics is evaluated, and the findings  *)
(* of all types are uploaded once at the end.  A type that raises is       *)
(* counted and dropped; a missing permission ends the run.                 *)
(*                                                                         *)
(* Azure is the environment: what Resource Graph lists, which batches      *)
(* fail, what the metrics say and how far an upload gets are chosen freely *)
(* at each step.  One action stands for one handler up to its next await,  *)
(* so the host may stop the process (Kill) between any two of them.        *)
(***************************************************************************)
EXTENDS Naturals, FiniteSets, Sequences, Batching

CONSTANTS
    Configured,     \* thresholds.resource_types, in config order
    Unconfigured,   \* a name RESOURCE_TYPES may hold that is not configured
    Resources,      \* every resource that can exist, as records
    IgnoredRgs,     \* resource groups matched by config/ignore.yaml
    Monitored,      \* kinds with metric_source == "monitor"
    Recommended,    \* kinds with a recommender
    OpsMetrics,     \* [kind -> metric keys with ops_hot]
    FinopsMetrics,  \* [kind -> metric keys with finops_cold]
    BatchSize       \* settings.batch_size

Kinds   == {Configured[i] : i \in DOMAIN Configured}
NTypes  == Len(Configured)
Metrics == UNION {OpsMetrics[k] \cup FinopsMetrics[k] : k \in Kinds}

ASSUME ConfiguredAssumption ==
    /\ Configured \in Seq(STRING)
    /\ \A i, j \in DOMAIN Configured : Configured[i] = Configured[j] => i = j
    /\ Unconfigured \notin Kinds

ASSUME ResourcesAssumption ==
    /\ IsFiniteSet(Resources)
    /\ \A r \in Resources : /\ r.kind \in Kinds
                            /\ r.exclude \in BOOLEAN
                            /\ r.active \in BOOLEAN
                            /\ r.sizeable \in BOOLEAN

ASSUME MetricsAssumption ==
    /\ OpsMetrics \in [Kinds -> SUBSET STRING]
    /\ FinopsMetrics \in [Kinds -> SUBSET STRING]
    /\ IsFiniteSet(Metrics)
    /\ "" \notin Metrics

ASSUME BatchSizeAssumption == BatchSize \in Nat \ {0}

VARIABLES
    mode,      \* "ops" or "finops"; fixed for the run
    wanted,    \* RESOURCE_TYPES; empty means every configured type
    pc,        \* the await (or the end) the run stands at
    at,        \* index in Configured of the type being worked on
    todo,      \* resources of that type still to fetch, then to evaluate
    typeRows,  \* _run_type's rows
    rows,      \* run's rows
    table,     \* rows of this run the findings table holds
    summary,   \* the totals of RunSummary
    skips,     \* RunSummary.skips
    by_type,   \* RunSummary.by_type
    skipLog,   \* the "skipped resource" log lines
    denied     \* needs whose call came back with HTTP 403

settings == <<mode, wanted>>
loop     == <<at, todo, typeRows>>
found    == <<rows, table>>
counts   == <<summary, skips, by_type, skipLog>>
vars     == <<settings, pc, loop, found, counts, denied>>

Ended == {"refused", "forbidden", "returned", "write_failed", "killed"}
Phases == {"start", "list", "fetch", "evaluate", "write", "upload", "report"}

\* Skip reasons.  The states each type spells its own way (not_running,
\* not_online, ...; in_elastic_pool, no_capacity_model, ...) are one reason.
FilterReasons == {"ignored_rg", "excluded_by_tag", "inactive"}
Reasons == FilterReasons \cup {"unsizeable", "chunk_failed", "no_ops_data",
                               "insufficient_finops_data"}

Row == [resource : Resources, metric : Metrics]

\* The metric is "" except for no_ops_data, which is logged per metric.
LogLine == [reason : Reasons, resource : Resources, metric : Metrics \cup {""}]

RunSummary ==
    [inventory_total : Nat, evaluated : Nat, findings : Nat,
     rows_written : Nat, write_failures : Nat, ignored_rg_count : Nat,
     chunk_failures : Nat, type_failures : Nat]

TypeSummary ==
    [inventory_total : Nat, kept : Nat, evaluated : Nat, findings : Nat,
     chunk_failures : Nat]

TypeOK ==
    /\ mode \in {"ops", "finops"}
    /\ wanted \subseteq Kinds \cup {Unconfigured}
    /\ pc \in Phases \cup Ended
    /\ at \in 0..(NTypes + 1)
    /\ todo \subseteq Resources
    /\ typeRows \subseteq Row
    /\ rows \subseteq Row
    /\ table \subseteq Row
    /\ summary \in RunSummary
    /\ skips \in [Reasons -> Nat]
    /\ by_type \in [Kinds -> TypeSummary]
    /\ skipLog \subseteq LogLine
    /\ denied \subseteq {"inventory", "metrics", "findings_ingest"}

Init ==
    /\ mode \in {"ops", "finops"}
    /\ wanted \in SUBSET (Kinds \cup {Unconfigured})
    /\ pc = "start"
    /\ at = 0
    /\ todo = {} /\ typeRows = {} /\ rows = {} /\ table = {}
    /\ summary = [inventory_total |-> 0, evaluated |-> 0, findings |-> 0,
                  rows_written |-> 0, write_failures |-> 0,
                  ignored_rg_count |-> 0, chunk_failures |-> 0,
                  type_failures |-> 0]
    /\ skips = [x \in Reasons |-> 0]
    /\ by_type = [k \in Kinds |-> [inventory_total |-> 0, kept |-> 0,
                                   evaluated |-> 0, findings |-> 0,
                                   chunk_failures |-> 0]]
    /\ skipLog = {}
    /\ denied = {}
-----------------------------------------------------------------------------
(* The type loop.                                                          *)

Kind == Configured[at]

Enabled(k) == wanted = {} \/ k \in wanted

\* Mutant: the loop index is not advanced.
IsNext_Again(i, n) ==
    /\ n \in i..(NTypes + 1)
    /\ n <= NTypes => Enabled(Configured[n])

\* n is the next enabled type after the i-th one, or NTypes + 1 if none is left.
IsNext(i, n) ==
    /\ n \in (i + 1)..(NTypes + 1)
    /\ n <= NTypes => Enabled(Configured[n])
    /\ \A j \in (i + 1)..(n - 1) : ~Enabled(Configured[j])

Advance ==
    \E n \in 1..(NTypes + 1) :
        /\ IsNext(at, n)
        /\ at' = n
        /\ pc' = IF n <= NTypes THEN "list" ELSE "write"

StartRun ==
    /\ pc = "start"
    /\ wanted \subseteq Kinds
    /\ Advance
    /\ UNCHANGED <<settings, found, counts, todo, typeRows, denied>>

\* RESOURCE_TYPES names a type that is not configured: ValueError.
RefuseSettings ==
    /\ pc = "start"
    /\ ~(wanted \subseteq Kinds)
    /\ pc' = "refused"
    /\ UNCHANGED <<settings, loop, found, counts, denied>>

\* Mutant: the rows found before the error are kept.
DropType_KeepsRows ==
    /\ todo' = {}
    /\ typeRows' = {}
    /\ rows' = rows \cup typeRows
    /\ Advance
    /\ UNCHANGED <<settings, table, denied>>

\* run's `except Exception`: the type's rows are lost, what it counted stays.
DropType ==
    /\ todo' = {}
    /\ typeRows' = {}
    /\ Advance
    /\ UNCHANGED <<settings, found, denied>>

\* run's `except PermissionMissing: raise`: nothing of the run is written and
\* there is no "run complete" line.
Forbid(need) ==
    /\ pc' = "forbidden"
    /\ denied' = denied \cup {need}
    /\ UNCHANGED <<settings, loop, found, counts>>
-----------------------------------------------------------------------------
(* Step 1 of _run_type: inventory and filters.                             *)

OfKind(k) == {r \in Resources : r.kind = k}

\* Mutant: no `continue` after the ignored resource group.
ExcludedByTag_Again(S) == {r \in S : r.exclude}

\* filter_resources: the first test that rejects a resource names the reason.
InIgnoredRg(S)   == {r \in S : r.rg \in IgnoredRgs}
ExcludedByTag(S) == {r \in S \ InIgnoredRg(S) : r.exclude}
Inactive(S)      == {r \in S \ (InIgnoredRg(S) \cup ExcludedByTag(S)) :
                        ~r.active}
Kept(S)          == S \ (InIgnoredRg(S) \cup ExcludedByTag(S) \cup Inactive(S))

\* filter_resources' ignored_rg_count: distinct groups within one type.
RgsOf(S) == {<<r.sub, r.rg>> : r \in S}

\* FinOps drops what it cannot size before the fetch.
Unsizeable(K) == IF mode = "finops" THEN {r \in K : ~r.sizeable} ELSE {}

\* _log_skip for every resource of S: one count, one log line each.
Lines(reason, S) ==
    {[reason |-> reason, resource |-> r, metric |-> ""] : r \in S}

EvaluatedKeys(k) == IF mode = "ops" THEN OpsMetrics[k] ELSE FinopsMetrics[k]

ListForbidden ==
    /\ pc = "list"
    /\ Forbid("inventory")

\* The query fails, or parsing or enriching a row raises.
ListFails ==
    /\ pc = "list"
    /\ summary' = [summary EXCEPT !.type_failures = @ + 1]
    /\ UNCHANGED <<by_type, skips, skipLog>>
    /\ DropType

\* What _run_type counts and logs before its metrics window is computed.
CountListed(S, failures) ==
    LET kept       == Kept(S)
        unsizeable == Unsizeable(kept)
    IN
    /\ summary' = [summary EXCEPT
           !.inventory_total  = @ + Cardinality(S),
           !.ignored_rg_count = @ + Cardinality(RgsOf(InIgnoredRg(S))),
           !.type_failures    = @ + failures]
    /\ by_type' = [by_type EXCEPT ![Kind].inventory_total = Cardinality(S),
                                  ![Kind].kept = Cardinality(kept)]
    /\ skips' = [skips EXCEPT
           !["ignored_rg"]      = @ + Cardinality(InIgnoredRg(S)),
           !["excluded_by_tag"] = @ + Cardinality(ExcludedByTag(S)),
           !["inactive"]        = @ + Cardinality(Inactive(S)),
           !["unsizeable"]      = @ + Cardinality(unsizeable)]
    /\ skipLog' = skipLog \cup Lines("ignored_rg", InIgnoredRg(S))
                          \cup Lines("excluded_by_tag", ExcludedByTag(S))
                          \cup Lines("inactive", Inactive(S))
                          \cup Lines("unsizeable", unsizeable)

Listed(S) ==
    /\ CountListed(S, 0)
    /\ todo' = Kept(S) \ Unsizeable(Kept(S))
    /\ pc' = IF Kind \in Monitored /\ EvaluatedKeys(Kind) # {}
             THEN "fetch" ELSE "evaluate"
    /\ UNCHANGED <<settings, found, at, typeRows, denied>>

List ==
    /\ pc = "list"
    /\ \E S \in SUBSET OfKind(Kind) : Listed(S)

\* A configured granularity that is not an ISO 8601 duration is found out
\* here, after the inventory was counted.
WindowRaises ==
    /\ pc = "list"
    /\ \E S \in SUBSET OfKind(Kind) : CountListed(S, 1)
    /\ DropType
-----------------------------------------------------------------------------
(* Step 2: the batches of the type, all settled (FetchAll models the       *)
(* fan-out).  `failed` are the batches whose query raised; `forbidden` says *)
(* that one of them raised PermissionMissing, which _fetch_chunk treats    *)
(* like any other error.                                                   *)

\* Mutant: `if r.id in raw` forgotten.
Survivors_All(failed) == todo

Survivors(failed) == todo \ UNION failed

Fetched(failed, forbidden) ==
    /\ summary' = [summary EXCEPT !.chunk_failures = @ + Cardinality(failed)]
    /\ by_type' = [by_type EXCEPT ![Kind].chunk_failures =
                                      @ + Cardinality(failed)]
    /\ skips' = [skips EXCEPT !["chunk_failed"] =
                                  @ + Cardinality(UNION failed)]
    /\ skipLog' = skipLog \cup Lines("chunk_failed", UNION failed)
    /\ todo' = Survivors(failed)
    /\ denied' = IF forbidden THEN denied \cup {"metrics"} ELSE denied
    /\ pc' = "evaluate"
    /\ UNCHANGED <<settings, found, at, typeRows>>

Fetch ==
    /\ pc = "fetch"
    /\ \E batches \in Batchings(todo, BatchSize) :
           \E failed \in SUBSET batches :
              \E forbidden \in BOOLEAN :
                 (forbidden => failed # {}) /\ Fetched(failed, forbidden)
-----------------------------------------------------------------------------
(* Step 3: evaluate, one resource after the other.                         *)

\* ts.evaluated += 1; summary.evaluated += 1
CountEvaluated ==
    /\ summary' = [summary EXCEPT !.evaluated = @ + 1]
    /\ by_type' = [by_type EXCEPT ![Kind].evaluated = @ + 1]

Evaluating(r) ==
    /\ pc = "evaluate"
    /\ r \in todo
    /\ CountEvaluated
    /\ todo' = todo \ {r}
    /\ UNCHANGED <<settings, found, pc, at, denied>>

\* Ops: each applicable metric is without data, hot, or neither.
EvaluateHot(r, nodata, hot) ==
    /\ mode = "ops"
    /\ Evaluating(r)
    /\ skips' = [skips EXCEPT !["no_ops_data"] = @ + Cardinality(nodata)]
    /\ skipLog' = skipLog \cup {[reason |-> "no_ops_data", resource |-> r,
                                 metric |-> m] : m \in nodata}
    /\ typeRows' = typeRows \cup {[resource |-> r, metric |-> m] : m \in hot}

\* FinOps: some covered metric is not cold, or the type has no FinOps metric
\* that applies.
NotCold(r) ==
    /\ mode = "finops"
    /\ Evaluating(r)
    /\ UNCHANGED <<skips, skipLog, typeRows>>

\* FinOps: the primary metric has too few datapoints.
NoCoverage(r) ==
    /\ mode = "finops"
    /\ FinopsMetrics[Kind] # {}
    /\ Evaluating(r)
    /\ skips' = [skips EXCEPT !["insufficient_finops_data"] = @ + 1]
    /\ skipLog' = skipLog \cup Lines("insufficient_finops_data", {r})
    /\ UNCHANGED typeRows

\* FinOps: cold; the recommender, if there is one, turns it into a row.  The
\* price lookups that fill its cost columns never fail on an HTTP error.
Cold(r, primary) ==
    /\ mode = "finops"
    /\ primary \in FinopsMetrics[Kind]
    /\ Evaluating(r)
    /\ typeRows' = IF Kind \in Recommended
                   THEN typeRows \cup {[resource |-> r, metric |-> primary]}
                   ELSE typeRows
    /\ UNCHANGED <<skips, skipLog>>

\* A derivation, percentile or catalog the config gets wrong, or a malformed
\* price, raises after the resource was counted.
EvaluationRaises ==
    /\ pc = "evaluate"
    /\ todo # {}
    /\ EvaluatedKeys(Kind) # {}
    /\ summary' = [summary EXCEPT !.evaluated = @ + 1,
                                  !.type_failures = @ + 1]
    /\ by_type' = [by_type EXCEPT ![Kind].evaluated = @ + 1]
    /\ UNCHANGED <<skips, skipLog>>
    /\ DropType

FinishType ==
    /\ pc = "evaluate"
    /\ todo = {}
    /\ by_type' = [by_type EXCEPT ![Kind].findings = Cardinality(typeRows)]
    /\ rows' = rows \cup typeRows
    /\ typeRows' = {}
    /\ Advance
    /\ UNCHANGED <<settings, todo, table, summary, skips, skipLog, denied>>
-----------------------------------------------------------------------------
(* Step 4: one write per run.  The sink takes the rows in parts (gzip      *)
(* chunks of at most 1 MB, or lines of the dry-run file) and raises on the *)
(* first part that fails.                                                  *)

BeginWrite ==
    /\ pc = "write"
    /\ summary' = [summary EXCEPT !.findings = Cardinality(rows)]
    /\ pc' = IF rows = {} THEN "report" ELSE "upload"
    /\ UNCHANGED <<settings, loop, found, skips, by_type, skipLog, denied>>

\* Mutant: rows are also sent while types are still being evaluated.
UploadPart_Early(S) ==
    /\ pc \in {"list", "upload"}
    /\ S # {}
    /\ S \subseteq rows \ table
    /\ table' = table \cup S
    /\ UNCHANGED <<settings, loop, counts, pc, rows, denied>>

UploadPart(S) ==
    /\ pc = "upload"
    /\ S # {}
    /\ S \subseteq rows \ table
    /\ table' = table \cup S
    /\ UNCHANGED <<settings, loop, counts, pc, rows, denied>>

UploadDone ==
    /\ pc = "upload"
    /\ table = rows
    /\ summary' = [summary EXCEPT !.rows_written = Cardinality(rows)]
    /\ pc' = "report"
    /\ UNCHANGED <<settings, loop, found, skips, by_type, skipLog, denied>>

\* Mutant: the error is logged and forgotten.
UploadFails_Swallowed ==
    /\ pc = "upload"
    /\ pc' = "report"
    /\ UNCHANGED <<settings, loop, found, counts, denied>>

\* Also when only the answer to an accepted part is lost.
UploadFails ==
    /\ pc = "upload"
    /\ summary' = [summary EXCEPT !.write_failures = @ + 1]
    /\ pc' = "report"
    /\ UNCHANGED <<settings, loop, found, skips, by_type, skipLog, denied>>

\* Mutant: a need that identity/role-requirements.yaml does not list.
UploadForbidden_WrongNeed ==
    /\ pc = "upload"
    /\ table # rows
    /\ Forbid("logs_ingestion")

UploadForbidden ==
    /\ pc = "upload"
    /\ table # rows
    /\ Forbid("findings_ingest")

\* The "run complete" line, then FindingsWriteFailed or the summary.
Report ==
    /\ pc = "report"
    /\ pc' = IF summary.write_failures > 0 THEN "write_failed" ELSE "returned"
    /\ UNCHANGED <<settings, loop, found, counts, denied>>

\* The host's time limit, a stop of the unit, a lost machine.
Kill ==
    /\ pc \notin Ended
    /\ pc' = "killed"
    /\ UNCHANGED <<settings, loop, found, counts, denied>>

Stopped == pc \in Ended /\ UNCHANGED vars
-----------------------------------------------------------------------------
Evaluate ==
    \E r \in todo :
        \/ \E nodata, hot \in SUBSET OpsMetrics[Kind] :
               nodata \cap hot = {} /\ EvaluateHot(r, nodata, hot)
        \/ NotCold(r)
        \/ NoCoverage(r)
        \/ \E m \in FinopsMetrics[Kind] : Cold(r, m)

Upload ==
    \/ \E S \in SUBSET rows : UploadPart(S)
    \/ UploadDone
    \/ UploadFails
    \/ UploadForbidden

Progress ==
    \/ StartRun \/ RefuseSettings
    \/ ListForbidden \/ ListFails \/ List \/ WindowRaises
    \/ Fetch
    \/ Evaluate \/ EvaluationRaises \/ FinishType
    \/ BeginWrite \/ Upload \/ Report

Next == Progress \/ Kill \/ Stopped

Spec == Init /\ [][Next]_vars

\* Every call to Azure answers or times out in its client, so a run that is
\* not stopped takes its next step.
FairSpec == Spec /\ WF_vars(Progress)
-----------------------------------------------------------------------------
(* Properties.                                                             *)

LoopDone == pc \in {"write", "upload", "report", "returned", "write_failed"}

DroppedCount ==
    skips["ignored_rg"] + skips["excluded_by_tag"] + skips["inactive"]
        + skips["unsizeable"] + skips["chunk_failed"]

\* No resource disappears from the "run complete" line: once every type was
\* handled without a type failure, each listed resource was either dropped
\* for one counted reason or evaluated.  A failed type can only leave
\* resources uncounted, never count one twice.
Accounting ==
    /\ summary.inventory_total >= DroppedCount + summary.evaluated
    /\ LoopDone /\ summary.type_failures = 0 =>
           summary.inventory_total = DroppedCount + summary.evaluated

\* "skips" agrees with the "skipped resource" lines, and a resource is dropped
\* once: apart from no_ops_data, which is logged per metric, no resource has
\* two lines, whatever filters it would fail and whatever type raises later.
\* What was dropped is never reported: such a resource has no row, and a
\* metric without data has none either.
CountedOnce ==
    /\ \A x \in Reasons :
           skips[x] = Cardinality({l \in skipLog : l.reason = x})
    /\ \A l, m \in skipLog :
           /\ l.resource = m.resource
           /\ "no_ops_data" \notin {l.reason, m.reason}
           => l = m
    /\ \A l \in skipLog, w \in rows \cup typeRows :
           l.resource = w.resource =>
               l.reason = "no_ops_data" /\ l.metric # w.metric

\* A type contributes all the findings it counted or, when it raised, none.
FindingsPerType ==
    \A k \in Kinds :
        by_type[k].findings = Cardinality({w \in rows : w.resource.kind = k})

TableOutcome ==
    /\ pc = "returned" => /\ table = rows
                          /\ summary.rows_written = Cardinality(rows)
                          /\ summary.findings = Cardinality(rows)
    /\ pc = "write_failed" => rows # {} /\ summary.rows_written = 0
    /\ pc \in {"refused", "forbidden"} /\ "findings_ingest" \notin denied =>
           table = {}

\* A 403 of the inventory or of the upload ends the run with PermissionMissing.
\* One of the metrics call does not: _fetch_chunk takes it for a failed batch,
\* and the run goes on with that batch counted as failed.
DenialShown ==
    pc \in {"returned", "write_failed"} =>
        /\ denied \subseteq {"metrics"}
        /\ denied # {} => summary.chunk_failures > 0

\* How the run ends tells what the table holds: a run that returns wrote all
\* it found; FindingsWriteFailed is raised only over rows that are not
\* counted as written; a run refused or forbidden before the upload left the
\* table alone.  And no run ends well over a missing permission, unless it is
\* the one for metrics; then its batches are counted as failed.
WriteOutcome == TableOutcome /\ DenialShown

\* docs/agents/identity.md: an identity that lacks a permission makes the run
\* fail with the permission's name.
DenialFails == denied # {} => pc # "returned"

\* Every run that is started ends, whichever calls fail.
Termination == <>(pc \in Ended)

Stage ==
    CASE pc \in {"start", "list", "fetch", "evaluate", "write"} -> "collecting"
      [] pc \in {"upload", "report"} -> "delivering"
      [] pc = "returned" -> "success"
      [] pc = "killed" -> "lost"
      [] OTHER -> "failed"

Contract == INSTANCE RunContract
                WITH Rows <- Row, stage <- Stage, collected <- rows,
                     delivered <- table

\* A run collects whole types, delivers only when the type loop is over, and
\* says it succeeded only when everything it collected is in the table.
ImplementsContract == Contract!Spec
=============================================================================
