# Verification of the o11y alerting program

TLA+ models of this repository's program, model-checked with TLC and, for any value of
their constants, proved with TLAPS. A run of the program (`src/bootstrap.py`,
`src/pipeline.py`) lists Azure resources of the configured types, fetches their metrics,
decides which are hot (mode `ops`) or oversized (mode `finops`), and writes one row per
finding to a Log Analytics table, where alert rules look for them. It is started by a
timer, in a Function App or on a VM; on the VM an Ansible role installs new releases beside
running timers.

Paths below are relative to the repository. `PROJECT.json` maps every definition to the
lines it was read from, every run to its properties and every property to a change of the
code that breaks it.

Contents: 1 components, 2 modules and how they correspond to the code, 3 runs, 4 bounds
and fairness, 5 proofs, 6 disagreements found, 7 what is not modelled, 8 plan, 9 how to run.

## 1. Components

| component | state | operations | talks to |
|---|---|---|---|
| pipeline (`src/pipeline.py`) | rows, `RunSummary`, the type being worked on | `run`, `_run_type`, `_write` | every other part of a run |
| metrics fan-out (`pipeline._fetch_all`, `_fetch_chunk`) | one coroutine per batch, a semaphore | start, answer, fail, gather | metrics client |
| inventory (`src/inventory/`) | none | query with paging, filters | Resource Graph |
| metric values (`src/metrics/batch.py`) | one client per region | a call per dimension filter, parse the answer, merge | metrics:getBatch |
| metric derivations (`src/metrics/derive.py`) | none | requests of a type, series of its keys | configuration |
| evaluation (`src/evaluate/`) | none | `evaluate_hot`, `evaluate_cold`, `percentile` | derivations, tags |
| recommenders (`src/recommend/`) | none | one rule per kind, ladders, family steps | catalogs, evaluation |
| retail prices (`src/recommend/pricing.py`) | a cache of the client, one per run | look up, cache, give up | Retail Prices API |
| configuration, settings (`src/config/`) | immutable | merge files, validate | everything |
| findings rows and sinks (`src/notify/`, `src/storage/`) | none; a file or a table | one row per finding, upload in parts | Logs Ingestion API |
| process entry (`src/bootstrap.py`, `run_local.py`, `function_app.py`) | clients of a run | build clients, await `run`, map errors to exits | timers, hosts |
| VM release role (`ansible/`, `packaging/vm/`) | release directories, `current`, settings file, units | unpack, venv, smoke test, settings, switch, prune | VM units |
| VM units (service and timer templates) | a job per mode | resolve `current`, start, stop at the time limit | release role, process entry |
| resource types (`src/resource_types/`) | none | query, parse a row, enrich, active, `finops_skip` | inventory, recommenders |
| schedule conversion (`filter_plugins/ncrontab.py`) | none | six fields to systemd calendar | timers |
| insights alerts (`terraform/module-o11y-insights/`) | alert state | KQL over the findings tables | findings tables |

What is hard in each, and what makes it correct:

* **pipeline.** Seven places drop a resource, each with its own counter, over four files;
  a type may raise after half of it was counted; a missing permission ends the run in the
  middle; the host may stop it at any await; an upload may fail in part. Correct is: every
  resource is counted once, totals are the sums of the types, nothing skipped is reported,
  nothing is delivered before everything is collected, and how a run ends tells what the
  table holds.
* **fan-out.** Concurrent batches under one semaphore, answers in any order, failures
  before and after the first await. Correct is: the limit holds, no slot is lost or idles
  while somebody waits, nobody is overtaken, every resource is in one batch, and the
  fan-out returns.
* **values and derivations.** Nothing downstream can see where a series came from. Correct
  is: it is the resource's own, of the metric, aggregation and filter its key names, and
  complete, although requests are shared by keys, calls are split by filter, and answers
  may be partial, unordered, without ids, or lost.
* **evaluation.** Nearest rank at its boundaries, metrics that are hot when low, metrics
  without coverage that stop the loop only if they are first, tags that override
  thresholds. Correct is: the verdict is the one counting readings gives.
* **recommenders.** Sizes, shares, headroom and floors that meet at equality; advice that
  is repeated every week against the size the last advice led to. Correct is: a target
  holds the load, is the smallest that does, and brings no further target.
* **resource types.** Columns may be null, capacities unknown, letter case is Azure's, and
  each type has its own tests of state, tier and size, spread over parser, configuration,
  derivation and recommender. Correct is: a resource that cannot be judged is said to be
  left out, letter case decides nothing, and a target carries the load the metric read.
* **findings rows and prices.** Values are rounded where they are compared or where they are
  shown; prices of two SKUs come through one cache with failures in it. Correct is: a row is
  true, each cost is the machine's own, a saving is the difference of what is shown.
* **alerts.** A rule sees only rows, some time after the run, and no trace of a run that
  found nothing, failed, or did not start. Correct is: on while hot for the required number
  of runs, off otherwise; new savings told once; each row read by one team.
* **schedule conversion.** Two notations that differ in weekdays, names, steps and in what
  day and weekday mean together. Correct is: the timer fires when the schedule says.
* **release role.** Every task may fail or be interrupted, plays are repeated with other
  builds and groups, runs start between any two tasks. Correct is: only whole, tested
  releases go live and run.

`PROJECT.json` lists the hazards at their lines with the properties that would catch each.

## 2. Modules

Each component's properties are at the end of its module; definitions named `X_...` with a
comment "Mutant" are plausible bugs used to show that each property can fail.

| module | models | actions |
|---|---|---|
| `RunContract` | abstract: what a run promises the reader of the table | collect, stop collecting, deliver, succeed, fail |
| `Pipeline` | one run, both modes | one per handler from await to await, see below |
| `Batching` | how the fan-out cuts resources into batches, and what a cut must be | operators only |
| `FetchAll` | the fan-out of one type | Start, Resume, Answer, Succeed, Fail of a batch, Gather |
| `Telemetry` | from a type's metrics block to the series of its resources, one batch | Load, Reject, Call, CallRaises, Resolve, ResolveRaises |
| `EvaluateCold` | `evaluate_cold` on one resource | one per exit of the loop body |
| `Resize` | one resource under the advice of its recommender, week after week | a finding and a recommender's rule, no finding, the owner resizes or deletes |
| `ResourceFacts` | one inventory row in two spellings, from parser to judgement | ListResources, FilterResources, DropUnsizeable, Fetch, EvaluateHot, EvaluateCold, Recommend |
| `Findings` | the rows of one type: hot values, prices through the cache, the team that reads a row | EvaluateHot, Recommend, PriceFromCache, PriceAnswered, PriceFails, PriceRaises, FinopsRow |
| `Alerts` | a history of runs of one mode, their rows in the table, and the alert rule over it | Clock, TimerFires, TimerMissed, BeginOffSchedule, EndRun, Arrive, EvaluateOpsHot, EvaluateFinopsNew |
| `Ncrontab` | the filter that turns a schedule into a systemd calendar | one per field, its rejections, Write |
| `LiveRelease` | abstract: what may be live on the VM | go live, replace |
| `VmRelease` | the role's tasks, the installer's release check, runs that start meanwhile | one per task, its failure and interruption, and per step of a starting run |

Composition. `Pipeline` implements `RunContract` (`Contract == INSTANCE RunContract WITH
...`, property `ImplementsContract`). It takes the fan-out as one step, `Fetch`, whose
outcome is: some batching of the resources, some whole batches failed. `FetchAll` is
proved to deliver just that (`ImplementsFetch`), and both take the meaning of a batching
from `Batching`. `VmRelease` implements `LiveRelease` (`ImplementsLive`). `Telemetry` is
inside one batch of `FetchAll` and hands its series to `EvaluateCold`, whose findings go to
`Resize`, and with it to `Findings`; the rows of a run are what arrives in `Alerts`. These
are linked by what each assumes free (a series is any sequence of readings, a finding any
set of cold metrics with coverage, a run found the pair or not), not by an INSTANCE.

Three MC modules put two modules together in one behaviour, in the order in which the
program comes to them: `MCOneType` follows a resource from its row (`ResourceFacts`) through
the fan-out (`FetchAll`) to its verdict, or until its batch fails; `MCAdvice` goes from
`EvaluateCold`'s finding to the weeks of advice (`Resize`); `MCTiming` has a schedule's
conversion for a VM (`Ncrontab`), and the runs and the rule (`Alerts`) for a host that takes
the schedule as it is. Where the first module's choices do not matter to the second, one of
them is followed; the comments there say which.

### Pipeline

`pc` is the await a run stands at; `List`, `Fetch`, `UploadPart` and so on are the code
from there to the next. `at` is the loop index over `Configured`, `todo` first the resources
to fetch and then those still to evaluate, `typeRows` and `rows` the rows of `_run_type`
and of `run`, `table` the rows that reached the table. `summary`, `skips` and `by_type` are
`RunSummary`; `skipLog` is the set of "skipped resource" log lines and `denied` the needs
that came back with a 403, both only observed. `List` contains `filter_resources` with the
order of its tests, `_log_skip` for each, and FinOps' check of what can be sized. `DropType`
is `run`'s `except Exception`, `Forbid` its `except PermissionMissing: raise`, `Kill` the
host. What Azure answers, and the verdict on each resource, are free choices.

### FetchAll

A batch is named by the position of its first resource. `free` and `waiters` are
`asyncio.Semaphore`'s `_value` and `_waiters` with CPython 3.11's rules: a release hands its
slot to the first waiter that is not woken yet, and nobody takes a slot while anyone waits.
The semaphore is code of the interpreter, modelled from its use here. A query
that raises before its first await fails before later batches have started (`Fail`'s first
conjunct). `calls` is the number of API calls a batch has left: one per dimension filter.

### Telemetry

Keys of a metrics block are numbered in config order, filters in the order of the calls.
`Load` and `Reject` are the validator `_one_request_per_raw_metric`; `Call` is one turn of
the loop in `MetricsBatchClient.query` with `_query_group`, `parse_batch_response`,
`_points` and the merge; `Resolve` is `resolve_series` for the resources of the batch. The
model keeps beside the points of a series where they came from (`of`), which the code does
not, and two histories: `told`, what the service answered, and `mishaps`, whether an answer
without ids was in another order than the request, or its text could not be captured. An
answer without ids that keeps the order of the request is a promise of the service.

### EvaluateCold

`left` are the metrics the loop has not visited; each action is one way through the loop
body. The percentile is the code's nearest rank; `Verdict` counts readings instead.

### Resize

A size is a SKU and a count. Loads and capacities share a unit, so that what the rules
compute from percentages is the load itself. `seen` are the metrics the last finding had
data for, `sizedBy` those of the finding that led to the present size, `rec` the advice.
Every recommender is one operator `Recommend...`, beside `ladder.py`'s `fit_up`,
`fit_down`, `next_smaller_in_family` and `downsize_in_family`.

### ResourceFacts

`step` is the part of `_run_type` that comes next, for two resources whose rows differ in
letter case only (`Spellings`). `Parse...`, `Enrich...`, `Active` and `Skip...` are the
functions of the types that have rules of their own, `Metrics` and `Applies` the default
thresholds with their `applies_to`, `ResolveSeries` the derivations that need a capacity,
`KnowsSize` what each recommender demands of the facts before it names a target: a SKU the
catalog lists, a capacity, an objective, a database name with a number of vCores, for a
cluster a known size of every pool that could shrink, for a plan one only if its count cannot
be lowered and it has sites. `Unsized`, in the property, says the same of the row, without
the parser and the rules. `fate` is the counter or finding a resource ends in; "unmeasured" is
the one nothing is logged for. The load is constant, so that a peak or a percentile of it is
the load.

### Findings

Money and readings are integers in mills, so that rounding half to even to two decimals is
`Round`. `got` are the prices the last recommendation has so far, `cache` the client's
`_cache`; a failed call is remembered as `None`. `MonthlyPrice` chooses among the offers of
a SKU. `Reads` is the filter at the head of every query over a findings table: `in~` over a
route's groups, and for the catch-all not `in~` over everybody's. `last`, `asked` and
`failed` are histories.

### Alerts

Time is in ticks of a third of the cadence; all that is due at a tick happens, in any
order, before `Clock`. A run is named by the tick it starts at; `rows` counts its rows about
one (resource, metric) in the table, which may arrive any time after it sent them, or twice.
`OpsHot` is the query with its window (the smallest allowed one that suffices), the
freshness test, and the streak `Streak` that a gap above one and a half periods resets;
`FinopsNew` compares the last period with the one before it. `late` remembers the runs whose
rows were still missing when the finops rule was evaluated.

### Ncrontab

A token is a number, a month's or weekday's name, or another word; a part is a star, one
token or a range, with or without a step. `Value`, `Bad`, `Expand` are `_value` and
`_expand`; `calendar` is what is written. `OnCalendar` is systemd's reading of it (external),
and `Fits...` is cron's reading of the schedule, defined without the code's expansion.

### VmRelease

`disk` maps a release id to what its directory holds: which build, unpacked not at all, so
far that `creates:` takes it for done, all but `RELEASE`, or fully, and whether the venv is
complete. `older` orders directories by modification time. `play` is the task the play
stands before. A starting run follows `current` for its working directory (`Enter`), again
for its interpreter (`Execute`), and again when it imports its code from that directory and
its requirements from the venv (`Load`), for the venv's path leads through `current`. `run`
records the directory, the build whose code was loaded and the builds whose venvs were used,
which need not be one. `replaced`, a history, has the ids of which `--reinstall` removed a
build, until a smoke test passes for the id.

## 3. Runs

Distinct states are those of the complete search; a violation run stops at the first
counterexample.

| run | instance | distinct states | shows |
|---|---|---|---|
| `pipeline` | two types, seven resources: each way to be dropped, two to evaluate together, an ignored group with both types; every `RESOURCE_TYPES`, both modes | 723,800 | accounting, rows and outcome of a run; it implements `RunContract`; every run ends |
| `one_type` | every kind with rules of its own, each column with the values its code tells apart, two spellings; and for one row every order of every subset of five resources in three groups, batches of two, two slots, two calls each | 248,879 | the slots; gather returns, with what `Pipeline` assumes; what is left out is said; letter case decides nothing but DTU look-ups; targets carry the load |
| `telemetry` | blocks of two keys over two raw metrics, every combination of aggregation, filter, derivation and `missing_as_zero` named there; two resources and a stranger; two intervals | 258,372 | what a resource is evaluated on is its own and whole |
| `advice` | up to three metrics, one inverted; windows of four points from three values and missing; tags; coverage 0 and 50 percent; percentile 75. After one of the findings: every kind with a recommender, 15 loads, family B, three plans, caches, ladders, one unknown SKU each | 902,535 | verdict and evidence are right; when the assertion fails; targets hold the load, are the smallest, and bring no further target |
| `findings` | readings around a half-cent; two SKUs, two operating systems, up to two offers each; three recommendations in a row; a team and a catch-all | 145,183 | rows are true, and read by one team |
| `timing` | one field of a schedule, or day and weekday together, in every form; three periods of three ticks, two sustained runs, every phase of the rule | 1,813,312 | the calendar means what the schedule says; when an alert is on, and which savings are told |
| `vm_release` | three builds, two of them under one id; one fails the smoke test, another fails it for one of two groups; keep one release; one mode | 649,687 | only whole, tested releases go live and run; disk use; a play that ends delivered what it was asked to; implements `LiveRelease` |
| `metrics_denied` | as `pipeline` | - | a run without the right to read metrics returns |
| `silent_skip` | premium Event Hubs namespaces | - | one without a capacity is not measured, and nothing says so |
| `vm_untested_config` | three builds, each with its id | - | settings change before `current` does |
| `vm_mixed_release` | the same | - | a run has the code of one release and the venv of another |
| `vm_reinstall` | as `vm_release` | - | `current` points to a build that failed its smoke test |

What the properties say, in short:

* `Pipeline`: `Accounting` (each listed resource was dropped for one counted reason or
  evaluated; a failed type can leave some uncounted, never count one twice), `CountedOnce`
  (counters agree with log lines, one line per dropped resource, nothing dropped is
  reported), `FindingsPerType` (a type contributes all it counted or nothing, and the totals
  are the sums of the types), `WriteOutcome` (how the run ends tells what is in the table),
  `ImplementsContract`, `Termination`.
* `FetchAll`: `ConcurrencyBound`, `NoIdleSlot` (no slot is free while somebody waits for
  one), `ImplementsFetch` (the batches cut the resources as `Pipeline` assumes, and gather
  returns with whole batches, failed or kept), `Settles`.
* `Telemetry`: `OwnReadings`, `EveryInterval` (a series has exactly the intervals the
  service reported, and values where it reported them; for a count, every reported
  interval; for a ratio, where both sides have one).
* `EvaluateCold`: `Verdict`, `Evidence`, `AssertionHolds`.
* `ResourceFacts`: `Judged` (who is left unmeasured without a word, and whom a recommender
  cannot size, is exactly what the row says: a short list, and `Unsized`),
  `CaseInsensitive`, `TargetCarriesLoad` (through two roundings, from bytes to percents to
  units).
* `Findings`: `BreachShown` (the value shown is on the breached side of the threshold shown
  and near the reading; what is beyond has a row), `CostsHonest`, `OneTeam`.
* `Resize`: `Covers`, `Smallest`, `Stable`.
* `Alerts`: `OpsAlert`, `NewsTold`, both about every evaluation of the rule.
* `Ncrontab`: `SameTimes`.
* `VmRelease`: `LiveReleaseWorks`, `OnlyTestedCodeRuns` (the code a run loads and each venv
  it uses passed a test, whether or not they are one release's), `DiskBound`,
  `FinishedPlayDelivers`, `ImplementsLive`. What is said of live releases excepts ids in
  `replaced`: after `--reinstall` it does not hold, which `vm_reinstall` shows.

## 4. Bounds and fairness

In most modules no counter is capped: a run visits each type once, a batch makes each call
once, a loop visits each metric once, and a resource only gets smaller; releases and runs
cycle over finite sets. There the bounds are the sets the constants stand for. `Alerts` and
`Findings` could go on for ever and are cut off by the constants their modules call bounds;
the proofs hold for any value of these.

* `pipeline`: batches of one resource let every subset of resources fail; two types, one
  fetched and one read from the inventory, suffice for a type that raises between two that
  do not end alike; the wider cut into batches is `one_type`'s. Configured types, resources
  and metrics are unbounded in the proofs.
* `one_type`: with two slots and up to four batches there are batches that hold, wait, are
  woken and have not started at once, the states the semaphore tells apart. Three groups
  with slices of unequal length show a cut across groups. The loads lie at, below and above
  every threshold and rounding boundary of the two unit types; a column has a value for each
  branch that reads it, and null. A plan's count, a pool's nodes and a database's vCores lie
  at and above their floors.
* `telemetry`: a raw metric can be shared by two keys that agree or disagree, and two calls
  are needed exactly if two filters are in use; two resources in five orders include
  missing, swapped and foreign ones.
* `advice`: with percentile 75 and 0 to 4 readings, ranks are hit exactly, between
  two readings, and at both ends. A series is taken in ascending order; no definition uses
  the order. The loads lie below, at and above each threshold, step and floor of the
  recommenders.
* `vm_release`: with two directories, every role one can have (live, installed before,
  half-unpacked, doomed, used by a run, being reinstalled) occurs together with another. The
  bad build shares its id with a good one, so that `--reinstall` can put it behind `current`.
  Keeping one release makes removal as eager as it can be.
* `findings`: `MaxPoints` 3 makes readings fall between cents, on half-cents and beside
  them; `MaxHot` 1, since an ops evaluation depends on no other; `MaxAdvice` 3, so that a
  price is asked, remembered or failed, and read again by a machine with the same and with
  another operating system.
* `timing`: `Horizon` 8 are three runs at their times and the evaluations after them, of
  which two make a streak (`SustainedRuns` 2), so a streak can break and be late; `Period` 3
  lets a rule have two phases; `Grace` 2 is below it, as ten minutes are below a cadence;
  `TimeLimit` 4 lets a run outlive its period; of `Windows` 2, 5, 8, 11 the third suffices
  exactly; `MaxOffSchedule` 1. In a schedule, every token at and just outside both ends of
  its field, steps from none to beyond the field, lists of two. One field at a time suffices
  because fields meet only in the rule for day and weekday, which take every list of two
  beside every single part. A weekday 7 at an end of a
  longer range is left out (`OpenSunday`): what it should mean is not settled, see 6.

Fairness. `Termination` assumes weak fairness of `Progress`, the run's own steps: every call
to Azure answers or times out in its client, and the run is the only thing in its event
loop. `Kill` is not fair; without it the run ends by itself. `Settles` assumes weak fairness
of "some batch takes a step" and of `Gather`: the event loop runs what is ready, and every
call answers or raises. No fairness between batches is needed, since each has finitely many
steps. The other modules state no liveness: a play may stop at any task, an owner need not
follow advice, and a host that is down fires no timer.

Deadlock is checked, with an explicit stuttering action where a process ends (`Stopped`,
`Returned`, `Ended`, `Gone`, `Done`, `Over`), except in `findings`, where a type is at its
end after any row, and in `timing`, where a conversion returns once.

## 5. Proofs

Theorems are for every value of the constants that meets the modules' ASSUMEs: any types,
resources, batches, limits, metrics blocks, answers, series, catalogs, builds and modes.

| module | theorem | states |
|---|---|---|
| `Pipeline_proofs` | `TypeCorrect`, `AccountsForAll`, `WriteOutcomeHolds`, `ContractHolds`, `TypesWhole`, `DropsCountedOnce`, `RunNeverBlocked`, `EachStepAdvances` | `TypeOK`, `Accounting`, `WriteOutcome`, `ImplementsContract`, `FindingsPerType`, `CountedOnce`; a run has a next step until it ends, and each step takes it further |
| `Resources_proofs` (`FetchAll`) | `TypeCorrect`, `NeverTooMany`, `NoSlotIdles`, `FetchImplemented`, `SomebodyReady`, `FirstComeFirstServed`, `CloserEachStep`, `CutExists` | `TypeOK`, `ConcurrencyBound`, `NoIdleSlot`, `ImplementsFetch`; some batch can step until all are done, batches are served in order, each step uses up work, a batching exists |
| `Resources_proofs` (`ResourceFacts`) | `FactsTyped`, `RowsJudged`, `CasingIgnored`, `TargetsCarry` | `FactsTypeOK`, `Judged`, `CaseInsensitive`, `TargetCarriesLoad` |
| `Telemetry_proofs` | `TypeCorrect`, `SeriesAreOwn`, `SeriesAreWhole` | `TypeOK`, `OwnReadings`, `EveryInterval` |
| `EvaluateCold_proofs` | `TypeCorrect`, `VerdictRight`, `EvidenceComplete`, `AssertionNeverFails` | `ColdTypeOK`, `Verdict`, `Evidence`, `AssertionHolds` |
| `Resize_proofs` | `TypeCorrect`, `AdviceIsExact`, `AdvisedOnce`, `TargetsHold` | `TypeOK`, `Smallest`, `Stable`, `Covers` |
| `Findings_proofs` | `TypeCorrect`, `BreachesShown`, `CostsShown`, `OneTeamReads` | `TypeOK`, `BreachShown`, `CostsHonest`, `OneTeam` |
| `Timing_proofs` (`Alerts`) | `TypeCorrect`, `OpsAlertExact`, `NewsToldOnce`, `AlertsHaveEvidence` | `TypeOK`, `OpsAlert`, `NewsTold`; an alert off schedule, too, rests on hot runs |
| `Timing_proofs` (`Ncrontab`) | `CalendarSaysSame` | `SameTimes` |
| `VmRelease_proofs` | `TypeCorrect`, `PlayDelivers`, `LiveIsTested`, `RunsAreTested`, `RoleImplementsLive`, `DiskUseBounded`, `NothingReplaced`, `ConfigTested` | `TypeOK`, `FinishedPlayDelivers`, `LiveReleaseWorks`, `OnlyTestedCodeRuns`, `ImplementsLive`, `DiskBound`, for any reuse of ids; where ids are not reused, `replaced` stays empty; when a configuration is tested, too |

The arguments:

* **Accounting** says nothing about resources a type still works on. `Balanced` counts them
  in: what was listed is at least what was dropped, evaluated and is in `todo`, with
  equality while no type failed. The filters are shown to split what was listed, and a
  failed set of batches to split `todo`, from `IsBatching`. With `NothingLeft` (between two
  types `todo` is empty) the sum is what `Accounting` says once the loop is done.
* **Types and drops.** `Placed` says which of a type's rows are where: `rows` holds those of
  types the loop has passed, `typeRows` those of the type at work. `Logged` says that log
  lines are about types passed or at work and never about a resource in `todo`, so a second
  line about one would need it to be listed twice (`ListedOnce`, `Unseen`); counters and log
  lines then grow by the same step (`SkipAll`).
* **WriteOutcome and RunContract.** `Written` adds where in the run the table may be
  non-empty, that it is part of `rows`, and which counters are still zero there. The
  refinement maps `pc` to a stage; each action is shown to be a step of the contract or a
  stutter.
* **Slots.** Free slots plus batches that hold one (woken ones included) are always the
  limit; the heart is that a release wakes the first waiter or frees the slot. `NoIdleSlot`
  needs two more parts: while batches are still being started nobody has been woken, and a
  slot can only come free where nobody waits (`Starting`); whoever waits is in the queue
  (`Queued`). That among any batches there is a first one (`FirstExists`) makes a release
  find the waiter it wakes.
* **The cut.** `FetchImplemented` shows that the code's cut is a batching for any batch
  size: ranks within a group take every value up to its size (`RankAttained`), so a slice of
  a group is full or the last (`SliceSize`), has one first resource (`OneHead`, `HeadOf`),
  and two resources share a batch exactly if their group and slice agree (`SharedSlice`).
  With `KeptListed` (what was listed stays) this is the assumption of `Pipeline`'s `Fetch`,
  which therefore rests on a proof.
* **Progress.** `Settles` and `Termination` are liveness, out of the prover's reach; what
  they rest on is not. In the fan-out, waiters are in line (`InLine`: in the order in which
  their batches were created, the woken ones first), and so, as a slot is never idle
  while somebody waits, an unfinished batch is always ready (`SomebodyReady`; without
  `MaxConcurrency > 0` this fails), and each of its steps uses up calls or states (`Work`,
  at most `Calls + 4` per batch). In a run the loop index is always one of a
  configured type while a type is at work, so that the next type or the write is there
  (`RunNeverBlocked`); every step reaches a later type, a later phase of the type or has one resource or row less left
  (`OneFurther`), and these are bounded. `CutExists` closes the gap between the two: the
  step `Fetch` has an outcome for any set of resources. What remains to TLC is the step from
  "can, and comes closer" to "will", which needs the fairness.
* **Rows to verdicts.** `ResourceFacts` is a table of rules, so its proof first looks each
  rule up once, by kind (`ParseIs`, `EnrichIs`, `AppliesIs`, `SeriesIs`, `KnowsIs`, ...).
  What a recommender knows is traced back to the row (`HowSold`, `PlanFacts`, `PoolFacts`,
  `Known`); that a plan's count cannot be lowered needs the ceiling's own bound (`NoFewer`).
  `Followed` says that at each step the facts are those the row and the load give, and
  `Together` that both spellings have come to the same, but for DTU tiers; `Judged` and `TargetCarriesLoad` then are
  statements about one row. For the latter, `RoundNear` bounds what the rounding of a share
  loses, `CeilingCovers` says that the ceiling loses nothing more, and `Carries` puts the
  two together for any headroom. For `CaseInsensitive` each rule is shown to read a
  text through `Lower` only (`SameActive`, `SameSkip`, `SameSeries`, `SameSize`), except in
  the DTU tiers. That the addresses of a virtual network add up to a number is an induction
  over its prefixes, done by hand (`UsableTyped`) as a least counterexample. No CASE of the
  module has overlapping arms: of these TLC takes the first, while the logic leaves open
  which is meant.
* **Calendar.** A field is taken apart: a part is expanded to the values that fit it
  (`PartIs`, with `Stepwise` for the remainders of a step), so a field is to the values that
  fit one of its parts (`ExpandIs`, over the union of a list of any length). `Converted`
  keeps this for the fields written so far.
* **Series.** `IInv` of `Telemetry_proofs` says of each raw series that its origin is the
  resource and the request of its metric (`RawOwn`), and that its points are the sum of what
  was told of it so far (`RawWhole`); of filters still to be called nothing was told
  (`Unheard`), so a call starts from an empty series. That calls do not overlap follows from
  each raw metric having one filter, that of its first key; that the first key's request is
  every key's is the validator's check.
* **Verdict.** A nearest-rank percentile is below a threshold exactly if enough readings are
  (`RankCovers` and the counting lemmas); the loop's invariant `Progress` says that each
  metric visited was idle or had no coverage, and that the first one had it.
* **Resize.** `Advised` says for each rule what its target is (`Right`), and that the size
  did not change since; `Settled` that a size led to by advice leaves no room below it for
  the metrics it was chosen by. `TargetsHold` assumes `Proportional`: smaller SKUs of plans
  and node pools have at least as much memory per vCPU. Of the catalogs in `config/` only
  the step from B2ms to B1ms violates it, which AKS' floor of two vCPUs excludes.
* **Rows and prices.** A rounded value is within half a cent (`RoundNear`) and keeps the
  side of a whole cent (`OtherSide`); `Remembered` says that what the cache holds for a key
  is the price of its offers or `None` after a failed call of it, and `OneMode` that ops and
  finops rows do not mix. Every row then has the costs of its own keys.
* **Alerts.** `Ordered` says that runs started by now and that only a run that sent rows
  has any. While all runs start on schedule, two runs with a smaller gap than one and a half
  periods are neighbours (`GapEnds`), so a streak of the required length is that many
  consecutive timers (`StreakFull`, `OnMeansHot`); conversely the window is wide enough for
  all of them (`HotMeansOn`). `Missed` says of each run whose rows an evaluation did not see
  that it is in `late`. Off schedule `OpsAlert` does not hold, and what does is
  `AlertHasEvidence`: the streak itself is a set of hot runs without a gap above one and a
  half periods, the newest of them recent.
* **Releases.** `Achieved` says what is done when the play stands before a task, after any
  history. `Sound` says that the live release is whole and tested (`CurrentGood`), that what a
  starting run has entered is (`RunsGood`), and that the release a play works in is once its
  smoke test passed (`Passed`), the first two but for ids in `replaced`. Nothing is written
  into a complete directory (`CompleteStays`), and only `--reinstall` removes one that is live,
  after which its id is in `replaced` (one a run has entered may be pruned, and then it has
  no directory and loads nothing); an id leaves `replaced` when a smoke test
  has passed for it, and then `Passed` says why. This needs nothing of how builds are named.
  `NothingReplaced` adds that with `OneBuildPerId`, as for commits, there is nothing to
  reinstall: the exceptions are those of packages whose version is used twice. `ConfigTested`
  says what it takes for `LoadedConfigWasTested`, which the run `vm_untested_config` refutes:
  one build per id, and that the groups accept the same builds (`GroupsAlike`), as on a VM
  that stays with one group. `DiskUseBounded` adds that directories are in a row by age
  (`Dated`) and that all but the newest few, and the installed one if it is not among them,
  are due to be removed (`Pruned`).

Every invariant, action property and refinement of every passing run is proved. Only
model-checked are `Termination` and `Settles`, which are liveness under fairness and out of
the prover's reach, and the counterexamples of the violation runs. Fairness conditions and
ENABLED appear in no proof: `SomebodyReady` and `RunNeverBlocked` spell out the guards
instead.

## 6. Disagreements found

Checked by the violation runs, with the quotations in `PROJECT.json`:

* `metrics_denied`: a 403 of the metrics API does not fail the run with the named
  permission. `_fetch_chunk` counts it as a failed batch (`src/pipeline.py:77`), and the run
  returns.
* `silent_skip`: a metric that needs a capacity the resource has not is dropped without a
  line (`src/metrics/derive.py:114`). A resource without any other is counted as evaluated,
  and neither a skip nor a row says that it was not (`src/evaluate/metric.py:151`). `Judged`
  lists who can be left out that way.
* `vm_untested_config`: settings are written one task before `current` is switched
  (`tasks/main.yml:96`): until the switch, or for good after a play that broke off between
  the two, runs load the old release's configuration for the new management group.
* `vm_mixed_release`: working directory, interpreter and imports each follow `current`
  anew (`o11y-alerting@.service.j2:16`), so a run that began before the switch works in the
  old directory with the new release's requirements. Both passed a test, but not together.
* `vm_reinstall`: `--reinstall` unpacks behind `current` if that is the id, before the smoke
  test (`packaging/vm/install.sh:122`): timers run a build that was not tested, and go on
  doing so if it fails.

Seen while modelling, without a run. In a run of the program:

* `docs/gotchas.md:13-15` says a batch answer whose text was not captured is mapped by
  request order. The payload is then `{}`, so there is nothing to map, and every resource of
  the batch has empty series; `Telemetry` models this.
* `min_coverage: 0` is accepted (`src/config/models.py:54`), lets an empty series through to
  the assertion at `src/evaluate/metric.py:115`, and costs the whole type. `AssertionHolds`
  is stated for a positive one.
* The name of a derivation and the number of its inputs are found wrong only after every
  batch of the type was fetched (`src/metrics/derive.py:122`).
* `MAX_CONCURRENCY: 0` is accepted and the fan-out would never return; `FetchAll` assumes it
  positive.
* A floor of 0 for gateways or throughput would let a recommender advise none at all
  (`FloorAssumption` of `Resize`).
* `type_failures` counts every exception of a type, and `ignored_rg_count` counts a group
  once per type with resources in it.
* The validator compares metric names exactly, the parser in lower case: two keys that spell
  one metric differently would be two requests for one name.
* The hot test compares the rounded value, the cold test the unrounded one: the sentence
  that shows cold evidence (`src/models.py:121-126`) may say that a value is below a
  threshold it equals as shown.
* A threshold tag may be `nan` or `inf`. A group tag with stray whitespace is nobody's, and
  goes to the catch-all.
* The step down a VM family is not checked against the observed load
  (`src/recommend/ladder.py:67`): `Covers` exempts it.
* `src/recommend/pricing.py:1` says that pricing never fails the run; a unit price that is
  no number, or an answer that is no object, is an error it does not catch, and costs the
  type (`PriceRaises`). Prices are asked for in the original spelling and remembered in
  lower case.
* A DTU tier is looked up as it is spelled, so the advice for such a database depends on
  Azure's letter case (`CaseInsensitive` exempts it).
* An address space the virtual network type cannot read counts as unused
  (`src/resource_types/vnet.py:51`).

In the alerts:

* An ops alert that "resolves when it leaves the latest run" does so by age alone: a clean
  run leaves no row, so the alert stays on for the cadence and ten minutes after the last hot
  one. Rows that arrive later than that make it flap.
* A run started by hand, or made up for by the Functions host, can close the gap a clean run
  left, and a streak forms across it; both alert properties are stated for runs on schedule
  (`AlertHasEvidence` says what is left without it).
* A run longer than the cadence makes the next timer pass; every second run is missing then,
  and a pair that is always hot never alerts.
* Savings whose rows arrive after the daily evaluation are not told at all, and a finding
  first shown without a price hides the saving when the price is back the next day.
* A route without channels claims its groups and tells nobody.

In installing and scheduling:

* Old releases are removed by age alone, under a run that works in one
  (`tasks/main.yml:143`).
* An unpack interrupted after `src/bootstrap.py` exists is not repaired by playing the same
  release again; it cannot go live either (`LiveReleaseWorks`). If it broke off just before
  `RELEASE`, the installer has nothing to compare another build of that id with.
* A weekday range `0-7` becomes Sunday alone and `5-7` is rejected, although
  `filter_plugins/ncrontab.py:35` takes 7 for cron's other Sunday. Whether a field is
  restricted is judged by its values, not by its star: `0-6` counts as every day.

## 7. Abstractions and what is not modelled

* In `Pipeline` a row is the resource and the metric it is about; `Findings` has the columns
  that say something computed, and texts and ids are left out everywhere.
* Inventory: a query is one step with three outcomes. Pages come from no snapshot; what they
  repeat or miss is the service's.
* `Telemetry`: a reading is missing, zero or some number, so quotients and rounding are left
  out; a denominator and a capacity are positive if they are numbers. Names and ids that
  differ only in case are one. A service lists no resource twice and answers an unfiltered
  metric with one series; for more, the code only warns. Types read from the inventory fetch
  nothing and are left out.
* `EvaluateCold`: readings are integers; the nearest rank is exact, while the code's float
  product may be one rank off for some percentiles (not for 5, 50, 90, 95 or 99 with fewer
  than 3,000 readings). Median and recommender inputs are left out; rounding is
  `Findings`'.
* `Resize`: exact arithmetic instead of rounded percentages and a float ceiling; the load is
  constant; a cluster has one node pool; the storage rule, which sizes nothing, is left out.
  Rounded percentages and unknown capacities are `ResourceFacts`'.
* `ResourceFacts`: types whose parser only copies columns are one of the simple kinds; of
  metrics that apply to the same resources one is taken; a load is constant.
* `Findings`: decimal arithmetic stands for floats, whose rounding may fall on the other side
  of a tie; what the words of an offer say is whether it is excluded.
* `Alerts`: one pair, or one resource; runs of one mode do not overlap (a timer does not
  start a second one); a query sees all rows that have arrived.
* `Ncrontab`: how text is split into tokens is left out; weekdays are numbers.
* `VmRelease`: one play at a time; packages, users and tokens may fail (`StopPlay`) and
  change nothing modelled.
* Not modelled: the health rules of the insights module, which restate a count each, its
  digests, Logic Apps and workbooks; the merging of configuration files and the settings that
  are plain values; paging of inventory queries; install and build scripts and `deploy.sh`
  (linear shell around other programs); Terraform and the table schema (declarative); the
  identity document; building clients and logging, which keep no state of a run.

## 8. Plan

Done: the modules of section 2, most important behaviour first: `RunContract`, `Batching`,
`Pipeline`, `FetchAll`, then `VmRelease` with `LiveRelease`, `EvaluateCold`, `Resize`,
`Telemetry`; then what surrounds a run: `ResourceFacts`, `Findings`, `Alerts`, `Ncrontab`.
Every safety property the runs check is proved.

What could follow, in this order:

1. Clusters of several node pools in `Resize`.
2. The merge of defaults and overrides per management group, with its validators.
3. Paging of inventory queries, if the service's promises were written down.
4. Overlapping runs of both modes on one VM, and their working directory.

## 9. How to run

    tlc -config MCPipeline.cfg MCPipeline     # and so on, one .cfg per run
    tlapm Pipeline_proofs.tla

Every passing run finishes in one to three minutes with two workers on a laptop-sized
machine; `advice` and `timing` take longest.
