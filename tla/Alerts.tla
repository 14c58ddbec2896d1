-------------------------------- MODULE Alerts --------------------------------
(***************************************************************************)
(* What the alert rules of terraform/module-o11y-insights make of a        *)
(* history of runs: the ops rule on one (resource, metric), or the finops  *)
(* rule on one resource, over the rows that runs leave in a findings table.*)
(*                                                                         *)
(* Time is counted in ticks.  A timer is due at each multiple of the       *)
(* period, a rule once per period at a phase of its own, other than the    *)
(* timer's.  A run is named by the tick it started at, which is the        *)
(* TimeGenerated of its rows; they arrive in the table some time after it  *)
(* ends, or twice.                                                         *)
(***************************************************************************)
EXTENDS Naturals, FiniteSets

CONSTANTS
    Period,          \* of timer and rule; for ops, ops_cadence_minutes
    SustainedRuns,   \* ops_sustained_runs
    Grace,           \* the ten minutes in ops_window_needed and fresh_after
    Windows,         \* iso_duration: window sizes a rule may have
    TimeLimit,       \* a run is stopped at this age
    MaxOffSchedule,  \* bound: runs started off schedule
    Horizon          \* bound: the last tick

ASSUME TimesAssumption ==
    /\ Period \in Nat \ {0, 1} /\ SustainedRuns \in Nat \ {0}
    /\ Grace \in Nat /\ TimeLimit \in Nat
    /\ MaxOffSchedule \in Nat /\ Horizon \in Nat

\* min(...) of no window size would be an error of the plan.
ASSUME WindowsAssumption ==
    /\ Windows \subseteq Nat
    /\ \E w \in Windows : w >= Period * SustainedRuns + Grace

VARIABLES
    mode,   \* which of the two tables and rules
    phase,  \* when in each period the rule is evaluated
    now,
    due,    \* what is to happen at this tick
    log,    \* [tick -> what became of the run started then]
    rows,   \* [tick -> rows of that run in the table, for this resource]
    told,   \* the rule held when it was last evaluated
    late    \* history: runs whose rows the finops rule was too early for

vars == <<mode, phase, now, due, log, rows, told, late>>

Ticks == 0..Horizon

\* found: hot or cold, and the row was sent, however the run ended after that.
\* unpriced: cold, without a saving of at least finops_new_saving_min.
\* lost: the run ended before it sent its rows.
Outcomes == {"found", "clean", "lost"}
                \cup (IF mode = "finops" THEN {"unpriced"} ELSE {})
Sent     == {"found", "unpriced"}
Status   == {"none", "running", "found", "unpriced", "clean", "lost"}

TypeOK ==
    /\ mode \in {"ops", "finops"}
    /\ phase \in 1..(Period - 1)
    /\ now \in Ticks
    /\ due \subseteq {"timer", "rule"}
    /\ log \in [Ticks -> Status]
    /\ rows \in [Ticks -> 0..2]
    /\ told \in BOOLEAN
    /\ late \subseteq Ticks

Due(t, p) == (IF t % Period = 0 THEN {"timer"} ELSE {})
                 \cup (IF t % Period = p THEN {"rule"} ELSE {})

Init ==
    /\ mode \in {"ops", "finops"}
    /\ phase \in 1..(Period - 1)
    /\ now = 0
    /\ due = Due(0, phase)
    /\ log = [t \in Ticks |-> "none"]
    /\ rows = [t \in Ticks |-> 0]
    /\ told = FALSE
    /\ late = {}
-----------------------------------------------------------------------------
(* Runs.                                                                   *)

Running == {t \in Ticks : log[t] = "running"}

\* Nothing due waits for the next tick, and no run outlives its time limit.
Clock ==
    /\ now < Horizon
    /\ due = {}
    /\ \A t \in Running : now - t < TimeLimit
    /\ now' = now + 1
    /\ due' = Due(now + 1, phase)
    /\ UNCHANGED <<mode, phase, log, rows, told, late>>

Begin ==
    /\ Running = {}
    /\ log[now] = "none"
    /\ log' = [log EXCEPT ![now] = "running"]
    /\ UNCHANGED <<mode, phase, now, rows, told, late>>

TimerFires ==
    /\ "timer" \in due
    /\ Begin
    /\ due' = due \ {"timer"}

\* The host is down, and on the VM a missed run is not caught up; or the last
\* run is still going, and a timer does not start a second one.
TimerMissed ==
    /\ "timer" \in due
    /\ due' = due \ {"timer"}
    /\ UNCHANGED <<mode, phase, now, log, rows, told, late>>

\* By hand, or by a Functions host (use_monitor) that missed one before.
BeginOffSchedule ==
    /\ now % Period # 0
    /\ Cardinality({t \in Ticks : log[t] # "none" /\ t % Period # 0})
           < MaxOffSchedule
    /\ Begin
    /\ UNCHANGED due

EndRun(t, outcome) ==
    /\ t \in Running
    /\ log' = [log EXCEPT ![t] = outcome]
    /\ UNCHANGED <<mode, phase, now, due, rows, told, late>>

\* Mutant: the retry policy repeats as often as it likes.
Arrive_Ever(t) ==
    /\ log[t] \in Sent
    /\ rows' = [rows EXCEPT ![t] = @ + 1]
    /\ UNCHANGED <<mode, phase, now, due, log, told, late>>

\* Ingestion; the second row is that of an upload whose answer was lost and
\* that the SDK repeated.
Arrive(t) ==
    /\ log[t] \in Sent
    /\ rows[t] < 2
    /\ rows' = [rows EXCEPT ![t] = @ + 1]
    /\ UNCHANGED <<mode, phase, now, due, log, told, late>>
-----------------------------------------------------------------------------
(* The rules.                                                              *)

\* The rows of the table between two ages, the older one excluded.
Aged(from, to) ==
    {t \in 0..now : rows[t] > 0 /\ from <= now - t /\ now - t < to}

\* ops_window_minutes
IsWindow(w) ==
    /\ w \in Windows
    /\ w >= Period * SustainedRuns + Grace
    /\ \A v \in Windows : v >= Period * SustainedRuns + Grace => w <= v

\* prev(RunTime) is v's: the run next after t that found the pair.
Follows(S, v, t) == v \in S /\ v > t /\ \A u \in S : u > t => v <= u

\* A gap over 1.5 periods ends a streak.
Broken(S, t) == \E v \in S : Follows(S, v, t) /\ 2 * (v - t) > 3 * Period

\* Streak == 0
Streak(S) == {t \in S : \A u \in S : u >= t => ~Broken(S, u)}

\* Mutant: rows are counted, not runs.
Runs_Rows(S) == Cardinality({x \in Streak(S) \X (1..2) : x[2] <= rows[x[1]]})

\* One per RunId: max(TimeGenerated) by ResourceId, MetricKey, RunId.
Runs(S) == Cardinality(Streak(S))

OpsHot ==
    \E w \in Windows :
        /\ IsWindow(w)
        /\ Aged(0, Period + Grace) \cap Aged(0, w) # {}
        /\ Runs(Aged(0, w)) >= SustainedRuns

\* Mutant: without query_time_range_override the query sees one day.
Previous_OneDay == Aged(Period, Period)

\* between (ago(2d) .. ago(1d)), of a query over two days
Previous == Aged(Period, 2 * Period)

\* In the last day's run with a saving, and not in the run before it.
FinopsNew ==
    /\ Previous = {}
    /\ \E t \in Aged(0, Period) :
           /\ \A u \in Aged(0, Period) : u <= t
           /\ log[t] = "found"

\* Runs of this period whose rows are not there yet, if there will be any.
Pending ==
    {t \in Ticks : /\ t <= now /\ now - t < Period
                   /\ log[t] \in Sent \cup {"running"}
                   /\ rows[t] = 0}

Evaluate(rule, holds) ==
    /\ "rule" \in due
    /\ mode = rule
    /\ told' = holds
    /\ due' = due \ {"rule"}
    /\ UNCHANGED <<mode, phase, now, log, rows>>

EvaluateOpsHot == Evaluate("ops", OpsHot) /\ UNCHANGED late

EvaluateFinopsNew ==
    /\ Evaluate("finops", FinopsNew)
    /\ late' = late \cup Pending

\* The horizon is reached.
Over == now = Horizon /\ due = {} /\ UNCHANGED vars

Next ==
    \/ Clock
    \/ TimerFires
    \/ TimerMissed
    \/ BeginOffSchedule
    \/ \E t \in Ticks, x \in Outcomes : EndRun(t, x)
    \/ \E t \in Ticks : Arrive(t)
    \/ EvaluateOpsHot
    \/ EvaluateFinopsNew
    \/ Over

Spec == Init /\ [][Next]_vars
-----------------------------------------------------------------------------
(* Properties.                                                             *)

OnSchedule == \A t \in Ticks : log[t] # "none" => t % Period = 0

\* Hot in SustainedRuns runs, one scheduled after the other, up to run n.
HotUpTo(n) ==
    \A i \in 0..(SustainedRuns - 1) :
        i * Period <= n /\ log[n - i * Period] = "found"

\* The ops alert is on exactly if the pair stayed hot.  While no run starts off
\* schedule, an alert means SustainedRuns consecutive runs that found the pair
\* hot - a run in between that did not, or that failed, or did not start, is
\* noticed although it leaves no row, and a repeated upload does not count
\* twice - and that the alert outlives a run that found the pair cool by less
\* than Grace.  And the alert neither waits nor flaps: it is on at every
\* evaluation at which the newest run whose rows are there, and the
\* SustainedRuns - 1 before it, found the pair hot, whatever happened before
\* them, until a next run should have answered Grace ago.
OpsAlert ==
    [][mode = "ops" /\ "rule" \in due \ due' =>
          /\ told' /\ OnSchedule =>
                \E n \in 0..now :
                    /\ HotUpTo(n)
                    /\ \A c \in (n + 1)..now :
                           log[c] = "clean" => now - c < Grace
          /\ (\E n \in 0..now :
                  /\ now - n < Period + Grace
                  /\ \A c \in (n + 1)..now : rows[c] = 0
                  /\ \A i \in 0..(SustainedRuns - 1) :
                         i * Period <= n /\ rows[n - i * Period] > 0)
             => told']_vars

FoundBefore(t) == t >= Period /\ log[t - Period] \in Sent

\* New savings are told once.  While no run starts off schedule, the evaluation
\* after a run tells of what this run found and the run before did not; it
\* misses it only if the rows of the run were not there yet (and the next
\* evaluation will not make up for it), and tells of it again only if those of
\* the run before came too late to be told of.
NewsTold ==
    [][mode = "finops" /\ "rule" \in due \ due' /\ OnSchedule =>
          LET run == now - phase
          IN  /\ told' =>
                    /\ log[run] = "found"
                    /\ FoundBefore(run) => run - Period \in late
              /\ log[run] = "found" /\ run \notin late' /\ ~FoundBefore(run)
                    => told']_vars
=============================================================================
