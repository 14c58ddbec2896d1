------------------------------- MODULE Ncrontab -------------------------------
(***************************************************************************)
(* ncrontab_to_oncalendar: the schedule of a mode, written for the         *)
(* Functions timer, as the calendar of a systemd timer.  A weekday is its  *)
(* number, Sunday 0, on both sides.                                        *)
(***************************************************************************)
EXTENDS Integers, Sequences

CONSTANTS
    Schedules,  \* sequences of fields, a field is a sequence of parts
    None        \* no step

\* A word of a field: a number, a month's or a weekday's place in the list of
\* their names, or anything else.
Tokens == [is : {"number", "month", "weekday", "other"}, n : Nat]

\* A step that is no positive number is 0.
Parts == [base : {"star", "one", "range"}, from : Tokens, to : Tokens,
          step : Nat \cup {None}]

ASSUME SchedulesAssumption ==
    /\ \A s \in Schedules : s \in Seq(Seq(Parts) \ {<<>>})
    /\ None \notin Nat

\* _FIELDS
Names == <<"second", "minute", "hour", "day", "month", "weekday">>
Day     == 4
Weekday == 6

Lowest(f) == IF f \in {"day", "month"} THEN 1 ELSE 0
Highest(f) == CASE f \in {"second", "minute"} -> 59
                [] f = "hour"    -> 23
                [] f = "day"     -> 31
                [] f = "month"   -> 12
                [] f = "weekday" -> 6
All(f) == Lowest(f)..Highest(f)

VARIABLES
    schedule,
    sets,      \* of the fields expanded so far, in the order of Names
    calendar,  \* for each field the values it lists, {} for `*`
    outcome

conversion == <<schedule, sets, calendar, outcome>>

ConversionInit ==
    /\ schedule \in Schedules
    /\ sets = <<>>
    /\ calendar = <<>>
    /\ outcome = "converting"
-----------------------------------------------------------------------------
\* What a word out of place is worth: less than every value.
NoValue == -1

\* _value, but for its range check
Value(token, f) ==
    CASE token.is = "number"              -> IF f = "weekday" /\ token.n = 7
                                             THEN 0 ELSE token.n
      [] token.is = f /\ f = "month"      -> token.n + 1
      [] token.is = f /\ f = "weekday"    -> token.n
      [] token.is \notin {"number", f}    -> NoValue

Start(part, f) == IF part.base = "star" THEN Lowest(f) ELSE Value(part.from, f)

\* `a/n` goes on to the greatest value.
End(part, f) ==
    CASE part.base = "range"                    -> Value(part.to, f)
      [] part.base = "one" /\ part.step = None  -> Value(part.from, f)
      [] part.base = "one" /\ part.step # None  -> Highest(f)
      [] part.base = "star"                     -> Highest(f)

Step(part) == IF part.step = None THEN 1 ELSE part.step

\* The parts _expand raises an error for.
Bad(part, f) ==
    \/ Step(part) < 1
    \/ Start(part, f) \notin All(f)
    \/ End(part, f) \notin All(f)
    \/ Start(part, f) > End(part, f)

\* _expand
Expand(field, f) ==
    UNION {{v \in Start(field[p], f)..End(field[p], f) :
                (v - Start(field[p], f)) % Step(field[p]) = 0} :
           p \in DOMAIN field}
-----------------------------------------------------------------------------
Reject ==
    /\ outcome' = "rejected"
    /\ UNCHANGED <<schedule, sets, calendar>>

WrongLength ==
    /\ outcome = "converting"
    /\ Len(schedule) # Len(Names)
    /\ Reject

\* The turn of field i.
At(i) ==
    /\ outcome = "converting"
    /\ Len(schedule) = Len(Names)
    /\ i = Len(sets) + 1

BadField(i) ==
    /\ At(i)
    /\ \E p \in DOMAIN schedule[i] : Bad(schedule[i][p], Names[i])
    /\ Reject

ExpandField(i) ==
    /\ At(i)
    /\ \A p \in DOMAIN schedule[i] : ~Bad(schedule[i][p], Names[i])
    /\ sets' = Append(sets, Expand(schedule[i], Names[i]))
    /\ UNCHANGED <<schedule, calendar, outcome>>

Full(i) == sets[i] = All(Names[i])

\* Mutant: a restricted day and a restricted weekday, as they come.
Restricted_Never == FALSE

\* systemd wants both, cron one of them.
Restricted == ~Full(Day) /\ ~Full(Weekday)

BothRestricted ==
    /\ At(Len(Names) + 1)
    /\ Restricted
    /\ Reject

Write ==
    /\ At(Len(Names) + 1)
    /\ ~Restricted
    /\ calendar' = [i \in DOMAIN Names |-> IF Full(i) THEN {} ELSE sets[i]]
    /\ outcome' = "written"
    /\ UNCHANGED <<schedule, sets>>

ConversionNext ==
    \/ WrongLength
    \/ \E i \in DOMAIN Names : BadField(i) \/ ExpandField(i)
    \/ BothRestricted
    \/ Write

Conversion == ConversionInit /\ [][ConversionNext]_conversion
-----------------------------------------------------------------------------
(* The timers.                                                             *)

\* systemd: a moment fits if each of its parts does.
OnCalendar(i, v) == calendar[i] = {} \/ v \in calendar[i]

\* cron: a word in its place, and the value it names.  7 is Sunday, too.
Allowed(token, f) ==
    CASE token.is = "number"          -> token.n \in All(f)
                                         \/ (f = "weekday" /\ token.n = 7)
      [] token.is = f                 -> token.n + Lowest(f) \in All(f)
      [] token.is \notin {"number", f} -> FALSE

Named(token, f) ==
    CASE token.is = "number" -> IF f = "weekday" THEN token.n % 7 ELSE token.n
      [] token.is # "number" -> token.n + Lowest(f)

WellFormed(part, f) ==
    /\ part.step # 0
    /\ part.base # "star" => Allowed(part.from, f)
    /\ part.base = "range" => /\ Allowed(part.to, f)
                              /\ Named(part.from, f) <= Named(part.to, f)

\* Of the values a part spans, every step-th one.
Fits(part, f, v) ==
    LET first == IF part.base = "star" THEN Lowest(f) ELSE Named(part.from, f)
    IN  /\ part.base = "range" => v <= Named(part.to, f)
        /\ part.base = "one" /\ part.step = None => v = first
        /\ IF part.step = None THEN v >= first
           ELSE \E k \in 0..v : v = first + (k * part.step)

FitsField(i, v) ==
    \E p \in DOMAIN schedule[i] : Fits(schedule[i][p], Names[i], v)

Limits(i) == \E v \in All(Names[i]) : ~FitsField(i, v)

\* A date fits if its day and its weekday do, or, where the schedule limits
\* both, one of them.
FitsDate(d, w) ==
    IF Limits(Day) /\ Limits(Weekday)
    THEN FitsField(Day, d) \/ FitsField(Weekday, w)
    ELSE FitsField(Day, d) /\ FitsField(Weekday, w)

\* Not settled: a 7 that begins or ends more than one day.
OpenSunday(part) ==
    /\ part.base = "range" \/ (part.base = "one" /\ part.step # None)
    /\ 7 \in {part.from.n, part.to.n}

\* The systemd timer of a schedule fires at the moments the schedule names and
\* at no other: the calendar that is written fits a moment exactly if cron's
\* reading of the six fields does.  A schedule is rejected exactly if a field
\* is malformed, there are not six, or one calendar cannot say it.
SameTimes ==
    LET sixFields == Len(schedule) = 6
        settled   == sixFields => \A p \in DOMAIN schedule[Weekday] :
                                      ~OpenSunday(schedule[Weekday][p])
        clean     == \A i \in 1..6 : \A p \in DOMAIN schedule[i] :
                         WellFormed(schedule[i][p], Names[i])
    IN  /\ settled /\ outcome = "written" =>
               /\ \A i \in 1..6 \ {Day, Weekday} : \A v \in All(Names[i]) :
                      OnCalendar(i, v) <=> FitsField(i, v)
               /\ \A d \in All("day"), w \in All("weekday") :
                      OnCalendar(Day, d) /\ OnCalendar(Weekday, w)
                          <=> FitsDate(d, w)
        /\ settled /\ outcome # "converting" =>
               (outcome = "rejected"
                    <=> \/ ~sixFields
                        \/ ~clean
                        \/ Limits(Day) /\ Limits(Weekday))
=============================================================================
