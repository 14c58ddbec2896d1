---------------------------- MODULE Timing_proofs ----------------------------
(***************************************************************************)
(* When a timer fires, and what is told of the runs it starts, for any     *)
(* schedules, period, number of sustained runs, grace, window sizes, time  *)
(* limit and length of the history.                                        *)
(*                                                                         *)
(* First Ncrontab: what is written from a schedule is what the schedule    *)
(* says.  A field is taken apart: a part is expanded to what fits it       *)
(* (PartIs), so a field is to what fits one of its parts (ExpandIs), and   *)
(* Converted keeps this for the fields done so far.                        *)
(*                                                                         *)
(* Then Alerts: the rules read rows, the properties speak of runs.         *)
(* Between the two stands Ordered: a row is of a run that found something  *)
(* and started in the past; and for the finops rule Missed: what an        *)
(* evaluation could have told and did not is in late.                      *)
(***************************************************************************)
EXTENDS Alerts, Ncrontab, FiniteSetTheorems, SequenceTheorems,
        WellFoundedInduction, TLAPS

-----------------------------------------------------------------------------
(* Ncrontab: one part of a field.                                          *)

\* The names of the six fields.
Fields == {"second", "minute", "hour", "day", "month", "weekday"}

\* A value lies a whole number of steps above the first one exactly if the
\* remainder says so.
LEMMA Stepwise ==
    ASSUME NEW a \in Nat, NEW v \in Nat, a <= v, NEW s \in Nat \ {0}
    PROVE  (v - a) % s = 0 <=> \E k \in 0..v : v = a + (k * s)
<1> DEFINE d == v - a
           q == d \div s
<1>1. d \in Nat
  OBVIOUS
<1>2. q \in Nat /\ d = (s * q) + (d % s) /\ d % s \in 0..(s - 1)
  BY <1>1
<1>3. ASSUME d % s = 0 PROVE \E k \in 0..v : v = a + (k * s)
  <2>1. v = a + (q * s)
    BY <1>2, <1>3
  <2>2. q <= s * q
    BY <1>2
  <2>3. q \in 0..v
    BY <1>2, <1>3, <2>2
  <2> QED
    BY <2>1, <2>3
<1>4. ASSUME NEW k \in 0..v, v = a + (k * s) PROVE d % s = 0
  <2>1. k \in Nat /\ d = s * k
    BY <1>4
  <2>2. s * (k - q) = d % s
    BY <1>2, <2>1
  <2>3. k - q >= 1 => s * (k - q) >= s
    BY <1>2, <2>1
  <2>4. k - q <= -1 => s * (k - q) <= -s
    BY <1>2, <2>1
  <2>5. k = q
    BY <1>2, <2>1, <2>2, <2>3, <2>4
  <2> QED
    BY <1>2, <2>2, <2>5
<1> QED
  BY <1>3, <1>4

\* What the values of a field lie between.
LEMMA FieldRange ==
    ASSUME NEW f \in Fields
    PROVE  /\ Lowest(f) \in {0, 1} /\ Highest(f) \in Nat
           /\ Lowest(f) < Highest(f)
           /\ f = "weekday" => Highest(f) = 6
           /\ f = "month" <=> Highest(f) = 12
           /\ (f = "month" => Lowest(f) = 1) /\ (f = "weekday" => Lowest(f) = 0)
  BY DEF Fields, Lowest, Highest

\* A word names a value of the field exactly if cron allows it there, and then
\* it names the same one; a number 7 for a weekday is looked at on its own.
LEMMA WordValue ==
    ASSUME NEW f \in Fields, NEW token \in Tokens
    PROVE  /\ Value(token, f) \in Int
           /\ Value(token, f) \in All(f) <=> Allowed(token, f)
           /\ Allowed(token, f) => Value(token, f) = Named(token, f)
<1>1. /\ Lowest(f) \in {0, 1} /\ Highest(f) \in Nat /\ Lowest(f) < Highest(f)
      /\ f = "weekday" => Highest(f) = 6
      /\ f = "month" => Lowest(f) = 1
      /\ f = "weekday" => Lowest(f) = 0
  BY FieldRange
<1>2. token.n \in Nat /\ token.is \in {"number", "month", "weekday", "other"}
  BY DEF Tokens
<1>3. f # "number" /\ f # "other"
  BY DEF Fields
<1>4. CASE token.is = "number" /\ f = "weekday"
  <2>1. Value(token, f) = (IF token.n = 7 THEN 0 ELSE token.n)
    BY <1>4 DEF Value
  <2>2. Allowed(token, f) <=> token.n \in 0..6 \/ token.n = 7
    BY <1>4, <1>1, <1>2 DEF Allowed, All
  <2>3. Named(token, f) = token.n % 7
    BY <1>4 DEF Named
  <2>4. token.n \in 0..7 => token.n % 7 = IF token.n = 7 THEN 0 ELSE token.n
    BY <1>2
  <2> QED
    BY <1>1, <1>2, <1>4, <2>1, <2>2, <2>3, <2>4 DEF All
<1>5. CASE token.is = "number" /\ f # "weekday"
  <2>1. Value(token, f) = token.n
    BY <1>5 DEF Value
  <2>2. Allowed(token, f) <=> token.n \in All(f)
    BY <1>3, <1>5 DEF Allowed
  <2>3. Named(token, f) = token.n
    BY <1>5 DEF Named
  <2> QED
    BY <1>2, <2>1, <2>2, <2>3
<1>6. CASE token.is = f
  <2>1. Value(token, f) = token.n + Lowest(f)
    BY <1>1, <1>2, <1>3, <1>6 DEF Value
  <2> QED
    BY <1>1, <1>2, <1>3, <1>6, <2>1 DEF Allowed, Named, All
<1>7. CASE token.is \notin {"number", f}
  <2>1. Value(token, f) = -1
    BY <1>7 DEF Value, NoValue
  <2>2. ~Allowed(token, f)
    BY <1>7 DEF Allowed
  <2> QED
    BY <1>1, <2>1, <2>2 DEF All
<1> QED
  BY <1>4, <1>5, <1>6, <1>7

\* The schedules the code and cron agree on: 7 ends no longer range.
Settled(part, f) == f = "weekday" => ~OpenSunday(part)

\* A part is turned down exactly if it is malformed; a good one spans at least
\* its first value, and of the field's values those that fit it.
LEMMA PartIs ==
    ASSUME NEW f \in Fields, NEW part \in Parts, Settled(part, f)
    PROVE  /\ Bad(part, f) <=> ~WellFormed(part, f)
           /\ ~Bad(part, f) =>
                 /\ Start(part, f) \in All(f) /\ End(part, f) \in All(f)
                 /\ Start(part, f) <= End(part, f)
                 /\ Step(part) \in Nat \ {0}
                 /\ \A v \in All(f) :
                       Fits(part, f, v) <=>
                          /\ v \in Start(part, f)..End(part, f)
                          /\ (v - Start(part, f)) % Step(part) = 0
<1>1. /\ part.base \in {"star", "one", "range"}
      /\ part.from \in Tokens /\ part.to \in Tokens
      /\ part.step \in Nat \cup {None}
  BY DEF Parts
<1>2. None \notin Nat
  BY SchedulesAssumption
<1>3. /\ Lowest(f) \in {0, 1} /\ Highest(f) \in Nat /\ Lowest(f) < Highest(f)
  BY FieldRange
<1> DEFINE from == Value(part.from, f)
           to == Value(part.to, f)
<1>4. /\ from \in Int /\ (from \in All(f) <=> Allowed(part.from, f))
      /\ Allowed(part.from, f) => from = Named(part.from, f)
      /\ to \in Int /\ (to \in All(f) <=> Allowed(part.to, f))
      /\ Allowed(part.to, f) => to = Named(part.to, f)
  BY <1>1, WordValue
<1> HIDE DEF from, to
<1>5. Step(part) \in Nat /\ (Step(part) < 1 <=> part.step = 0)
  BY <1>1, <1>2 DEF Step
<1>6. /\ Start(part, f) = IF part.base = "star" THEN Lowest(f) ELSE from
      /\ part.base = "star" => End(part, f) = Highest(f)
      /\ part.base = "range" => End(part, f) = to
      /\ part.base = "one" =>
            End(part, f) = IF part.step = None THEN from ELSE Highest(f)
  BY <1>1 DEF Start, End, from, to
<1>7. Bad(part, f) <=> ~WellFormed(part, f)
  BY <1>1, <1>2, <1>3, <1>4, <1>5, <1>6 DEF Bad, WellFormed, All
<1>8. ASSUME ~Bad(part, f)
      PROVE  /\ Start(part, f) \in All(f) /\ End(part, f) \in All(f)
             /\ Start(part, f) <= End(part, f)
             /\ Step(part) \in Nat \ {0}
  BY <1>3, <1>4, <1>5, <1>6, <1>8 DEF Bad, All
<1>9. ASSUME ~Bad(part, f), NEW v \in All(f)
      PROVE  Fits(part, f, v) <=>
                /\ v \in Start(part, f)..End(part, f)
                /\ (v - Start(part, f)) % Step(part) = 0
  <2> DEFINE first == IF part.base = "star" THEN Lowest(f)
                      ELSE Named(part.from, f)
             Upper == /\ part.base = "range" => v <= Named(part.to, f)
                      /\ part.base = "one" /\ part.step = None => v = first
             Spaced == \E k \in 0..v : v = first + (k * part.step)
  <2>1. Fits(part, f, v) <=> /\ Upper
                             /\ IF part.step = None THEN v >= first ELSE Spaced
    BY DEF Fits
  <2>2. first = Start(part, f) /\ first \in Nat
    BY <1>1, <1>3, <1>4, <1>6, <1>7, <1>8, <1>9 DEF WellFormed, All
  <2>3. v \in Nat /\ v <= Highest(f)
    BY <1>3 DEF All
  <2>4. Upper /\ v >= first <=> v \in Start(part, f)..End(part, f)
    BY <1>1, <1>3, <1>4, <1>6, <1>7, <1>8, <1>9, <2>2, <2>3 DEF WellFormed, All
  <2>5. CASE part.step = None
    <3>1. Step(part) = 1 /\ (v - first) % 1 = 0
      BY <2>2, <2>3, <2>5 DEF Step
    <3> QED
      BY <2>1, <2>2, <2>4, <2>5, <3>1
  <2>6. CASE part.step # None
    <3>1. part.step \in Nat \ {0} /\ Step(part) = part.step
      BY <1>1, <1>8, <1>9, <2>6 DEF Step
    <3>2. ASSUME Spaced PROVE v >= first
      <4>1. PICK k \in 0..v : v = first + (k * part.step)
        BY <3>2
      <4>2. k * part.step >= 0
        BY <3>1
      <4> QED
        BY <2>2, <2>3, <3>1, <4>1, <4>2
    <3>3. v >= first => (Spaced <=> (v - first) % part.step = 0)
      <4> HIDE DEF first
      <4>1. SUFFICES ASSUME first <= v
                     PROVE  Spaced <=> (v - first) % part.step = 0
        BY <2>2, <2>3
      <4> QED
        BY <2>2, <2>3, <3>1, <4>1, Stepwise
    <3> HIDE DEF Spaced, Upper
    <3> QED
      BY <2>1, <2>2, <2>4, <2>6, <3>1, <3>2, <3>3
  <2> QED
    BY <2>5, <2>6
<1> QED
  BY <1>7, <1>8, <1>9

-----------------------------------------------------------------------------
(* The six fields.                                                         *)

\* Six fields, of which the day and the weekday are two.
LEMMA SixNames ==
    /\ Len(Names) = 6 /\ DOMAIN Names = 1..6
    /\ \A i \in 1..6 : Names[i] \in Fields
    /\ \A i \in 1..6 : Names[i] = "weekday" <=> i = Weekday
    /\ Names[Day] = "day" /\ Names[Weekday] = "weekday"
    /\ Day \in 1..6 /\ Weekday \in 1..6 /\ Day # Weekday
  BY DEF Names, Fields, Day, Weekday

\* What a schedule is made of.
LEMMA FieldsOf ==
    ASSUME schedule \in Schedules
    PROVE  /\ Len(schedule) \in Nat /\ DOMAIN schedule = 1..Len(schedule)
           /\ \A i \in 1..Len(schedule) :
                 /\ DOMAIN schedule[i] # {}
                 /\ \A p \in DOMAIN schedule[i] : schedule[i][p] \in Parts
<1>1. schedule \in Seq(Seq(Parts) \ {<<>>})
  BY SchedulesAssumption
<1>2. ASSUME NEW i \in 1..Len(schedule)
      PROVE  /\ DOMAIN schedule[i] # {}
             /\ \A p \in DOMAIN schedule[i] : schedule[i][p] \in Parts
  <2>1. schedule[i] \in Seq(Parts) /\ schedule[i] # <<>>
    BY <1>1
  <2>2. /\ Len(schedule[i]) \in Nat \ {0}
        /\ DOMAIN schedule[i] = 1..Len(schedule[i])
    BY <2>1, EmptySeq
  <2>3. 1 \in DOMAIN schedule[i]
    BY <2>2
  <2>4. \A p \in 1..Len(schedule[i]) : schedule[i][p] \in Parts
    BY <2>1
  <2> QED
    BY <2>2, <2>3, <2>4
<1> QED
  BY <1>1, <1>2

\* Field i is free of parts that are turned down.
Sound(i) == \A p \in DOMAIN schedule[i] : ~Bad(schedule[i][p], Names[i])

\* The weekdays of the schedule are such that 7 ends no longer range.
SettledField == \A p \in DOMAIN schedule[Weekday] :
                    ~OpenSunday(schedule[Weekday][p])

\* What the code expands a field to is what cron reads in it.
LEMMA ExpandIs ==
    ASSUME schedule \in Schedules, Len(schedule) = 6, SettledField,
           NEW i \in 1..6
    PROVE  /\ Sound(i) <=>
                 \A p \in DOMAIN schedule[i] :
                     WellFormed(schedule[i][p], Names[i])
           /\ Sound(i) =>
                 /\ Expand(schedule[i], Names[i]) \subseteq All(Names[i])
                 /\ Expand(schedule[i], Names[i]) # {}
                 /\ \A v \in All(Names[i]) :
                       v \in Expand(schedule[i], Names[i]) <=> FitsField(i, v)
<1> DEFINE f == Names[i]
<1>1. f \in Fields /\ (f = "weekday" <=> i = Weekday)
  BY SixNames
<1>2. /\ DOMAIN schedule[i] # {}
      /\ \A p \in DOMAIN schedule[i] : schedule[i][p] \in Parts
  BY FieldsOf
<1>3. ASSUME NEW p \in DOMAIN schedule[i]
      PROVE  schedule[i][p] \in Parts /\ Settled(schedule[i][p], f)
  BY <1>1, <1>2 DEF Settled, SettledField
<1> HIDE DEF f
<1>4. Sound(i) <=> \A p \in DOMAIN schedule[i] : WellFormed(schedule[i][p], f)
  BY <1>1, <1>3, PartIs DEF Sound, f
<1>5. ASSUME Sound(i)
      PROVE  /\ Expand(schedule[i], f) \subseteq All(f)
             /\ Expand(schedule[i], f) # {}
             /\ \A v \in All(f) :
                   v \in Expand(schedule[i], f) <=> FitsField(i, v)
  <2> DEFINE From(p) == Start(schedule[i][p], f)
             To(p)   == End(schedule[i][p], f)
             Hit(p, v) == /\ v \in From(p)..To(p)
                          /\ (v - From(p)) % Step(schedule[i][p]) = 0
  <2>1. ASSUME NEW p \in DOMAIN schedule[i]
        PROVE  /\ From(p) \in All(f) /\ To(p) \in All(f) /\ From(p) <= To(p)
               /\ Step(schedule[i][p]) \in Nat \ {0}
               /\ \A v \in All(f) : Fits(schedule[i][p], f, v) <=> Hit(p, v)
    BY <1>1, <1>3, <1>5, PartIs DEF Sound, f
  <2>2. \A v : v \in Expand(schedule[i], f)
                    <=> \E p \in DOMAIN schedule[i] : Hit(p, v)
    BY DEF Expand
  <2>3. Lowest(f) \in Nat /\ Highest(f) \in Nat
    BY <1>1, FieldRange
  <2>4. ASSUME NEW p \in DOMAIN schedule[i], NEW v, Hit(p, v)
        PROVE  v \in All(f)
    <3>1. From(p) \in All(f) /\ To(p) \in All(f)
      BY <2>1
    <3> QED
      BY <2>3, <2>4, <3>1 DEF All
  <2>5. \E p \in DOMAIN schedule[i] : Hit(p, From(p))
    <3>1. PICK p \in DOMAIN schedule[i] : TRUE
      BY <1>2
    <3>2. /\ From(p) \in All(f) /\ To(p) \in All(f) /\ From(p) <= To(p)
          /\ Step(schedule[i][p]) \in Nat \ {0}
      BY <2>1
    <3>3. From(p) \in Int /\ To(p) \in Int
      BY <2>3, <3>2 DEF All
    <3> HIDE DEF From, To
    <3>4. From(p) \in From(p)..To(p) /\ From(p) - From(p) = 0
      BY <3>2, <3>3
    <3>5. (From(p) - From(p)) % Step(schedule[i][p]) = 0
      BY <3>2, <3>4
    <3> QED
      BY <3>4, <3>5
  <2>6. \A v \in All(f) :
            FitsField(i, v) <=> \E p \in DOMAIN schedule[i] : Hit(p, v)
    BY <2>1 DEF FitsField, f
  <2> HIDE DEF Hit, From, To
  <2> QED
    BY <2>2, <2>4, <2>5, <2>6
<1> QED
  BY <1>4, <1>5 DEF f

\* How far the conversion has come, and why it stopped.
Converted ==
    /\ schedule \in Schedules
    /\ outcome \in {"converting", "rejected", "written"}
    /\ Len(sets) \in 0..6 /\ DOMAIN sets = 1..Len(sets)
    /\ Len(sets) > 0 => Len(schedule) = 6
    /\ \A i \in 1..Len(sets) :
          Sound(i) /\ sets[i] = Expand(schedule[i], Names[i])
    /\ outcome = "rejected" =>
          \/ Len(schedule) # 6
          \/ \E i \in 1..6 : ~Sound(i)
          \/ Len(sets) = 6 /\ Restricted
    /\ outcome = "written" =>
          /\ Len(sets) = 6 /\ ~Restricted
          /\ calendar = [i \in 1..6 |-> IF Full(i) THEN {} ELSE sets[i]]

\* Converted holds at first, and every step keeps it.
LEMMA ConvertedInit == ConversionInit => Converted
  BY DEF ConversionInit, Converted

\* Each field that is converted says what its field of the schedule says.
LEMMA ConvertedNext ==
    Converted /\ [ConversionNext]_conversion => Converted'
<1> SUFFICES ASSUME Converted, [ConversionNext]_conversion
             PROVE  Converted'
  OBVIOUS
<1> USE DEF Converted
<1>0. Len(Names) = 6 /\ DOMAIN Names = 1..6
  BY SixNames
<1>1. CASE WrongLength
  BY <1>0, <1>1 DEF WrongLength, Reject, Sound, Restricted, Full
<1>2. ASSUME NEW i \in 1..6, BadField(i) PROVE Converted'
  BY <1>0, <1>2 DEF BadField, At, Reject, Sound, Restricted, Full
<1>3. ASSUME NEW i \in 1..6, ExpandField(i) PROVE Converted'
  <2>1. /\ UNCHANGED <<schedule, calendar, outcome>>
        /\ outcome = "converting" /\ Len(schedule) = 6
        /\ i = Len(sets) + 1 /\ Sound(i)
        /\ sets' = Append(sets, Expand(schedule[i], Names[i]))
    BY <1>0, <1>3 DEF ExpandField, At, Sound
  <2>2. /\ Len(sets') = i /\ DOMAIN sets' = 1..i
        /\ \A j \in 1..Len(sets) : sets'[j] = sets[j]
        /\ sets'[i] = Expand(schedule[i], Names[i])
    BY <2>1
  <2> QED
    BY <2>1, <2>2 DEF Sound
<1>4. CASE BothRestricted
  BY <1>0, <1>4 DEF BothRestricted, At, Reject, Sound, Restricted, Full
<1>5. CASE Write
  BY <1>0, <1>5 DEF Write, At, Sound, Restricted, Full
<1>6. CASE UNCHANGED conversion
  BY <1>6 DEF conversion, Sound, Restricted, Full
<1> QED
  BY <1>0, <1>1, <1>2, <1>3, <1>4, <1>5, <1>6 DEF ConversionNext

\* A conversion that has come that far is right.
LEMMA ConvertedRight == Converted => SameTimes
<1> SUFFICES ASSUME Converted PROVE SameTimes
  OBVIOUS
<1> DEFINE settled == Len(schedule) = 6 => SettledField
           clean == \A i \in 1..6 : \A p \in DOMAIN schedule[i] :
                        WellFormed(schedule[i][p], Names[i])
<1>1. ASSUME settled, Len(schedule) = 6, NEW i \in 1..6
      PROVE  /\ Sound(i) <=>
                   \A p \in DOMAIN schedule[i] :
                       WellFormed(schedule[i][p], Names[i])
             /\ Sound(i) =>
                   /\ Expand(schedule[i], Names[i]) \subseteq All(Names[i])
                   /\ Expand(schedule[i], Names[i]) # {}
                   /\ \A v \in All(Names[i]) :
                         v \in Expand(schedule[i], Names[i])
                             <=> FitsField(i, v)
  BY <1>1, ExpandIs DEF Converted
<1>2. settled /\ Len(schedule) = 6 => (clean <=> \A i \in 1..6 : Sound(i))
  BY <1>1
\* A field written or shown restricted is read as cron reads it.
<1>3. ASSUME settled, Len(sets) = 6, NEW i \in 1..6
      PROVE  /\ sets[i] # {} /\ sets[i] \subseteq All(Names[i])
             /\ \A v \in All(Names[i]) : v \in sets[i] <=> FitsField(i, v)
             /\ Full(i) <=> ~Limits(i)
  <2>1. /\ Len(schedule) = 6 /\ Sound(i)
        /\ sets[i] = Expand(schedule[i], Names[i])
    BY <1>3 DEF Converted
  <2>2. /\ sets[i] # {} /\ sets[i] \subseteq All(Names[i])
        /\ \A v \in All(Names[i]) : v \in sets[i] <=> FitsField(i, v)
    BY <1>1, <1>3, <2>1
  <2> QED
    BY <2>2 DEF Full, Limits
<1>4. Names[Day] = "day" /\ Names[Weekday] = "weekday"
      /\ Day \in 1..6 /\ Weekday \in 1..6
  BY SixNames
<1>5. ASSUME settled, Len(sets) = 6
      PROVE  Restricted <=> Limits(Day) /\ Limits(Weekday)
  BY <1>3, <1>4, <1>5 DEF Restricted
<1>6. ASSUME settled, outcome = "written"
      PROVE  /\ \A i \in 1..6 \ {Day, Weekday} : \A v \in All(Names[i]) :
                    OnCalendar(i, v) <=> FitsField(i, v)
             /\ \A d \in All("day"), w \in All("weekday") :
                    OnCalendar(Day, d) /\ OnCalendar(Weekday, w)
                        <=> FitsDate(d, w)
  <2>1. /\ Len(sets) = 6 /\ ~Restricted
        /\ calendar = [i \in 1..6 |-> IF Full(i) THEN {} ELSE sets[i]]
    BY <1>6 DEF Converted
  <2>2. \A i \in 1..6 : \A v \in All(Names[i]) :
            OnCalendar(i, v) <=> FitsField(i, v)
    BY <1>3, <1>6, <2>1 DEF OnCalendar, Full
  <2>3. ~(Limits(Day) /\ Limits(Weekday))
    BY <1>5, <1>6, <2>1
  <2> QED
    BY <1>4, <2>2, <2>3 DEF FitsDate
<1>7. ASSUME settled, outcome # "converting"
      PROVE  outcome = "rejected"
                 <=> \/ ~(Len(schedule) = 6)
                     \/ ~clean
                     \/ Limits(Day) /\ Limits(Weekday)
  <2>1. CASE outcome = "rejected"
    BY <1>2, <1>5, <1>7, <2>1 DEF Converted
  <2>2. CASE outcome = "written"
    <3>1. Len(sets) = 6 /\ Len(schedule) = 6 /\ ~Restricted
      BY <2>2 DEF Converted
    <3>2. \A i \in 1..6 : Sound(i)
      BY <3>1 DEF Converted
    <3> QED
      BY <1>2, <1>5, <1>7, <2>2, <3>1, <3>2
  <2> QED
    BY <1>7, <2>1, <2>2 DEF Converted
<1> QED
  BY <1>6, <1>7 DEF SameTimes, SettledField

\* For every set of schedules, whatever their fields: the calendar written from
\* one fires at the moments cron's reading names and at no other, and exactly
\* those that are malformed or that one calendar cannot say are turned down.
THEOREM CalendarSaysSame == Conversion => []SameTimes
<1>1. Conversion => []Converted
  BY ConvertedInit, ConvertedNext, PTL DEF Conversion
<1> QED
  BY <1>1, ConvertedRight, PTL
-----------------------------------------------------------------------------
(* Alerts.                                                                 *)

\* A multiple of the period is a number of periods.
LEMMA Multiple ==
    ASSUME NEW t \in Nat, t % Period = 0
    PROVE  \E k \in Nat : t = k * Period
<1>1. t \div Period \in Nat /\ t = Period * (t \div Period) + (t % Period)
  BY TimesAssumption
<1>2. t = (t \div Period) * Period
  BY <1>1, TimesAssumption
<1> QED
  BY <1>1, <1>2

\* Two different ticks of the same phase are a period apart.
LEMMA Apart ==
    ASSUME NEW a \in Nat, NEW b \in Nat, a % Period = b % Period, a < b
    PROVE  a + Period <= b
<1> DEFINE k == a \div Period
           l == b \div Period
           r == a % Period
<1>1. k \in Nat /\ r \in Nat /\ a = (Period * k) + r
  BY TimesAssumption
<1>2. l \in Nat /\ b = (Period * l) + r
  BY TimesAssumption
<1> HIDE DEF k, l, r
<1>3. l > k
  BY <1>1, <1>2, TimesAssumption
<1>4. l >= k + 1
  BY <1>1, <1>2, <1>3
<1>5. Period * l >= Period * (k + 1)
  BY <1>1, <1>2, <1>4, TimesAssumption
<1>6. Period * (k + 1) = (Period * k) + Period
  BY <1>1, TimesAssumption
<1>7. Period * k \in Nat /\ Period * l \in Nat
  BY <1>1, <1>2, TimesAssumption
<1> QED
  BY <1>1, <1>2, <1>5, <1>6, <1>7, TimesAssumption
-----------------------------------------------------------------------------
(* Types and history.                                                      *)

\* What a tick makes due is the timer, the rule, or both.
LEMMA DueType ==
    ASSUME NEW t, NEW p
    PROVE  Due(t, p) \subseteq {"timer", "rule"}
  BY DEF Due

\* The initial state is well typed.
LEMMA TypeInit == Init => TypeOK
<1> SUFFICES ASSUME Init PROVE TypeOK
  OBVIOUS
<1>1. due \subseteq {"timer", "rule"}
  BY DueType DEF Init
<1>2. now \in Ticks
  BY TimesAssumption DEF Init, Ticks
<1>3. log \in [Ticks -> Status] /\ rows \in [Ticks -> 0..2]
  BY DEF Init, Status
<1> QED
  BY <1>1, <1>2, <1>3 DEF Init, TypeOK

\* Every step keeps the types.
LEMMA TypeNext ==
    ASSUME TypeOK, [Next]_vars
    PROVE  TypeOK'
<1>1. CASE Clock
  BY <1>1, DueType, TimesAssumption DEF Clock, TypeOK, Ticks
<1>2. CASE TimerFires
  BY <1>2 DEF TimerFires, Begin, TypeOK, Status
<1>3. CASE TimerMissed
  BY <1>3 DEF TimerMissed, TypeOK
<1>4. CASE BeginOffSchedule
  BY <1>4 DEF BeginOffSchedule, Begin, TypeOK, Status
<1>5. ASSUME NEW t \in Ticks, NEW x \in Outcomes, EndRun(t, x)
      PROVE  TypeOK'
  <2>1. x \in Status
    BY DEF Outcomes, Status
  <2> QED
    BY <1>5, <2>1 DEF EndRun, TypeOK
<1>6. ASSUME NEW t \in Ticks, Arrive(t)
      PROVE  TypeOK'
  <2>1. rows[t] + 1 \in 0..2
    BY <1>6 DEF Arrive, TypeOK
  <2> QED
    BY <1>6, <2>1 DEF Arrive, TypeOK
<1>7. CASE EvaluateOpsHot
  <2>1. OpsHot \in BOOLEAN
    BY DEF OpsHot
  <2> QED
    BY <1>7, <2>1 DEF EvaluateOpsHot, Evaluate, TypeOK
<1>8. CASE EvaluateFinopsNew
  <2>1. FinopsNew \in BOOLEAN
    BY DEF FinopsNew
  <2> QED
    BY <1>8, <2>1 DEF EvaluateFinopsNew, Evaluate, TypeOK, Pending
<1>9. CASE UNCHANGED vars
  BY <1>9 DEF vars, TypeOK
<1> QED
  BY <1>1, <1>2, <1>3, <1>4, <1>5, <1>6, <1>7, <1>8, <1>9 DEF Next, Over

\* Rules and runs stay well-typed whatever the schedule and the history.
THEOREM TypeCorrect == Spec => []TypeOK
  BY TypeInit, TypeNext, PTL DEF Spec

\* What is due is due at this tick, runs are of the past, and rows of runs that
\* found something; in the ops mode there is nothing to price.
Ordered ==
    /\ due \subseteq Due(now, phase)
    /\ \A t \in Ticks : log[t] # "none" => t <= now
    /\ \A t \in Ticks : rows[t] > 0 => log[t] \in Sent
    /\ mode = "ops" => \A t \in Ticks : log[t] # "unpriced"

\* A scheduled run whose rows an evaluation did not see is in late.
Missed ==
    mode = "finops" =>
        \A t \in Ticks :
            /\ t % Period = 0
            /\ log[t] \in Sent \cup {"running"}
            /\ rows[t] = 0
            /\ t + phase < now \/ (t + phase = now /\ "rule" \notin due)
            => t \in late

\* At first no run was started.
LEMMA OrderedInit == Init => Ordered
  BY TimesAssumption DEF Init, Ordered, Ticks

\* A run is started now, and its rows arrive after it sent them.
LEMMA OrderedNext ==
    ASSUME TypeOK, Ordered, [Next]_vars
    PROVE  Ordered'
<1> USE DEF Ordered, TypeOK
<1>0. Ticks \subseteq Nat /\ now \in Nat
  BY TimesAssumption DEF Ticks
<1>1. CASE Clock
  BY <1>0, <1>1 DEF Clock, Sent
<1>2. CASE TimerFires
  BY <1>0, <1>2 DEF TimerFires, Begin, Sent
<1>3. CASE TimerMissed
  BY <1>3 DEF TimerMissed, Sent
<1>4. CASE BeginOffSchedule
  BY <1>0, <1>4 DEF BeginOffSchedule, Begin, Sent
<1>5. ASSUME NEW t \in Ticks, NEW x \in Outcomes, EndRun(t, x)
      PROVE  Ordered'
  <2>1. /\ mode = "ops" => x # "unpriced"
        /\ log[t] = "running" /\ rows[t] = 0
    BY <1>5 DEF EndRun, Outcomes, Running, Sent
  <2> QED
    BY <1>5, <2>1 DEF EndRun, Sent
<1>6. ASSUME NEW t \in Ticks, Arrive(t)
      PROVE  Ordered'
  BY <1>6 DEF Arrive, Sent
<1>7. CASE EvaluateOpsHot
  BY <1>7 DEF EvaluateOpsHot, Evaluate, Sent
<1>8. CASE EvaluateFinopsNew
  BY <1>8 DEF EvaluateFinopsNew, Evaluate, Sent
<1>9. CASE UNCHANGED vars
  BY <1>9 DEF vars, Sent
<1> QED
  BY <1>1, <1>2, <1>3, <1>4, <1>5, <1>6, <1>7, <1>8, <1>9 DEF Next, Over

\* Only a rule takes itself off what is due.
LEMMA RuleStep ==
    ASSUME [Next]_vars, "rule" \in due \ due'
    PROVE  EvaluateOpsHot \/ EvaluateFinopsNew
<1>1. ~Clock
  BY DEF Clock
<1>2. ~TimerFires /\ ~TimerMissed
  BY DEF TimerFires, TimerMissed
<1>3. due' # due
  OBVIOUS
<1>4. ~BeginOffSchedule /\ ~UNCHANGED vars
  BY <1>3 DEF BeginOffSchedule, vars
<1>5. \A t \in Ticks, x \in Outcomes : ~EndRun(t, x)
  BY <1>3 DEF EndRun
<1>6. \A t \in Ticks : ~Arrive(t)
  BY <1>3 DEF Arrive
<1> QED
  BY <1>1, <1>2, <1>4, <1>5, <1>6 DEF Next, Over
-----------------------------------------------------------------------------
(* The finops rule.                                                        *)

\* An evaluation comes phase ticks after the timer.
LEMMA AtPhase ==
    ASSUME TypeOK, Ordered, "rule" \in due
    PROVE  now \in Nat /\ phase \in 1..(Period - 1) /\ now % Period = phase
  BY TimesAssumption DEF TypeOK, Ordered, Due, Ticks

\* Two ticks of one phase less than a period apart are the same.
LEMMA Same ==
    ASSUME NEW a \in Nat, NEW b \in Nat, a % Period = b % Period,
           a < b + Period, b < a + Period
    PROVE  a = b
<1>1. a < b => a + Period <= b
  BY Apart
<1>2. b < a => b + Period <= a
  BY Apart
<1> QED
  BY <1>1, <1>2, TimesAssumption

\* Whole periods are multiples of the period.
LEMMA Whole ==
    ASSUME NEW k \in Nat
    PROVE  Period * k \in Nat /\ (Period * k) % Period = 0
<1> DEFINE q == (Period * k) \div Period
           r == (Period * k) % Period
<1>1. Period * k \in Nat
  BY TimesAssumption
<1>2. q \in Int /\ r \in 0..(Period - 1) /\ Period * k = (Period * q) + r
  BY <1>1, TimesAssumption
<1> HIDE DEF q, r
<1>3. Period * (k - q) = (Period * k) - (Period * q)
  BY <1>2, TimesAssumption
<1>4. r = Period * (k - q)
  BY <1>1, <1>2, <1>3, TimesAssumption
<1>5. ~(k - q >= 1)
  <2> SUFFICES ASSUME k - q >= 1 PROVE FALSE
    OBVIOUS
  <2>1. Period * (k - q) >= Period
    BY <1>2, TimesAssumption
  <2> QED
    BY <1>2, <1>4, <2>1, TimesAssumption
<1>6. k - q <= 0
  BY <1>2, <1>5
<1>7. Period * (k - q) <= 0
  BY <1>2, <1>6, TimesAssumption
<1>8. r = 0
  BY <1>2, <1>4, <1>7
<1> QED
  BY <1>1, <1>8 DEF r

\* The multiples of the period are a period apart.
LEMMA NextMultiple ==
    ASSUME NEW t \in Nat, t % Period = 0
    PROVE  (t + Period) % Period = 0
<1> DEFINE k == t \div Period
<1>1. k \in Nat /\ t = Period * k
  BY TimesAssumption
<1> HIDE DEF k
<1>2. t + Period = Period * (k + 1)
  BY <1>1, TimesAssumption
<1>3. k + 1 \in Nat
  BY <1>1
<1> QED
  BY <1>2, <1>3, Whole

\* A period before a time of the timer is another one.
LEMMA MultipleBefore ==
    ASSUME NEW t \in Nat, t % Period = 0, t >= Period
    PROVE  (t - Period) % Period = 0
<1> DEFINE k == t \div Period
<1>1. k \in Nat /\ t = Period * k
  BY TimesAssumption
<1> HIDE DEF k
<1>2. k >= 1
  BY <1>1, TimesAssumption
<1>3. k - 1 \in Nat /\ t - Period = Period * (k - 1)
  BY <1>1, <1>2, TimesAssumption
<1> QED
  BY <1>3, Whole

\* p ticks after the timer is phase p.
LEMMA PhaseOf ==
    ASSUME NEW t \in Nat, t % Period = 0, NEW p \in 1..(Period - 1)
    PROVE  (t + p) % Period = p
<1> DEFINE k == t \div Period
           l == (t + p) \div Period
           r == (t + p) % Period
<1>1. k \in Nat /\ t = Period * k
  BY TimesAssumption
<1>2. l \in Nat /\ r \in 0..(Period - 1) /\ t + p = (Period * l) + r
  BY TimesAssumption
<1> HIDE DEF k, l, r
<1>3. ~(k < l)
  <2>1. SUFFICES ASSUME k + 1 <= l PROVE FALSE
    BY <1>1, <1>2
  <2>2. Period * (k + 1) <= Period * l
    BY <1>1, <1>2, <2>1, TimesAssumption
  <2>3. Period * (k + 1) = (Period * k) + Period
    BY <1>1, TimesAssumption
  <2> QED
    BY <1>1, <1>2, <2>2, <2>3, TimesAssumption
<1>4. ~(l < k)
  <2>1. SUFFICES ASSUME l + 1 <= k PROVE FALSE
    BY <1>1, <1>2
  <2>2. Period * (l + 1) <= Period * k
    BY <1>1, <1>2, <2>1, TimesAssumption
  <2>3. Period * (l + 1) = (Period * l) + Period
    BY <1>2, TimesAssumption
  <2> QED
    BY <1>1, <1>2, <2>2, <2>3, TimesAssumption
<1>5. k = l
  BY <1>1, <1>2, <1>3, <1>4
<1>6. r = p
  BY <1>1, <1>2, <1>5, TimesAssumption
<1> QED
  BY <1>6 DEF r

\* The run before an evaluation is the multiple of the period phase ticks ago.
LEMMA RunOf ==
    ASSUME NEW n \in Nat, n % Period > 0
    PROVE  /\ n - (n % Period) \in Nat
           /\ (n - (n % Period)) % Period = 0
<1> DEFINE k == n \div Period
           r == n % Period
<1>1. k \in Nat /\ r \in Nat /\ n = (Period * k) + r
  BY TimesAssumption
<1>2. n - r = Period * k /\ Period * k \in Nat
  BY <1>1, TimesAssumption
<1>3. (Period * k) % Period = 0
  BY <1>1, Whole
<1> QED
  BY <1>2, <1>3

\* An evaluation misses only rows of runs that are then marked late.
LEMMA MissedNext ==
    ASSUME TypeOK, Ordered, Missed, [Next]_vars
    PROVE  Missed'
<1> SUFFICES ASSUME mode' = "finops", NEW t \in Ticks, t % Period = 0,
                    log'[t] \in Sent \cup {"running"}, rows'[t] = 0,
                    \/ t + phase' < now'
                    \/ t + phase' = now' /\ "rule" \notin due'
             PROVE  t \in late'
  BY DEF Missed
<1>0. /\ t \in Nat /\ now \in Nat /\ phase \in 1..(Period - 1)
      /\ rows[t] \in Nat /\ mode \in {"ops", "finops"}
  BY TimesAssumption DEF TypeOK, Ticks
<1> DEFINE past == t + phase < now \/ (t + phase = now /\ "rule" \notin due)
           before == log[t] \in Sent \cup {"running"} /\ rows[t] = 0
<1>a. mode = "finops" /\ before /\ past => t \in late
  BY DEF Missed
<1> HIDE DEF past, before
<1>1. CASE Clock
  <2>1. mode = "finops" /\ before
    BY <1>1 DEF Clock, before
  <2>2. t + phase # now + 1
    <3>1. SUFFICES ASSUME t + phase = now + 1 PROVE FALSE
      OBVIOUS
    <3>2. (now + 1) % Period = phase
      BY <1>0, <3>1, PhaseOf
    <3> QED
      BY <1>1, <3>1, <3>2 DEF Clock, Due
  <2>3. past
    BY <1>0, <1>1, <2>2 DEF Clock, past
  <2> QED
    BY <1>1, <1>a, <2>1, <2>3 DEF Clock
<1>2. CASE TimerFires \/ BeginOffSchedule
  <2>1. t # now
    BY <1>0, <1>2 DEF TimerFires, BeginOffSchedule, Begin
  <2>2. mode = "finops" /\ before /\ past
    BY <1>2, <2>1
       DEF TimerFires, BeginOffSchedule, Begin, TypeOK, before, past
  <2> QED
    BY <1>2, <1>a, <2>2 DEF TimerFires, BeginOffSchedule, Begin
<1>3. CASE TimerMissed
  <2>1. mode = "finops" /\ before /\ past
    BY <1>3 DEF TimerMissed, before, past
  <2> QED
    BY <1>3, <1>a, <2>1 DEF TimerMissed
<1>4. ASSUME NEW u \in Ticks, NEW x \in Outcomes, EndRun(u, x)
      PROVE  t \in late'
  <2>1. log[t] \in Sent \cup {"running"}
    BY <1>4 DEF EndRun, Running, TypeOK
  <2>2. mode = "finops" /\ before /\ past
    BY <1>4, <2>1 DEF EndRun, before, past
  <2> QED
    BY <1>4, <1>a, <2>2 DEF EndRun
<1>5. ASSUME NEW u \in Ticks, Arrive(u)
      PROVE  t \in late'
  <2>1. u # t
    BY <1>0, <1>5 DEF Arrive, TypeOK
  <2>2. mode = "finops" /\ before /\ past
    BY <1>5, <2>1 DEF Arrive, TypeOK, before, past
  <2> QED
    BY <1>5, <1>a, <2>2 DEF Arrive
<1>6. ~EvaluateOpsHot
  BY DEF EvaluateOpsHot, Evaluate
<1>7. CASE EvaluateFinopsNew
  <2>1. mode = "finops" /\ before
    BY <1>7 DEF EvaluateFinopsNew, Evaluate, before
  <2>2. CASE past
    BY <1>7, <1>a, <2>1, <2>2 DEF EvaluateFinopsNew
  <2>3. CASE ~past
    <3>1. t + phase = now
      BY <1>0, <1>7, <2>3 DEF EvaluateFinopsNew, Evaluate, past
    <3>2. t \in Pending
      BY <1>0, <2>1, <3>1, TimesAssumption DEF Pending, before
    <3> QED
      BY <1>7, <3>2 DEF EvaluateFinopsNew
  <2> QED
    BY <2>2, <2>3
<1>8. CASE UNCHANGED vars
  <2>1. mode = "finops" /\ before /\ past
    BY <1>8 DEF vars, before, past
  <2> QED
    BY <1>8, <1>a, <2>1 DEF vars
<1> QED
  BY <1>1, <1>2, <1>3, <1>4, <1>5, <1>6, <1>7, <1>8 DEF Next, Over

\* At first no evaluation was made.
LEMMA MissedInit == Init => Missed
  BY TimesAssumption DEF Init, Missed, Ticks, Sent

\* The rows of one scheduled period are those of the run phase ticks ago, and
\* those of the period before those of the run before it.
LEMMA RunsSeen ==
    ASSUME TypeOK, Ordered, OnSchedule, "rule" \in due,
           NEW run, run = now - phase
    PROVE  /\ run \in Nat /\ run % Period = 0
           /\ \A t \in Aged(0, Period) : t = run
           /\ \A t \in Aged(Period, 2 * Period) :
                  t = run - Period /\ run >= Period
<1>1. /\ now \in Nat /\ now \in Ticks /\ phase \in 1..(Period - 1)
      /\ now % Period = phase
  BY AtPhase DEF TypeOK
<1>2. run \in Nat /\ run % Period = 0
  BY <1>1, RunOf
<1>3. ASSUME NEW t \in 0..now, rows[t] > 0
      PROVE  t \in Nat /\ t % Period = 0
  <2>1. t \in Nat /\ t \in Ticks
    BY <1>1, TimesAssumption DEF Ticks
  <2> QED
    BY <1>3, <2>1 DEF Ordered, OnSchedule, Sent
<1>4. ASSUME NEW t \in Aged(0, Period) PROVE t = run
  <2>1. t \in Nat /\ t % Period = 0 /\ t <= now /\ now - t < Period
    BY <1>1, <1>3 DEF Aged
  <2>2. t < run + Period /\ run < t + Period
    BY <1>1, <2>1, TimesAssumption
  <2> QED
    BY <1>2, <2>1, <2>2, Same
<1>5. ASSUME NEW t \in Aged(Period, 2 * Period)
      PROVE  t = run - Period /\ run >= Period
  <2>1. /\ t \in Nat /\ t % Period = 0 /\ Period <= now - t
        /\ now - t < 2 * Period
    BY <1>1, <1>3 DEF Aged
  <2>2. t < run
    BY <1>1, <2>1, TimesAssumption
  <2>3. t + Period <= run
    BY <1>2, <2>1, <2>2, Apart
  <2>4. ~(t + Period < run)
    <3>1. SUFFICES ASSUME t + Period < run PROVE FALSE
      OBVIOUS
    <3>2. (t + Period) % Period = 0
      BY <2>1, NextMultiple
    <3>3. t + Period + Period <= run
      BY <1>2, <2>1, <3>1, <3>2, Apart, TimesAssumption
    <3> QED
      BY <1>1, <2>1, <3>3, TimesAssumption
  <2> QED
    BY <1>2, <2>1, <2>3, <2>4, TimesAssumption
<1> QED
  BY <1>2, <1>4, <1>5

\* New savings are told once, by the evaluation after the run, unless the rows
\* come later than that.
LEMMA NewsStep ==
    ASSUME TypeOK, Ordered, Missed, [Next]_vars, mode = "finops",
           "rule" \in due \ due', OnSchedule, NEW run, run = now - phase
    PROVE  /\ told' =>
                 /\ log[run] = "found"
                 /\ FoundBefore(run) => run - Period \in late
           /\ log[run] = "found" /\ run \notin late' /\ ~FoundBefore(run)
                 => told'
<1>0. /\ now \in Nat /\ now \in Ticks /\ phase \in 1..(Period - 1)
      /\ now % Period = phase /\ run \in Nat /\ run % Period = 0
      /\ run <= now /\ run \in Ticks
      /\ 0 <= now - run /\ now - run < Period /\ run + phase = now
  <2>1. now \in Nat /\ phase \in 1..(Period - 1) /\ now % Period = phase
    BY AtPhase
  <2>2. now \in Ticks
    BY DEF TypeOK
  <2>3. run \in Nat /\ run % Period = 0
    BY RunsSeen
  <2> QED
    BY <2>1, <2>2, <2>3, TimesAssumption DEF Ticks
<1>1. EvaluateFinopsNew
  <2>1. ~EvaluateOpsHot
    BY DEF EvaluateOpsHot, Evaluate
  <2> QED
    BY <2>1, RuleStep
<1>2. told' = FinopsNew /\ late' = late \cup Pending
  BY <1>1 DEF EvaluateFinopsNew, Evaluate
<1>3. ASSUME told'
      PROVE  /\ log[run] = "found"
             /\ FoundBefore(run) => run - Period \in late
  <2>1. Previous = {} /\ \E t \in Aged(0, Period) : log[t] = "found"
    BY <1>2, <1>3 DEF FinopsNew
  <2>2. log[run] = "found"
    BY <2>1, RunsSeen
  <2>3. ASSUME FoundBefore(run) PROVE run - Period \in late
    <3>1. /\ run - Period \in 0..now /\ run - Period \in Ticks
          /\ log[run - Period] \in Sent
      BY <1>0, <2>3, TimesAssumption DEF FoundBefore, Ticks
    <3>2. rows[run - Period] = 0
      <4>1. run - Period \notin Aged(Period, 2 * Period)
        BY <2>1 DEF Previous
      <4>2. /\ Period <= now - (run - Period)
            /\ now - (run - Period) < 2 * Period
        BY <1>0, TimesAssumption
      <4>3. rows[run - Period] \in 0..2
        BY <3>1 DEF TypeOK
      <4> QED
        BY <3>1, <4>1, <4>2, <4>3 DEF Aged
    <3>3. (run - Period) % Period = 0
      BY <1>0, <2>3, MultipleBefore DEF FoundBefore
    <3>4. (run - Period) + phase < now
      BY <1>0, TimesAssumption
    <3> QED
      BY <3>1, <3>2, <3>3, <3>4 DEF Missed
  <2> QED
    BY <2>2, <2>3
<1>4. ASSUME log[run] = "found", run \notin late', ~FoundBefore(run)
      PROVE  told'
  <2>1. rows[run] > 0
    <3>1. rows[run] \in 0..2
      BY <1>0 DEF TypeOK
    <3>2. run \notin Pending
      BY <1>2, <1>4
    <3> QED
      BY <1>0, <1>4, <3>1, <3>2 DEF Pending, Sent
  <2>2. run \in Aged(0, Period)
    BY <1>0, <2>1 DEF Aged
  <2>3. \A u \in Aged(0, Period) : u <= run
    BY <1>0, RunsSeen
  <2>4. Previous = {}
    <3>1. SUFFICES ASSUME NEW t \in Aged(Period, 2 * Period) PROVE FALSE
      BY DEF Previous
    <3>2. t = run - Period /\ run >= Period
      BY RunsSeen
    <3>3. rows[t] > 0 /\ t \in Ticks
      BY <1>0, TimesAssumption DEF Aged, Ticks
    <3> QED
      BY <1>4, <3>2, <3>3 DEF FoundBefore, Ordered
  <2> QED
    BY <1>2, <1>4, <2>2, <2>3, <2>4 DEF FinopsNew
<1> QED
  BY <1>3, <1>4

\* Whatever the period and the history, the finops alert tells each new saving
\* once, and misses only one whose rows came too late.
THEOREM NewsToldOnce == Spec => NewsTold
<1>1. TypeOK /\ Ordered /\ Missed /\ [Next]_vars
          => [mode = "finops" /\ "rule" \in due \ due' /\ OnSchedule =>
                LET run == now - phase
                IN  /\ told' =>
                          /\ log[run] = "found"
                          /\ FoundBefore(run) => run - Period \in late
                    /\ log[run] = "found" /\ run \notin late'
                          /\ ~FoundBefore(run) => told']_vars
  BY NewsStep
<1> QED
  BY <1>1, TypeInit, TypeNext, OrderedInit, OrderedNext, MissedInit,
     MissedNext, PTL DEF Spec, NewsTold
-----------------------------------------------------------------------------
(* The ops rule: arithmetic of streaks.                                    *)

\* A set of naturals that is not empty has a least element.
LEMMA LeastNatural ==
    ASSUME NEW S \in SUBSET Nat, S # {}
    PROVE  \E m \in S : \A n \in S : m <= n
<1>1. PICK m \in S : \A n \in S : <<n, m>> \notin OpToRel(<, Nat)
  BY NatLessThanWellFounded, WFMin
<1>2. \A n \in S : ~(n < m)
  BY <1>1 DEF OpToRel
<1> QED
  BY <1>2

\* And, if it is bounded, a greatest.
LEMMA GreatestNatural ==
    ASSUME NEW b \in Nat, NEW S \in SUBSET (0..b), S # {}
    PROVE  \E m \in S : \A n \in S : n <= m
<1> DEFINE D == {b - t : t \in S}
<1>0. \A t \in S : t \in 0..b /\ b - t \in Nat
  <2>1. ASSUME NEW t \in 0..b PROVE b - t \in Nat
    OBVIOUS
  <2> QED
    BY <2>1
<1>1. D \in SUBSET Nat /\ D # {}
  BY <1>0
<1>2. PICK d \in D : \A e \in D : d <= e
  BY <1>1, LeastNatural
<1>3. PICK m \in S : d = b - m
  BY <1>2
<1>4. ASSUME NEW n \in S PROVE n <= m
  <2>1. b - n \in D
    OBVIOUS
  <2>2. d <= b - n
    BY <1>2, <2>1
  <2>3. n \in 0..b /\ m \in 0..b
    BY <1>0
  <2> QED
    BY <1>3, <2>2, <2>3
<1> QED
  BY <1>4

\* i periods and one more are at most j periods, if i < j.
LEMMA OneMore ==
    ASSUME NEW i \in Nat, NEW j \in Nat, i < j
    PROVE  /\ Period * i \in Nat /\ Period * j \in Nat
           /\ Period * i + Period <= Period * j
<1>1. Period * i \in Nat /\ Period * j \in Nat
  BY TimesAssumption
<1>2. Period * (i + 1) <= Period * j
  BY TimesAssumption
<1>3. Period * (i + 1) = (Period * i) + Period
  BY TimesAssumption
<1> QED
  BY <1>1, <1>2, <1>3

\* Between two multiples of the period there are whole periods.
LEMMA Between ==
    ASSUME NEW a \in Nat, NEW b \in Nat, a % Period = 0, b % Period = 0,
           a <= b
    PROVE  \E m \in Nat : b = a + (Period * m)
<1> DEFINE k == a \div Period
           l == b \div Period
<1>1. k \in Nat /\ a = Period * k /\ l \in Nat /\ b = Period * l
  BY TimesAssumption
<1> HIDE DEF k, l
<1>2. ~(l < k)
  <2>1. SUFFICES ASSUME l < k PROVE FALSE
    OBVIOUS
  <2>2. Period * l + Period <= Period * k
    BY <1>1, <2>1, OneMore
  <2> QED
    BY <1>1, <2>2, TimesAssumption
<1>3. l - k \in Nat
  BY <1>1, <1>2
<1>4. Period * (l - k) = (Period * l) - (Period * k)
  BY <1>1, TimesAssumption
<1> QED
  BY <1>1, <1>3, <1>4

\* A run that another follows after more than a period breaks the streak:
\* if a run is missing at i periods before n, those before it are not counted.
LEMMA GapEnds ==
    ASSUME NEW S \in SUBSET Nat, \A s \in S : s % Period = 0,
           NEW n \in S, \A s \in S : s <= n,
           NEW i \in Nat, i > 0, n < Period * i \/ n - (Period * i) \notin S,
           n - (Period * (i - 1)) \in S,
           NEW t \in Streak(S), NEW k \in Nat, n = t + (Period * k)
    PROVE  k < i
<1> SUFFICES ASSUME i <= k PROVE FALSE
  OBVIOUS
<1> DEFINE pi == Period * i
           pk == Period * k
           v  == n - (Period * (i - 1))
           Lower == {s \in S : s + pi <= n}
<1>1. n \in Nat /\ t \in Nat /\ t \in S /\ t <= n
  BY DEF Streak
<1>2. pi \in Nat /\ pk \in Nat /\ pi <= pk
  <2>1. CASE i = k
    BY <2>1, TimesAssumption
  <2>2. CASE i < k
    BY <2>2, OneMore, TimesAssumption
  <2> QED
    BY <2>1, <2>2
<1>3. v \in S /\ v \in Nat /\ v + pi = n + Period
  <2>1. Period * (i - 1) = pi - Period
    BY TimesAssumption
  <2>2. v = n - (pi - Period)
    BY <2>1
  <2>3. v \in S /\ v \in Nat
    OBVIOUS
  <2> HIDE DEF v, pi
  <2> QED
    BY <1>1, <1>2, <2>2, <2>3, TimesAssumption
<1> HIDE DEF pi, pk, v
<1>4. t \in Lower /\ Lower \in SUBSET (0..n)
  <2>1. t + pi <= n
    BY <1>1, <1>2 DEF pk
  <2>2. \A s \in S : s \in 0..n
    BY <1>1
  <2> QED
    BY <1>1, <2>1, <2>2
<1>5. PICK u \in Lower : \A s \in Lower : s <= u
  BY <1>1, <1>4, GreatestNatural
<1>6. u \in Nat /\ u \in S /\ u >= t /\ u + pi <= n
  BY <1>4, <1>5
<1>7. u + pi + Period <= n
  <2>1. u + pi # n
    BY <1>1, <1>2, <1>6 DEF pi
  <2>2. PICK m \in Nat : n = u + (Period * m)
    BY <1>1, <1>6, Between
  <2>3. Period * m \in Nat /\ pi < Period * m
    BY <1>1, <1>2, <1>6, <2>1, <2>2, TimesAssumption
  <2>4. i < m
    <3>1. SUFFICES ASSUME m <= i PROVE FALSE
      BY <2>2
    <3>2. m < i => Period * m + Period <= pi
      BY <2>2, OneMore DEF pi
    <3>3. m = i => Period * m = pi
      BY DEF pi
    <3> QED
      BY <1>2, <2>2, <2>3, <3>1, <3>2, <3>3, TimesAssumption
  <2>5. pi + Period <= Period * m
    BY <2>4, OneMore DEF pi
  <2> QED
    BY <1>2, <1>6, <2>2, <2>3, <2>5, TimesAssumption
<1>8. ASSUME NEW s \in S, s > u
      PROVE  v <= s
  <2>1. s \in Nat /\ s <= n /\ s + pi > n
    BY <1>1, <1>2, <1>5, <1>6, <1>8
  <2>2. PICK m \in Nat : n = s + (Period * m)
    BY <1>1, <2>1, Between
  <2>3. Period * m \in Nat /\ Period * m < pi
    BY <1>1, <1>2, <2>1, <2>2, TimesAssumption
  <2>4. m < i
    <3>1. SUFFICES ASSUME i <= m PROVE FALSE
      BY <2>2
    <3>2. i < m => pi + Period <= Period * m
      BY <2>2, OneMore DEF pi
    <3>3. m = i => Period * m = pi
      BY DEF pi
    <3> QED
      BY <1>2, <2>2, <2>3, <3>1, <3>2, <3>3, TimesAssumption
  <2>5. Period * m + Period <= pi
    BY <2>4, OneMore DEF pi
  <2> QED
    BY <1>2, <1>3, <2>1, <2>2, <2>3, <2>5, TimesAssumption
<1>9. v > u /\ 2 * (v - u) > 3 * Period
  BY <1>1, <1>2, <1>3, <1>6, <1>7, TimesAssumption
<1>10. Broken(S, u)
  BY <1>3, <1>6, <1>8, <1>9 DEF Broken, Follows
<1> QED
  BY <1>6, <1>10 DEF Streak

\* A streak as long as SustainedRuns is one run a period up to the newest.
LEMMA StreakFull ==
    ASSUME NEW S \in SUBSET Nat, \A s \in S : s % Period = 0,
           NEW n \in S, \A s \in S : s <= n,
           Runs(S) >= SustainedRuns
    PROVE  \A i \in 0..(SustainedRuns - 1) :
               Period * i <= n /\ n - (Period * i) \in S
<1> DEFINE Hit(i) == Period * i <= n /\ n - (Period * i) \in S
           Miss == {i \in Nat : i < SustainedRuns /\ ~Hit(i)}
<1> SUFFICES ASSUME Miss # {} PROVE FALSE
  <2>1. \A i \in 0..(SustainedRuns - 1) : i \in Nat /\ i < SustainedRuns
    BY TimesAssumption
  <2> QED
    BY <2>1
<1>1. PICK i \in Miss : \A j \in Miss : i <= j
  BY LeastNatural
<1>2. n \in Nat /\ i \in Nat /\ i < SustainedRuns /\ ~Hit(i)
  BY <1>1
<1>3. i > 0
  <2>1. Hit(0)
    BY <1>2, TimesAssumption
  <2> QED
    BY <1>2, <2>1
<1>4. n - (Period * (i - 1)) \in S
  <2>1. i - 1 \in Nat /\ i - 1 \notin Miss
    BY <1>1, <1>2, <1>3
  <2> QED
    BY <1>2, <2>1, TimesAssumption
<1>5. n < Period * i \/ n - (Period * i) \notin S
  BY <1>2, TimesAssumption
<1> HIDE DEF Hit, Miss
<1> DEFINE f == [t \in Streak(S) |-> CHOOSE k \in Nat : n = t + (Period * k)]
<1>6. ASSUME NEW t \in Streak(S)
      PROVE  f[t] \in 0..(i - 1) /\ n = t + (Period * f[t])
  <2>1. t \in S /\ t \in Nat /\ t <= n
    BY DEF Streak
  <2>2. \E k \in Nat : n = t + (Period * k)
    BY <1>2, <2>1, Between
  <2>3. f[t] \in Nat /\ n = t + (Period * f[t])
    BY <2>2
  <2> HIDE DEF f
  <2>4. f[t] < i
    BY <1>2, <1>3, <1>4, <1>5, <2>3, GapEnds
  <2> QED
    BY <1>2, <2>3, <2>4
<1>7. f \in Injection(Streak(S), 0..(i - 1))
  <2>1. f \in [Streak(S) -> 0..(i - 1)]
    BY <1>6
  <2> HIDE DEF f
  <2>2. ASSUME NEW a \in Streak(S), NEW b \in Streak(S), f[a] = f[b]
        PROVE  a = b
    <3>1. a \in Nat /\ b \in Nat
      BY DEF Streak
    <3>2. n = a + (Period * f[a]) /\ n = b + (Period * f[a])
      BY <1>6, <2>2
    <3>3. Period * f[a] \in Nat
      BY <1>6, <1>2, TimesAssumption
    <3> QED
      BY <1>2, <3>1, <3>2, <3>3
  <2> QED
    BY <2>1, <2>2 DEF Injection, IsInjective
<1>8. IsFiniteSet(0..(i - 1)) /\ Cardinality(0..(i - 1)) = i
  <2>1. 0 \in Int /\ i - 1 \in Int /\ ~(0 > i - 1) /\ (i - 1) - 0 + 1 = i
    BY <1>2, <1>3
  <2> QED
    BY <2>1, FS_Interval
<1>9. Cardinality(Streak(S)) <= i
  BY <1>7, <1>8, FS_Injection
<1>10. Cardinality(Streak(S)) \in Nat
  BY <1>7, <1>8, FS_Injection, FS_CardinalityType
<1> QED
  BY <1>2, <1>9, <1>10, TimesAssumption DEF Runs

\* If the ops alert is on, the last runs found the pair hot.
LEMMA OnMeansHot ==
    ASSUME TypeOK, Ordered, mode = "ops", OnSchedule, OpsHot
    PROVE  \E n \in 0..now :
               /\ HotUpTo(n)
               /\ \A c \in (n + 1)..now : log[c] = "clean" => now - c < Grace
<1>0. now \in Nat /\ 0..now \subseteq Ticks
  BY TimesAssumption DEF TypeOK, Ticks
<1>1. PICK w \in Windows : /\ Aged(0, Period + Grace) \cap Aged(0, w) # {}
                           /\ Runs(Aged(0, w)) >= SustainedRuns
  BY DEF OpsHot
<1> DEFINE S == Aged(0, w)
<1>2. S \in SUBSET (0..now) /\ S # {}
  BY <1>1 DEF Aged
<1>3. PICK n \in S : \A s \in S : s <= n
  BY <1>0, <1>2, GreatestNatural
<1>4. \A s \in S : /\ s \in Ticks /\ s \in Nat /\ s % Period = 0
                   /\ log[s] = "found"
  <2>1. ASSUME NEW s \in S
        PROVE  s \in Ticks /\ s \in Nat /\ s % Period = 0 /\ log[s] = "found"
    <3>1. s \in Ticks /\ s \in Nat /\ rows[s] > 0
      BY <1>0, <1>2 DEF Aged
    <3>2. log[s] = "found"
      BY <3>1 DEF Ordered, Sent
    <3> QED
      BY <3>1, <3>2 DEF OnSchedule
  <2> QED
    BY <2>1
<1>5. now - n < Period + Grace
  <2>1. PICK t \in Aged(0, Period + Grace) : t \in S
    BY <1>1
  <2>2. t \in Nat /\ n \in Nat /\ t <= n /\ now - t < Period + Grace
    BY <1>3, <1>4, <2>1 DEF Aged
  <2> QED
    BY <1>0, <2>2, TimesAssumption
<1> HIDE DEF S
<1>6. HotUpTo(n)
  <2>1. \A i \in 0..(SustainedRuns - 1) :
            Period * i <= n /\ n - (Period * i) \in S
    <3>1. S \in SUBSET Nat /\ Runs(S) >= SustainedRuns
      BY <1>1, <1>2 DEF S
    <3> QED
      BY <1>3, <1>4, <3>1, StreakFull
  <2>2. ASSUME NEW i \in 0..(SustainedRuns - 1)
        PROVE  i * Period <= n /\ log[n - (i * Period)] = "found"
    <3>1. i * Period = Period * i
      BY TimesAssumption
    <3> QED
      BY <1>4, <2>1, <3>1
  <2> QED
    BY <2>2 DEF HotUpTo
<1>7. ASSUME NEW c \in (n + 1)..now, log[c] = "clean"
      PROVE  now - c < Grace
  <2>1. n \in Nat /\ c \in Nat /\ c \in Ticks /\ n < c
    BY <1>0, <1>4, <1>7
  <2>2. n + Period <= c
    BY <1>4, <1>7, <2>1, Apart DEF OnSchedule
  <2> QED
    BY <1>0, <1>5, <2>1, <2>2, TimesAssumption
<1>8. n \in 0..now
  BY <1>2
<1> QED
  BY <1>6, <1>7, <1>8

\* Rows of SustainedRuns runs, one a period, up to the newest turn it on.
LEMMA HotMeansOn ==
    ASSUME TypeOK, NEW n \in 0..now, now - n < Period + Grace,
           \A c \in (n + 1)..now : rows[c] = 0,
           \A i \in 0..(SustainedRuns - 1) :
               Period * i <= n /\ rows[n - (Period * i)] > 0
    PROVE  OpsHot
<1> DEFINE need == Period * SustainedRuns + Grace
           Fit == {w \in Windows : w >= need}
           Last == 0..(SustainedRuns - 1)
<1>0. /\ now \in Nat /\ n \in Nat /\ n <= now /\ 0 \in Last
      /\ need \in Nat /\ Fit \in SUBSET Nat /\ Fit # {}
  <2>1. now \in Nat /\ n \in Nat /\ n <= now /\ 0 \in Last
    BY TimesAssumption DEF TypeOK, Ticks
  <2>2. need \in Nat
    BY TimesAssumption
  <2>3. Fit \in SUBSET Nat /\ Fit # {}
    BY WindowsAssumption
  <2> QED
    BY <2>1, <2>2, <2>3
<1>1. PICK w \in Fit : \A v \in Fit : w <= v
  BY <1>0, LeastNatural
<1>2. IsWindow(w) /\ w \in Windows /\ w \in Nat /\ w >= need
  BY <1>0, <1>1 DEF IsWindow
<1> DEFINE S == Aged(0, w)
<1>3. ASSUME NEW i \in Last
      PROVE  /\ Period * i \in Nat /\ i \in Nat
             /\ n - (Period * i) \in S /\ n - (Period * i) \in Nat
  <2>1. i \in Nat /\ SustainedRuns \in Nat /\ i < SustainedRuns
    BY TimesAssumption
  <2>2. Period * i \in Nat /\ Period * i + Period <= Period * SustainedRuns
    BY <2>1, OneMore
  <2>3. Period * i <= n /\ rows[n - (Period * i)] > 0
    OBVIOUS
  <2>4. n - (Period * i) \in 0..now
    BY <1>0, <2>2, <2>3
  <2>5. 0 <= now - (n - (Period * i)) /\ now - (n - (Period * i)) < w
    BY <1>0, <1>2, <2>1, <2>2, <2>3, TimesAssumption
  <2> QED
    BY <2>1, <2>2, <2>3, <2>4, <2>5 DEF Aged
<1>4. n \in S /\ n \in Aged(0, Period + Grace)
  <2>1. Period * 0 = 0 /\ n - 0 = n
    BY <1>0, TimesAssumption
  <2>2. n \in S
    BY <1>0, <1>3, <2>1
  <2> QED
    BY <1>0, <2>2 DEF Aged
<1>5. S \in SUBSET Nat /\ \A s \in S : s <= n
  BY <1>0 DEF Aged
<1> HIDE DEF S, need, Fit
<1>6. ASSUME NEW i \in Last
      PROVE  n - (Period * i) \in Streak(S)
  <2> DEFINE t == n - (Period * i)
  <2>1. t \in S /\ t \in Nat
    BY <1>3
  <2> SUFFICES ASSUME NEW u \in S, u >= t, NEW v \in S,
                      Follows(S, v, u), 2 * (v - u) > 3 * Period
               PROVE  FALSE
    BY <2>1 DEF Streak, Broken, Follows
  <2>2. u \in Nat /\ v \in Nat /\ u < v /\ v <= n
    BY <1>5 DEF Follows
  <2> DEFINE J == {j \in Last : u < n - (Period * j)}
  <2>3. J \in SUBSET (0..SustainedRuns) /\ SustainedRuns \in Nat
    BY TimesAssumption
  <2>4. 0 \in J
    BY <1>0, <2>2, TimesAssumption
  <2>5. PICK j \in J : \A k \in J : k <= j
    BY <2>3, <2>4, GreatestNatural
  <2>6. j \in Last /\ j \in Nat /\ i \in Nat /\ u < n - (Period * j)
    BY <1>3, <2>5
  <2>7. j < i
    <3>1. SUFFICES ASSUME i <= j PROVE FALSE
      BY <2>6
    <3>2. i = j => FALSE
      BY <2>1, <2>2, <2>6
    <3>3. i < j => Period * i + Period <= Period * j
      BY <2>6, OneMore
    <3>4. Period * i \in Nat /\ Period * j \in Nat
      BY <1>3, <2>6
    <3> QED
      BY <1>0, <2>1, <2>2, <2>6, <3>1, <3>2, <3>3, <3>4, TimesAssumption
  <2>8. n - (Period * j) <= u + Period
    <3>1. j + 1 \in Last /\ j + 1 \notin J
      BY <2>5, <2>6, <2>7, TimesAssumption
    <3>2. n - (Period * (j + 1)) <= u
      BY <1>0, <1>3, <2>2, <3>1
    <3>3. Period * (j + 1) = (Period * j) + Period
      BY <2>6, TimesAssumption
    <3>4. Period * j \in Nat
      BY <1>3, <2>6
    <3> QED
      BY <1>0, <2>2, <3>2, <3>3, <3>4, TimesAssumption
  <2>9. v <= n - (Period * j)
    BY <1>3, <2>6 DEF Follows
  <2>10. Period * j \in Nat
    BY <1>3, <2>6
  <2> QED
    BY <1>0, <2>2, <2>8, <2>9, <2>10, TimesAssumption
<1> DEFINE f == [i \in Last |-> n - (Period * i)]
<1>7. f \in Injection(Last, Streak(S))
  <2>1. f \in [Last -> Streak(S)]
    BY <1>6
  <2>2. ASSUME NEW a \in Last, NEW b \in Last, f[a] = f[b]
        PROVE  a = b
    <3>1. /\ a \in Nat /\ b \in Nat /\ Period * a \in Nat
          /\ Period * b \in Nat /\ Period * a = Period * b
      BY <1>0, <1>3, <2>2
    <3>2. a < b => Period * a + Period <= Period * b
      BY <3>1, OneMore
    <3>3. b < a => Period * b + Period <= Period * a
      BY <3>1, OneMore
    <3> QED
      BY <3>1, <3>2, <3>3, TimesAssumption
  <2> HIDE DEF f
  <2> QED
    BY <2>1, <2>2 DEF Injection, IsInjective
<1>8. IsFiniteSet(Streak(S)) /\ Cardinality(Streak(S)) \in Nat
  <2>1. IsFiniteSet(0..n)
    BY <1>0, FS_Interval
  <2>2. \A s \in S : s \in 0..n
    BY <1>0, <1>5
  <2>3. Streak(S) \in SUBSET (0..n)
    BY <2>2 DEF Streak
  <2> QED
    BY <2>1, <2>3, FS_Subset, FS_CardinalityType
<1>9. Cardinality(Last) = SustainedRuns
  <2>1. /\ 0 \in Int /\ SustainedRuns - 1 \in Int
        /\ ~(0 > SustainedRuns - 1)
        /\ (SustainedRuns - 1) - 0 + 1 = SustainedRuns
    BY TimesAssumption
  <2> QED
    BY <2>1, FS_Interval
<1>10. SustainedRuns <= Cardinality(Streak(S))
  BY <1>7, <1>8, <1>9, FS_Injection
<1>11. Runs(S) >= SustainedRuns
  BY <1>8, <1>10, TimesAssumption DEF Runs
<1> QED
  BY <1>2, <1>4, <1>11 DEF OpsHot, S

\* What an evaluation of the ops rule says if it alerts, and if it does not.
LEMMA OpsStep ==
    ASSUME TypeOK, Ordered, [Next]_vars, mode = "ops", "rule" \in due \ due'
    PROVE  /\ told' /\ OnSchedule =>
                 \E n \in 0..now :
                     /\ HotUpTo(n)
                     /\ \A c \in (n + 1)..now :
                            log[c] = "clean" => now - c < Grace
           /\ (\E n \in 0..now :
                   /\ now - n < Period + Grace
                   /\ \A c \in (n + 1)..now : rows[c] = 0
                   /\ \A i \in 0..(SustainedRuns - 1) :
                          i * Period <= n /\ rows[n - i * Period] > 0)
              => told'
<1>1. EvaluateOpsHot
  <2>1. ~EvaluateFinopsNew
    BY DEF EvaluateFinopsNew, Evaluate
  <2> QED
    BY <2>1, RuleStep
<1>2. told' = OpsHot
  BY <1>1 DEF EvaluateOpsHot, Evaluate
<1>3. ASSUME NEW n \in 0..now, now - n < Period + Grace,
             \A c \in (n + 1)..now : rows[c] = 0,
             \A i \in 0..(SustainedRuns - 1) :
                 i * Period <= n /\ rows[n - i * Period] > 0
      PROVE  told'
  <2>1. ASSUME NEW i \in 0..(SustainedRuns - 1)
        PROVE  Period * i <= n /\ rows[n - (Period * i)] > 0
    <3>1. i * Period = Period * i
      BY TimesAssumption
    <3> QED
      BY <1>3, <3>1
  <2> QED
    BY <1>2, <1>3, <2>1, HotMeansOn
<1> QED
  BY <1>2, <1>3, OnMeansHot

\* Whatever the period, the length of a streak, the window sizes and the
\* history, the ops alert is on exactly if the pair stayed hot.
THEOREM OpsAlertExact == Spec => OpsAlert
<1>1. TypeOK /\ Ordered /\ [Next]_vars
          => [mode = "ops" /\ "rule" \in due \ due' =>
                /\ told' /\ OnSchedule =>
                      \E n \in 0..now :
                          /\ HotUpTo(n)
                          /\ \A c \in (n + 1)..now :
                                 log[c] = "clean" => now - c < Grace
                /\ (\E n \in 0..now :
                        /\ now - n < Period + Grace
                        /\ \A c \in (n + 1)..now : rows[c] = 0
                        /\ \A i \in 0..(SustainedRuns - 1) :
                               i * Period <= n /\ rows[n - i * Period] > 0)
                   => told']_vars
  BY OpsStep
<1> QED
  BY <1>1, TypeInit, TypeNext, OrderedInit, OrderedNext, PTL
     DEF Spec, OpsAlert
-----------------------------------------------------------------------------
(* The ops rule, off schedule too.                                         *)

\* What an ops alert is evidence of, whenever runs were started: as many runs
\* as it takes that found the pair, the newest of them not much older than a
\* period, and no two neighbours more than one and a half periods apart.
Evidence(T) ==
    /\ Cardinality(T) >= SustainedRuns
    /\ \A t \in T : log[t] = "found"
    /\ \E t \in T : now - t < Period + Grace
    /\ \A t \in T : \/ \A u \in T : u <= t
                    \/ \E v \in T : v > t /\ 2 * (v - t) <= 3 * Period

AlertHasEvidence ==
    [][mode = "ops" /\ "rule" \in due \ due' /\ told' =>
          \E T \in SUBSET (0..now) : Evidence(T)]_vars

\* The runs that a streak counts are such evidence.
LEMMA StreakIsEvidence ==
    ASSUME TypeOK, Ordered, mode = "ops", OpsHot
    PROVE  \E T \in SUBSET (0..now) : Evidence(T)
<1>0. now \in Nat /\ 0..now \subseteq Ticks
  BY TimesAssumption DEF TypeOK, Ticks
<1>1. PICK w \in Windows : /\ Aged(0, Period + Grace) \cap Aged(0, w) # {}
                           /\ Runs(Aged(0, w)) >= SustainedRuns
  BY DEF OpsHot
<1> DEFINE S == Aged(0, w)
           T == Streak(S)
<1>2. S \in SUBSET (0..now) /\ S # {}
  BY <1>1 DEF Aged
<1>3. \A t \in S : log[t] = "found"
  BY <1>0 DEF Aged, Ordered, Sent
<1>4. PICK n \in S : \A s \in S : s <= n
  BY <1>0, <1>2, GreatestNatural
<1>5. PICK t \in S : now - t < Period + Grace
  BY <1>1 DEF Aged
<1> HIDE DEF S
<1>6. S \in SUBSET Nat /\ now \in Nat
  BY <1>0, <1>2
<1>7. \A u, v \in S : Follows(S, v, u) => v > u
  BY DEF Follows
<1>8. n \in T
  <2>1. \A u \in S : u >= n => ~Broken(S, u)
    <3> SUFFICES ASSUME NEW u \in S, u >= n, NEW v \in S, v > u
                 PROVE  FALSE
      BY DEF Broken, Follows
    <3> QED
      BY <1>4, <1>6
  <2> QED
    BY <2>1 DEF Streak
<1>9. now - n < Period + Grace
  BY <1>4, <1>5, <1>6, TimesAssumption
<1>10. ASSUME NEW a \in T, ~(\A u \in T : u <= a)
       PROVE  \E v \in T : v > a /\ 2 * (v - a) <= 3 * Period
  <2>1. a \in S /\ \A u \in S : u >= a => ~Broken(S, u)
    BY DEF Streak
  <2> DEFINE later == {v \in S : v > a}
  <2>2. later \in SUBSET Nat /\ later # {}
    <3>1. PICK u \in T : ~(u <= a)
      BY <1>10
    <3>2. u \in S /\ u \in Nat /\ a \in Nat
      BY <1>6, <2>1 DEF Streak
    <3>3. u \in later
      BY <3>1, <3>2
    <3> QED
      BY <1>6, <3>3
  <2>3. PICK v \in later : \A u \in later : v <= u
    BY <2>2, LeastNatural
  <2>4. v \in S /\ v > a /\ v \in Nat /\ a \in Nat
    BY <1>6, <2>1, <2>3
  <2>5. Follows(S, v, a)
    BY <2>3, <2>4 DEF Follows
  <2>6. ~(2 * (v - a) > 3 * Period)
    BY <2>1, <2>4, <2>5 DEF Broken
  <2>7. v \in T
    BY <1>6, <2>1, <2>4 DEF Streak
  <2> QED
    BY <2>4, <2>6, <2>7, TimesAssumption
<1>11. T \in SUBSET (0..now) /\ T \subseteq S
  BY <1>2 DEF Streak
<1>12. Cardinality(T) >= SustainedRuns
  BY <1>1 DEF Runs, S
<1> HIDE DEF T
<1>13. Evidence(T)
  BY <1>3, <1>8, <1>9, <1>10, <1>11, <1>12 DEF Evidence
<1> QED
  BY <1>11, <1>13

\* Also among runs that were started by hand or made up for, an ops alert is
\* never on without its number of hot runs in a row; what these can hide is the
\* clean or missing run between them.
THEOREM AlertsHaveEvidence == Spec => AlertHasEvidence
<1>1. TypeOK /\ Ordered /\ [Next]_vars
          => [mode = "ops" /\ "rule" \in due \ due' /\ told' =>
                \E T \in SUBSET (0..now) : Evidence(T)]_vars
  <2> SUFFICES ASSUME TypeOK, Ordered, [Next]_vars, mode = "ops",
                      "rule" \in due \ due', told'
               PROVE  \E T \in SUBSET (0..now) : Evidence(T)
    OBVIOUS
  <2>1. EvaluateOpsHot
    <3>1. ~EvaluateFinopsNew
      BY DEF EvaluateFinopsNew, Evaluate
    <3> QED
      BY <3>1, RuleStep
  <2>2. OpsHot
    BY <2>1 DEF EvaluateOpsHot, Evaluate
  <2> QED
    BY <2>2, StreakIsEvidence
<1> QED
  BY <1>1, TypeInit, TypeNext, OrderedInit, OrderedNext, PTL
     DEF Spec, AlertHasEvidence
=============================================================================
