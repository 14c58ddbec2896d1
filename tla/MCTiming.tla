------------------------------ MODULE MCTiming ------------------------------
(***************************************************************************)
(* The two sides of a mode's timer.  On a VM its schedule is written as a  *)
(* systemd calendar.  A Functions host takes it as it is; there the runs   *)
(* are followed, and the rule that is evaluated over the rows they leave.  *)
(*                                                                         *)
(* Schedules in which one field, or the day and the weekday, take every    *)
(* form: values at both ends and just outside, names, steps, lists.        *)
(***************************************************************************)
EXTENDS Alerts, Ncrontab

Token(is, n) == [is |-> is, n |-> n]

Words(f) ==
    {Token("number", n) : n \in {0, 1, 3, 7, Highest(f), Highest(f) + 1}}
    \cup {Token("month", n) : n \in {0, 11}}
    \cup {Token("weekday", n) : n \in {0, 5}}
    \cup {Token("other", 0)}

Zero  == Token("number", 0)
Steps == {None, 0, 1, 2, 50}
Star(step) == [base |-> "star", from |-> Zero, to |-> Zero, step |-> step]
One(a, step) == [base |-> "one", from |-> a, to |-> Zero, step |-> step]
Range(a, b, step) == [base |-> "range", from |-> a, to |-> b, step |-> step]

PartsOf(f) ==
    {Star(step) : step \in Steps}
    \cup {One(a, step) : a \in Words(f), step \in Steps}
    \cup {Range(a, b, step) : a \in Words(f), b \in Words(f),
                              step \in {None, 2}}

\* A few parts, for lists and for pairs of fields.
FewOf(f) ==
    {Star(None), Star(2), One(Token("number", 1), None),
     One(Token("number", 2), 2), Range(Token("number", 1), Token("number", 4),
                                       None),
     Range(Token("number", Lowest(f)), Token("number", Highest(f)), None),
     Range(Token("number", 3), Token("number", Highest(f)), 3),
     One(Token("number", 7), None)}

Lists(f) == {<<p, q>> : p \in FewOf(f), q \in FewOf(f)}

Any   == <<Star(None)>>
Every == <<Any, Any, Any, Any, Any, Any>>

\* A host that converts none.
Unconverted == <<>>

MCSchedules ==
    UNION {{[Every EXCEPT ![i] = <<p>>] : p \in PartsOf(Names[i])} : i \in 1..6}
    \cup UNION {{[Every EXCEPT ![i] = l] : l \in Lists(Names[i])} : i \in 1..6}
    \cup {[Every EXCEPT ![Day] = l, ![Weekday] = <<p>>] :
              l \in Lists("day"), p \in FewOf("weekday")}
    \cup {[Every EXCEPT ![Day] = <<p>>, ![Weekday] = l] :
              p \in FewOf("day"), l \in Lists("weekday")}
    \cup {Tail(Every), Append(Every, Any), Unconverted}
-----------------------------------------------------------------------------
\* What the rules make of the runs does not depend on how the timer is
\* written.
TimingInit ==
    /\ ConversionInit
    /\ Init
    /\ schedule # Unconverted => mode = "ops" /\ phase = 1

TimingNext ==
    \/ schedule # Unconverted /\ ConversionNext /\ UNCHANGED vars
    \/ schedule = Unconverted /\ Next /\ UNCHANGED conversion

Timing == TimingInit /\ [][TimingNext]_<<vars, conversion>>
=============================================================================
