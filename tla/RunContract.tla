---------------------------- MODULE RunContract -----------------------------
(***************************************************************************)
(* What one evaluation run promises the reader of a findings table, before *)
(* any detail of how the run works: findings are collected first, a whole  *)
(* resource type at a time, and delivered only when collecting is over; a  *)
(* run that reports success has delivered every finding it collected, and  *)
(* only such a run or one that failed while writing leaves rows behind.    *)
(*                                                                         *)
(* Pipeline implements this module; see Pipeline!Contract.                 *)
(***************************************************************************)
CONSTANTS
    Rows        \* every row a run could write

VARIABLES
    stage,      \* "collecting", "delivering" or how the run ended
    collected,  \* rows the run has decided to report
    delivered   \* rows of this run in the findings table

vars == <<stage, collected, delivered>>

\* success: the run said so.  failed: it raised.  lost: it was stopped.
Ended == {"success", "failed", "lost"}

TypeOK ==
    /\ stage \in {"collecting", "delivering"} \cup Ended
    /\ collected \subseteq Rows
    /\ delivered \subseteq collected

Init ==
    /\ stage = "collecting"
    /\ collected = {}
    /\ delivered = {}

\* A resource type was evaluated to its end: all its rows, in one go.
Collect ==
    /\ stage = "collecting"
    /\ collected' \in SUBSET Rows
    /\ collected \subseteq collected'
    /\ UNCHANGED <<stage, delivered>>

StopCollecting ==
    /\ stage = "collecting"
    /\ stage' = "delivering"
    /\ UNCHANGED <<collected, delivered>>

\* The sink took some of the rows still owed.
Deliver ==
    /\ stage = "delivering"
    /\ delivered' \in SUBSET collected
    /\ delivered \subseteq delivered'
    /\ UNCHANGED <<stage, collected>>

Succeed ==
    /\ stage = "delivering"
    /\ delivered = collected
    /\ stage' = "success"
    /\ UNCHANGED <<collected, delivered>>

\* A raised error or a kill; nothing that was delivered is taken back.
Fail ==
    /\ stage \notin Ended
    /\ stage' \in {"failed", "lost"}
    /\ UNCHANGED <<collected, delivered>>

Next ==
    \/ Collect
    \/ StopCollecting
    \/ Deliver
    \/ Succeed
    \/ Fail

Spec == Init /\ [][Next]_vars
=============================================================================
