------------------------------- MODULE MCAdvice -----------------------------
(***************************************************************************)
(* A resource's weeks of advice: evaluate_cold finds it idle, and from that *)
(* finding on its recommender is asked and its owner resizes it.           *)
(***************************************************************************)
EXTENDS MCEvaluateCold, MCResize

\* The loop judges readings, and the recommender takes what they come to: how
\* the one answers does not depend on the other.  Every resource and load is
\* followed from the finding of one evaluation, and the other evaluations are
\* of one resource.
Followed ==
    /\ min_coverage = 50
    /\ series = [k \in {1} |-> <<1, 1, 1, 1>>]
    /\ tags = <<NoTag, Malformed, 3>>

One == [kind |-> "vm", size |-> [sku |-> "B4ms", count |-> 1], traits |-> {}]
Little == [m \in Metrics |-> 1]

AdviceInit ==
    /\ ColdInit
    /\ resource \in (IF Followed THEN Resources ELSE {One})
    /\ load \in (IF Followed THEN [Metrics -> Loads] ELSE {Little})
    /\ Init

AdviceNext ==
    \/ ColdNext /\ UNCHANGED vars
    \/ Followed /\ result = "finding" /\ Next /\ UNCHANGED evaluation

Advice == AdviceInit /\ [][AdviceNext]_<<evaluation, vars>>
=============================================================================
