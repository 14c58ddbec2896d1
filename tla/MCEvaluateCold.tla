--------------------------- MODULE MCEvaluateCold ---------------------------
(* Three metrics, the second inverted; windows of four points.  The order of *)
(* the points of a series has no effect, so each series is taken in order.   *)
EXTENDS EvaluateCold

Reading == {1, 2, 3, Missing}

\* Missing points last.
InOrder(s) ==
    \A i \in 1..3 :
        s[i + 1] # Missing => s[i] # Missing /\ s[i] <= s[i + 1]

EverySeries == {<<>>} \cup {s \in [1..4 -> Reading] : InOrder(s)}

\* TLC evaluates EverySeries once.
MCPoints == EverySeries

MCFinopsCold == [k \in Keys |-> 2]

\* Each metric without a tag, with one that raises its threshold, or with one
\* that is not a number.
MCTags == {<<Malformed, 3, NoTag>>, <<3, NoTag, Malformed>>,
           <<NoTag, Malformed, 3>>}
=============================================================================
