------------------------------ MODULE MCOneType -----------------------------
(***************************************************************************)
(* The run's part for one resource type: its rows are read, filtered and   *)
(* sized, the batches of what is kept are fetched, and what came back is   *)
(* judged.  One kept resource is followed from its row to its verdict, or  *)
(* until its batch fails.                                                  *)
(***************************************************************************)
EXTENDS MCFetchAll, MCResourceFacts

\* How a batch fares does not depend on what its rows say: the batches are
\* followed for one row, and left out (kept is empty) for the others.
AnyRow == [kind |-> "vm", state |-> Live["vm"], sku |-> "listed"]

OneTypeInit ==
    /\ Init
    /\ mode \in (IF kept = <<>> THEN {"ops", "finops"} ELSE {"finops"})
    /\ row \in (IF kept = <<>> THEN Rows ELSE {AnyRow})
    /\ load \in (IF kept = <<>> THEN Loads \cup {Missing} ELSE {0})
    /\ FactsInit

OfTheResource == step # "fetch" /\ FactsNext /\ UNCHANGED vars

OfABatch == step = "fetch" /\ (\E t \in TaskIds : Step(t)) /\ UNCHANGED facts

BatchesGathered == step = "fetch" /\ Gather /\ UNCHANGED facts

\* The resource followed is the first one kept.
ItsBatchAnswered ==
    /\ outcome # Pending
    /\ kept # <<>> => Head(kept) \in outcome.evaluable
    /\ Fetch
    /\ UNCHANGED vars

Dropped == step = "fetch" /\ Returned /\ UNCHANGED facts

OneTypeNext ==
    \/ OfTheResource
    \/ OfABatch
    \/ BatchesGathered
    \/ ItsBatchAnswered
    \/ Dropped

\* Beside what FetchAll assumes: the run does not stop before its batches.
OneType ==
    /\ OneTypeInit /\ [][OneTypeNext]_<<vars, facts>>
    /\ WF_<<vars, facts>>(OfTheResource)
    /\ WF_<<vars, facts>>(OfABatch)
    /\ WF_<<vars, facts>>(BatchesGathered)
=============================================================================
