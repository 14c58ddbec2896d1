------------------------------ MODULE Batching ------------------------------
(***************************************************************************)
(* How pipeline._fetch_all splits the kept resources of one type into      *)
(* metrics:getBatch calls: grouped by (subscription, region), each group   *)
(* cut into slices of batch_size resources, in inventory order.            *)
(*                                                                         *)
(* A batch is named by the position of its first resource in the inventory *)
(* order.  IsBatching says what the cut must deliver; FetchAll is checked  *)
(* against it, and Pipeline relies on it alone.                            *)
(***************************************************************************)
EXTENDS Naturals, FiniteSets, Sequences

\* The key a metrics call is bound to: r.subscription_id and r.location.
Group(r) == <<r.sub, r.region>>

SameGroup(kept, i, j) == Group(kept[i]) = Group(kept[j])

\* The place of kept[i] in the list of its group, from 0.
Rank(kept, i) == Cardinality({j \in 1..(i - 1) : SameGroup(kept, i, j)})

\* chunk(ids, size) cuts at 0, size, 2 * size, ...
Heads(kept, size) == {i \in DOMAIN kept : Rank(kept, i) % size = 0}

\* ids[k : k + size], for the slice that kept[i] is in.
BatchOf(kept, i, size) ==
    {kept[j] : j \in {k \in DOMAIN kept :
        /\ SameGroup(kept, i, k)
        /\ Rank(kept, k) \div size = Rank(kept, i) \div size}}

\* The order the batches are created in: groups in the order of their first
\* resource (a dict keeps insertion order), slices in order.
Earlier(kept, g, h) ==
    IF SameGroup(kept, g, h)
    THEN g < h
    ELSE \E i \in DOMAIN kept :
            /\ SameGroup(kept, g, i)
            /\ \A j \in DOMAIN kept : SameGroup(kept, h, j) => i < j

\* P cuts the set S as the code does: every resource in exactly one batch, no
\* batch mixes groups or exceeds size, and at most one batch of a group is
\* not full.
IsBatching(P, S, size) ==
    /\ UNION P = S
    /\ {} \notin P
    /\ \A A, B \in P : A # B => A \cap B = {}
    /\ \A A \in P : Cardinality(A) <= size
    /\ \A A \in P : \A q, r \in A : Group(q) = Group(r)
    /\ \A A, B \in P :
          (A # B /\ \E q \in A, r \in B : Group(q) = Group(r))
              => Cardinality(A) = size \/ Cardinality(B) = size

Batchings(S, size) == {P \in SUBSET SUBSET S : IsBatching(P, S, size)}
=============================================================================
