------------------------------ MODULE FetchAll ------------------------------
(***************************************************************************)
(* The metrics fan-out of one resource type: pipeline._fetch_all and       *)
(* _fetch_chunk.  Every batch is a coroutine; asyncio.gather starts them   *)
(* in order and waits for all of them, a semaphore admits max_concurrency  *)
(* at a time, and a batch whose query raises yields an error instead of    *)
(* stopping the others.                                                    *)
(*                                                                         *)
(* A coroutine runs alone until it awaits, so each action is the code from *)
(* one await to the next; the order in which answers arrive is free.       *)
(***************************************************************************)
EXTENDS Naturals, FiniteSets, Sequences, SequencesExt, Batching

CONSTANTS
    Resources,       \* resources of the type
    BatchSize,       \* settings.batch_size
    MaxConcurrency,  \* settings.max_concurrency
    Calls,           \* API calls per batch: one per distinct metric filter
    Pending          \* gather has not returned

ASSUME ResourcesAssumption == IsFiniteSet(Resources)

ASSUME SettingsAssumption ==
    /\ BatchSize \in Nat \ {0}
    /\ MaxConcurrency \in Nat \ {0}
    /\ Calls \in Nat \ {0}

ASSUME PendingAssumption ==
    Pending \notin [evaluable : SUBSET Resources,
                    failed : SUBSET SUBSET Resources]

VARIABLES
    kept,     \* the resources to fetch, in inventory order
    state,    \* state of each batch's coroutine
    free,     \* Semaphore._value
    waiters,  \* Semaphore._waiters
    calls,    \* API calls a batch still has to make
    outcome   \* what _run_type makes of the results

vars == <<kept, state, free, waiters, calls, outcome>>

TaskIds   == Heads(kept, BatchSize)
Batch(t)  == BatchOf(kept, t, BatchSize)
Before(t, u) == Earlier(kept, t, u)

States == {"created", "waiting", "woken", "querying", "ok", "failed"}

FirstOf(S) == {t \in S : \A u \in S : ~Before(u, t)}

In(S)   == {t \in DOMAIN state : state[t] \in S}
Holding == In({"woken", "querying"})

TypeOK ==
    /\ kept \in Seq(Resources)
    /\ state \in [TaskIds -> States]
    /\ free \in 0..MaxConcurrency
    /\ waiters \in Seq(TaskIds)
    /\ calls \in [TaskIds -> 0..Calls]
    /\ outcome = Pending \/ outcome \in [evaluable : SUBSET Resources,
                                         failed : SUBSET SUBSET Resources]

\* Resource Graph lists each resource once, in any order.
Init ==
    /\ kept \in SetToAllKPermutations(Resources)
    /\ state = [t \in TaskIds |-> "created"]
    /\ free = MaxConcurrency
    /\ waiters = << >>
    /\ calls = [t \in TaskIds |-> Calls]
    /\ outcome = Pending
-----------------------------------------------------------------------------
(* asyncio.Semaphore (CPython 3.11): a released slot is handed to the     *)
(* first waiter not yet woken, and nobody takes a slot while anyone waits. *)

\* Mutant: release() without waking anyone.
Release_NoWake(t, s) ==
    /\ state' = [state EXCEPT ![t] = s]
    /\ free' = free + 1

Locked == free = 0 \/ waiters # << >>

\* _wake_up_next: the first waiter whose future is not done, or none.
NextToWake == FirstOf(In({"waiting"}))

\* Coroutine t ends in state s and gives its slot back.
Release(t, s) ==
    /\ state' = [u \in TaskIds |->
                    IF u = t THEN s
                    ELSE IF u \in NextToWake THEN "woken" ELSE state[u]]
    /\ free' = IF NextToWake = {} THEN free + 1 ELSE free
-----------------------------------------------------------------------------
\* gather's tasks first run in the order they were created.
Start(t) ==
    /\ t \in FirstOf(In({"created"}))
    /\ IF Locked
       THEN /\ waiters' = Append(waiters, t)
            /\ state' = [state EXCEPT ![t] = "waiting"]
            /\ free' = free
       ELSE /\ free' = free - 1
            /\ state' = [state EXCEPT ![t] = "querying"]
            /\ waiters' = waiters
    /\ UNCHANGED <<kept, calls, outcome>>

\* Woken waiters are resumed in the order they were woken; one that finds a
\* slot free as it leaves the queue wakes the next.
Resume(t) ==
    /\ waiters # << >> /\ t = Head(waiters)
    /\ state[t] = "woken"
    /\ waiters' = Tail(waiters)
    /\ LET wake == IF free > 0 THEN NextToWake ELSE {}
       IN  /\ state' = [u \in TaskIds |->
                           IF u = t THEN "querying"
                           ELSE IF u \in wake THEN "woken" ELSE state[u]]
           /\ free' = IF wake = {} THEN free ELSE free - 1
    /\ UNCHANGED <<kept, calls, outcome>>

\* The loop polls for answers only when every task has had its first step.
Polling == In({"created"}) = {}

\* Mutant: the loop over filter groups does not end with the last group.
Answer_Again(t) ==
    /\ Polling
    /\ state[t] = "querying"
    /\ calls' = [calls EXCEPT ![t] = @ - 1]
    /\ UNCHANGED <<kept, state, free, waiters, outcome>>

\* One filter group of the batch answered, others follow.
Answer(t) ==
    /\ Polling
    /\ state[t] = "querying"
    /\ calls[t] > 1
    /\ calls' = [calls EXCEPT ![t] = @ - 1]
    /\ UNCHANGED <<kept, state, free, waiters, outcome>>

\* The last group answered: the batch has a series for every id it asked for.
Succeed(t) ==
    /\ Polling
    /\ state[t] = "querying"
    /\ calls[t] = 1
    /\ calls' = [calls EXCEPT ![t] = 0]
    /\ Release(t, "ok")
    /\ UNCHANGED <<kept, waiters, outcome>>

\* Mutant: the slot is released on success only (no `async with`).
Fail_KeepsSlot(t) ==
    /\ Polling \/ \A u \in TaskIds : state[u] # "created" => ~Before(t, u)
    /\ state[t] = "querying"
    /\ state' = [state EXCEPT ![t] = "failed"]
    /\ UNCHANGED <<kept, free, waiters, calls, outcome>>

\* Any call raised, maybe before its first await: what earlier calls of the
\* batch returned is dropped too.
Fail(t) ==
    /\ Polling \/ \A u \in TaskIds : state[u] # "created" => ~Before(t, u)
    /\ state[t] = "querying"
    /\ Release(t, "failed")
    /\ UNCHANGED <<kept, waiters, calls, outcome>>

\* Mutant: `if r.id in raw` forgotten.
Gather_AllEvaluable ==
    /\ outcome = Pending
    /\ \A t \in TaskIds : state[t] \in {"ok", "failed"}
    /\ outcome' = [evaluable |-> ToSet(kept),
                   failed |-> {Batch(t) : t \in In({"failed"})}]
    /\ UNCHANGED <<kept, state, free, waiters, calls>>

\* gather returns; _run_type keeps the resources some series came for and
\* counts and skips the batches that failed.
Gather ==
    /\ outcome = Pending
    /\ \A t \in TaskIds : state[t] \in {"ok", "failed"}
    /\ LET raw == UNION {Batch(t) : t \in In({"ok"})}
       IN  outcome' = [evaluable |-> {r \in ToSet(kept) : r \in raw},
                       failed |-> {Batch(t) : t \in In({"failed"})}]
    /\ UNCHANGED <<kept, state, free, waiters, calls>>

Step(t) == Start(t) \/ Resume(t) \/ Answer(t) \/ Succeed(t) \/ Fail(t)

Returned == outcome # Pending /\ UNCHANGED vars

Next == (\E t \in TaskIds : Step(t)) \/ Gather \/ Returned

Spec == Init /\ [][Next]_vars

\* The event loop runs what is ready, and every call answers or times out.
FairSpec ==
    /\ Spec
    /\ WF_vars(\E t \in TaskIds : Step(t))
    /\ WF_vars(Gather)
-----------------------------------------------------------------------------
(* Properties.                                                             *)

\* Never more than max_concurrency queries in flight, slots handed over to a
\* waiter that has not resumed yet included; no slot is lost by a failure.
ConcurrencyBound ==
    /\ free + Cardinality(Holding) = MaxConcurrency
    /\ Cardinality(In({"querying"})) <= MaxConcurrency

\* No slot idles while a batch waits for one.
NoIdleSlot == free > 0 => In({"waiting"}) = {}

\* gather returns once, and with what Pipeline!Fetch assumes of it: of some
\* batching of the kept resources some whole batches failed, and every other
\* resource is evaluable.
ImplementsFetch ==
    [][LET batches == {Batch(t) : t \in TaskIds}
       IN  /\ outcome = Pending /\ outcome' # Pending
           /\ IsBatching(batches, ToSet(kept), BatchSize)
           /\ outcome'.failed \subseteq batches
           /\ outcome'.evaluable = ToSet(kept) \ UNION outcome'.failed
      ]_outcome

\* However many batches fail, the fan-out returns.
Settles == <>(outcome # Pending)
=============================================================================
