------------------------- MODULE Resources_proofs --------------------------
(***************************************************************************)
(* What a run does with the resources of one type: how they are cut and    *)
(* fetched, for any number of resources, any batch size, any number of     *)
(* slots and any number of calls per batch, and how one of them is judged, *)
(* for any row, load, thresholds, unit rates and catalogs.                 *)
(*                                                                         *)
(* First FetchAll.  A released slot must reach exactly one waiter: that    *)
(* there is one first waiter rests on the order of the batches being       *)
(* total, and that on every batch group having a first resource.           *)
(*                                                                         *)
(* Then ResourceFacts.  Its operators are unfolded one at a time (ParseIs  *)
(* to AdviceIs), so that a question about a resource is one about its row; *)
(* Followable keeps, along the run, what the row says.                     *)
(***************************************************************************)
EXTENDS FetchAll, ResourceFacts, FiniteSetTheorems, SequenceTheorems,
        WellFoundedInduction, TLAPS

-----------------------------------------------------------------------------
(* The order of the batches.                                               *)

\* A set of naturals that is not empty has a least element.
LEMMA LeastNatural ==
    ASSUME NEW S \in SUBSET Nat, S # {}
    PROVE  \E m \in S : \A n \in S : m <= n
<1>1. PICK m \in S : \A n \in S : <<n, m>> \notin OpToRel(<, Nat)
  BY NatLessThanWellFounded, WFMin
<1>2. \A n \in S : ~(n < m)
  BY <1>1 DEF OpToRel
<1> QED
  BY <1>2

\* Of two batches of different groups, the one whose group was met first is
\* earlier; of two batches of one group, the one cut first.
LEMMA EarlierTotal ==
    ASSUME NEW s \in Seq(Resources), NEW g \in DOMAIN s, NEW h \in DOMAIN s,
           g # h
    PROVE  Earlier(s, g, h) \/ Earlier(s, h, g)
<1>0. DOMAIN s \subseteq Nat
  OBVIOUS
<1>1. CASE SameGroup(s, g, h)
  <2>1. g < h \/ h < g
    BY <1>0
  <2> QED
    BY <1>1, <2>1 DEF Earlier, SameGroup
<1>2. CASE ~SameGroup(s, g, h)
  <2> DEFINE G == {i \in DOMAIN s : SameGroup(s, g, i)}
             H == {i \in DOMAIN s : SameGroup(s, h, i)}
  <2>1. G \in SUBSET Nat /\ H \in SUBSET Nat /\ g \in G /\ h \in H
    BY <1>0 DEF SameGroup
  <2>2. PICK i \in G : \A k \in G : i <= k
    BY <2>1, LeastNatural
  <2>3. PICK j \in H : \A k \in H : j <= k
    BY <2>1, LeastNatural
  <2>4. i # j
    BY <1>2 DEF SameGroup
  <2>5. i \in Nat /\ j \in Nat /\ H \subseteq Nat /\ G \subseteq Nat
    BY <2>1
  <2>6. CASE i < j
    <3>1. \A k \in DOMAIN s : SameGroup(s, h, k) => i < k
      BY <2>3, <2>5, <2>6
    <3> QED
      BY <1>2, <3>1 DEF Earlier
  <2>7. CASE j < i
    <3>1. \A k \in DOMAIN s : SameGroup(s, g, k) => j < k
      BY <2>2, <2>5, <2>7
    <3>2. ~SameGroup(s, h, g)
      BY <1>2 DEF SameGroup
    <3> QED
      BY <3>1, <3>2 DEF Earlier
  <2> QED
    BY <2>4, <2>5, <2>6, <2>7
<1> QED
  BY <1>1, <1>2

\* No two batches are each earlier than the other.
LEMMA EarlierAsymmetric ==
    ASSUME NEW s \in Seq(Resources), NEW g \in DOMAIN s, NEW h \in DOMAIN s,
           Earlier(s, g, h)
    PROVE  ~Earlier(s, h, g)
<1>1. CASE SameGroup(s, g, h)
  BY <1>1 DEF Earlier, SameGroup
<1>2. CASE ~SameGroup(s, g, h)
  <2>1. ~SameGroup(s, h, g)
    BY <1>2 DEF SameGroup
  <2>2. PICK i \in DOMAIN s : /\ SameGroup(s, g, i)
                              /\ \A j \in DOMAIN s : SameGroup(s, h, j) => i < j
    BY <1>2 DEF Earlier
  <2>3. SUFFICES ASSUME NEW k \in DOMAIN s, SameGroup(s, h, k),
                        \A j \in DOMAIN s : SameGroup(s, g, j) => k < j
                 PROVE  FALSE
    BY <2>1 DEF Earlier
  <2>4. i < k /\ k < i
    BY <2>2, <2>3
  <2> QED
    BY <2>4
<1> QED
  BY <1>1, <1>2
-----------------------------------------------------------------------------
(* Types.                                                                  *)

\* A run starts well typed.
LEMMA TypedInit == Init => TypeOK
<1> SUFFICES ASSUME Init PROVE TypeOK
  OBVIOUS
<1>1. kept \in Seq(Resources)
  <2>1. PICK S \in SUBSET Resources : kept \in SetToSeqs(S)
    BY DEF Init, SetToAllKPermutations
  <2>2. IsFiniteSet(S)
    BY ResourcesAssumption, FS_Subset
  <2>3. Cardinality(S) \in Nat
    BY <2>2, FS_CardinalityType
  <2>4. kept \in [1..Cardinality(S) -> S]
    BY <2>1 DEF SetToSeqs
  <2> QED
    BY <2>3, <2>4
<1> QED
  BY <1>1, SettingsAssumption DEF Init, TypeOK, States

\* The first batch of a set, if there is one, is one of the set.
LEMMA NextToWakeType == NextToWake \subseteq In({"waiting"})
  BY DEF NextToWake, FirstOf

\* Releasing a slot keeps the states and the counter well typed.
LEMMA ReleaseType ==
    ASSUME TypeOK, NEW t \in TaskIds, NEW s \in States, Release(t, s)
    PROVE  state' \in [TaskIds -> States]
  BY DEF Release, TypeOK, States

\* Every step that does not move a slot keeps the run well typed; the bound on
\* the free slots comes with SlotsNext.
LEMMA TypedNext ==
    ASSUME TypeOK, [Next]_vars
    PROVE  /\ kept' \in Seq(Resources)
           /\ TaskIds' = TaskIds
           /\ state' \in [TaskIds -> States]
           /\ waiters' \in Seq(TaskIds)
           /\ calls' \in [TaskIds -> 0..Calls]
           /\ outcome' = Pending \/ outcome' \in
                  [evaluable : SUBSET Resources,
                   failed : SUBSET SUBSET Resources]
<1>0. kept' = kept
  BY DEF Next, Step, Start, Resume, Answer, Succeed, Fail, Gather, Returned,
         vars
<1>a. TaskIds' = TaskIds
  BY <1>0 DEF TaskIds
<1>1. ASSUME NEW t \in TaskIds, Start(t)
      PROVE  /\ state' \in [TaskIds -> States]
             /\ waiters' \in Seq(TaskIds)
             /\ calls' = calls /\ outcome' = outcome
  <2>1. CASE Locked
    <3>1. /\ waiters' = Append(waiters, t)
          /\ state' = [state EXCEPT ![t] = "waiting"]
          /\ calls' = calls /\ outcome' = outcome
      BY <1>1, <2>1 DEF Start
    <3>2. waiters' \in Seq(TaskIds)
      BY <3>1 DEF TypeOK
    <3> QED
      BY <3>1, <3>2 DEF TypeOK, States
  <2>2. CASE ~Locked
    BY <1>1, <2>2 DEF Start, TypeOK, States
  <2> QED
    BY <2>1, <2>2
<1>2. ASSUME NEW t \in TaskIds, Resume(t)
      PROVE  /\ state' \in [TaskIds -> States]
             /\ waiters' \in Seq(TaskIds)
             /\ calls' = calls /\ outcome' = outcome
  BY <1>2 DEF Resume, TypeOK, States
<1>3. ASSUME NEW t \in TaskIds, Answer(t)
      PROVE  /\ state' = state /\ waiters' = waiters /\ outcome' = outcome
             /\ calls' \in [TaskIds -> 0..Calls]
  BY <1>3, SettingsAssumption DEF Answer, TypeOK
<1>4. ASSUME NEW t \in TaskIds, Succeed(t)
      PROVE  /\ state' \in [TaskIds -> States]
             /\ waiters' = waiters /\ outcome' = outcome
             /\ calls' \in [TaskIds -> 0..Calls]
  BY <1>4, ReleaseType, SettingsAssumption DEF Succeed, TypeOK, States
<1>5. ASSUME NEW t \in TaskIds, Fail(t)
      PROVE  /\ state' \in [TaskIds -> States]
             /\ waiters' = waiters /\ calls' = calls /\ outcome' = outcome
  BY <1>5, ReleaseType DEF Fail, States
<1>6. CASE Gather
  <2>1. \A t \in TaskIds : Batch(t) \in SUBSET Resources
    BY DEF TypeOK, Batch, BatchOf
  <2>2. /\ UNION {Batch(t) : t \in In({"ok"})} \in SUBSET Resources
        /\ {Batch(t) : t \in In({"failed"})} \in SUBSET SUBSET Resources
    BY <2>1 DEF In, TypeOK
  <2>3. /\ outcome'.evaluable \subseteq Resources
        /\ outcome' \in [evaluable : SUBSET Resources,
                         failed : SUBSET SUBSET Resources]
    BY <1>6, <2>2 DEF Gather, ToSet, TypeOK
  <2> QED
    BY <1>0, <1>a, <1>6, <2>3 DEF Gather, TypeOK
<1>7. CASE UNCHANGED vars
  BY <1>7, <1>a DEF vars, TypeOK
<1> QED
  BY <1>0, <1>a, <1>1, <1>2, <1>3, <1>4, <1>5, <1>6, <1>7
     DEF Next, Step, Returned, TypeOK
-----------------------------------------------------------------------------
(* The semaphore.                                                          *)

\* Batches are numbered, so any set of them can be counted.
LEMMA TaskSets ==
    ASSUME TypeOK
    PROVE  /\ TaskIds \subseteq DOMAIN kept
           /\ \A S \in SUBSET TaskIds :
                  IsFiniteSet(S) /\ Cardinality(S) \in Nat
<1>1. TaskIds \subseteq 1..Len(kept) /\ Len(kept) \in Nat
  BY DEF TypeOK, TaskIds, Heads
<1>2. IsFiniteSet(1..Len(kept))
  BY <1>1, FS_Interval
<1>3. \A S \in SUBSET TaskIds : IsFiniteSet(S)
  BY <1>1, <1>2, FS_Subset
<1> QED
  BY <1>1, <1>3, FS_CardinalityType DEF TypeOK

\* At most one batch is first.
LEMMA FirstIsUnique ==
    ASSUME TypeOK, NEW S \in SUBSET TaskIds, NEW t \in FirstOf(S),
           NEW u \in FirstOf(S)
    PROVE  t = u
<1>1. t \in DOMAIN kept /\ u \in DOMAIN kept /\ kept \in Seq(Resources)
  BY TaskSets DEF FirstOf, TypeOK
<1>2. ~Before(t, u) /\ ~Before(u, t)
  BY DEF FirstOf
<1> QED
  BY <1>1, <1>2, EarlierTotal DEF Before

\* So a released slot wakes nobody or one waiter.
LEMMA WakesOne ==
    ASSUME TypeOK
    PROVE  NextToWake = {} \/ \E u \in TaskIds : NextToWake = {u}
<1>1. In({"waiting"}) \in SUBSET TaskIds
  BY DEF In, TypeOK
<1>2. \A t, u \in NextToWake : t = u
  BY <1>1, FirstIsUnique DEF NextToWake
<1>3. NextToWake \in SUBSET TaskIds
  BY <1>1, NextToWakeType
<1> QED
  BY <1>2, <1>3

\* Giving a slot back passes it to one waiter or frees it: slots in use and
\* free slots add up to the same number.
LEMMA ReleaseKeepsSlots ==
    ASSUME TypeOK, ConcurrencyBound, NEW t \in TaskIds,
           NEW s \in {"ok", "failed"},
           state[t] = "querying", Release(t, s), TaskIds' = TaskIds
    PROVE  /\ free' \in Nat
           /\ free' + Cardinality(Holding') = MaxConcurrency
<1> DEFINE rest == Holding \ {t}
<1>0. /\ Holding \in SUBSET TaskIds /\ t \in Holding /\ free \in Nat
      /\ state \in [TaskIds -> States]
      /\ NextToWake \in SUBSET TaskIds
      /\ NextToWake \cap Holding = {}
  BY NextToWakeType DEF TypeOK, Holding, In
<1>1. Holding' = rest \cup NextToWake
  BY <1>0, NextToWakeType DEF Release, Holding, In
<1>2. /\ IsFiniteSet(Holding) /\ Cardinality(Holding) \in Nat
      /\ IsFiniteSet(rest) /\ Cardinality(rest) \in Nat
  BY <1>0, TaskSets
<1>3. Cardinality(rest) = Cardinality(Holding) - 1
  BY <1>0, <1>2, FS_RemoveElement
<1>4. CASE NextToWake = {}
  BY <1>0, <1>1, <1>2, <1>3, <1>4 DEF Release, ConcurrencyBound
<1>5. CASE NextToWake # {}
  <2>1. PICK u \in TaskIds : NextToWake = {u}
    BY <1>5, WakesOne
  <2>2. u \notin rest
    BY <1>0, <2>1
  <2>3. Cardinality(Holding') = Cardinality(rest) + 1
    BY <1>1, <1>2, <2>1, <2>2, FS_AddElement
  <2> QED
    BY <1>0, <1>2, <1>3, <1>5, <2>3 DEF Release, ConcurrencyBound
<1> QED
  BY <1>4, <1>5

\* Every step keeps the number of slots.
LEMMA SlotsNext ==
    ASSUME TypeOK, ConcurrencyBound, [Next]_vars
    PROVE  /\ free' \in Nat
           /\ free' + Cardinality(Holding') = MaxConcurrency
<1>0. /\ TaskIds' = TaskIds
      /\ free \in Nat /\ MaxConcurrency \in Nat
      /\ state \in [TaskIds -> States]
      /\ Holding \in SUBSET TaskIds
      /\ IsFiniteSet(Holding)
      /\ Cardinality(Holding) \in Nat
      /\ free + Cardinality(Holding) = MaxConcurrency
  <2>1. Holding \in SUBSET TaskIds
    BY DEF Holding, In, TypeOK
  <2> QED
    BY <2>1, TypedNext, TaskSets, SettingsAssumption
       DEF TypeOK, ConcurrencyBound
<1>1. ASSUME NEW t \in TaskIds, Start(t)
      PROVE  free' \in Nat /\ free' + Cardinality(Holding') = MaxConcurrency
  <2>1. state[t] = "created" /\ t \notin Holding
    BY <1>1 DEF Start, FirstOf, In, Holding
  <2>2. CASE Locked
    <3>1. Holding' = Holding /\ free' = free
      BY <1>0, <1>1, <2>1, <2>2 DEF Start, Holding, In
    <3> QED
      BY <1>0, <3>1
  <2>3. CASE ~Locked
    <3>1. Holding' = Holding \cup {t} /\ free' = free - 1 /\ free # 0
      BY <1>0, <1>1, <2>1, <2>3 DEF Start, Holding, In, Locked
    <3>2. Cardinality(Holding') = Cardinality(Holding) + 1
      BY <1>0, <2>1, <3>1, FS_AddElement
    <3> QED
      BY <1>0, <3>1, <3>2
  <2> QED
    BY <2>2, <2>3
<1>2. ASSUME NEW t \in TaskIds, Resume(t)
      PROVE  free' \in Nat /\ free' + Cardinality(Holding') = MaxConcurrency
  <2> DEFINE wake == IF free > 0 THEN NextToWake ELSE {}
  <2>1. /\ state' = [u \in TaskIds |->
                       IF u = t THEN "querying"
                       ELSE IF u \in wake THEN "woken" ELSE state[u]]
        /\ free' = IF wake = {} THEN free ELSE free - 1
        /\ state[t] = "woken"
    BY <1>2 DEF Resume
  <2>2. /\ wake \in SUBSET In({"waiting"}) /\ wake \cap Holding = {}
        /\ wake \in SUBSET TaskIds
    BY <1>0, NextToWakeType DEF In, Holding
  <2>3. Holding' = Holding \cup wake
    BY <1>0, <2>1, <2>2 DEF Holding, In
  <2>4. CASE wake = {}
    BY <1>0, <2>1, <2>3, <2>4
  <2>5. CASE wake # {}
    <3>1. free > 0 /\ wake = NextToWake
      BY <2>5
    <3>2. PICK u \in TaskIds : wake = {u}
      BY <2>5, <3>1, WakesOne
    <3>3. u \notin Holding
      BY <2>2, <3>2
    <3> HIDE DEF wake
    <3>4. Cardinality(Holding') = Cardinality(Holding) + 1
      BY <1>0, <2>3, <3>2, <3>3, FS_AddElement
    <3> QED
      BY <1>0, <2>1, <2>5, <3>1, <3>4
  <2> QED
    BY <2>4, <2>5
<1>3. ASSUME NEW t \in TaskIds, Succeed(t) \/ Fail(t)
      PROVE  free' \in Nat /\ free' + Cardinality(Holding') = MaxConcurrency
  BY <1>0, <1>3, ReleaseKeepsSlots DEF Succeed, Fail
<1>4. ASSUME UNCHANGED <<state, free>>
      PROVE  free' \in Nat /\ free' + Cardinality(Holding') = MaxConcurrency
  BY <1>0, <1>4 DEF Holding, In
<1> QED
  BY <1>1, <1>2, <1>3, <1>4
     DEF Next, Step, Answer, Gather, Returned, vars

\* A counted slot is never lost nor invented.
LEMMA SlotsKept == TypeOK /\ ConcurrencyBound /\ [Next]_vars
                       => TypeOK' /\ ConcurrencyBound'
<1> SUFFICES ASSUME TypeOK, ConcurrencyBound, [Next]_vars
             PROVE  TypeOK' /\ ConcurrencyBound'
  OBVIOUS
<1>1. /\ TaskIds' = TaskIds
      /\ state' \in [TaskIds -> States]
      /\ free' \in Nat
      /\ free' + Cardinality(Holding') = MaxConcurrency
  BY TypedNext, SlotsNext
<1>2. Holding' \in SUBSET TaskIds /\ In({"querying"})' \subseteq Holding'
  BY <1>1 DEF Holding, In
<1>3. IsFiniteSet(Holding') /\ Cardinality(Holding') \in Nat
  BY <1>2, TaskSets
<1>4. Cardinality(In({"querying"})') <= Cardinality(Holding')
  BY <1>2, <1>3, FS_Subset
<1>5. Cardinality(In({"querying"})') \in Nat
  BY <1>1, <1>2, TaskSets
<1>6. free' \in 0..MaxConcurrency
  BY <1>1, <1>3, SettingsAssumption
<1> QED
  BY <1>1, <1>3, <1>4, <1>5, <1>6, TypedNext, SettingsAssumption
     DEF TypeOK, ConcurrencyBound

\* At the start every slot is free.
LEMMA SlotsInit == Init => ConcurrencyBound
<1> SUFFICES ASSUME Init PROVE ConcurrencyBound
  OBVIOUS
<1>1. Holding = {} /\ In({"querying"}) = {}
  BY DEF Init, Holding, In
<1> QED
  BY <1>1, FS_EmptySet, SettingsAssumption DEF Init, ConcurrencyBound

\* Type correctness of the fan-out, the range of Semaphore._value included.
THEOREM TypeCorrect == Spec => []TypeOK
  BY TypedInit, SlotsInit, SlotsKept, PTL DEF Spec

\* Never more than max_concurrency metrics calls are in flight, and every slot
\* is either free or held by one batch, whatever fails (`async with sem`).
THEOREM NeverTooMany == Spec => []ConcurrencyBound
  BY TypedInit, SlotsInit, SlotsKept, PTL DEF Spec
-----------------------------------------------------------------------------
(* No slot idles.                                                          *)

\* Among batches there is a first one.
LEMMA FirstExists ==
    ASSUME TypeOK, NEW S \in SUBSET TaskIds, S # {}
    PROVE  FirstOf(S) # {}
<1> DEFINE reached == {i \in DOMAIN kept :
                           \E t \in S : SameGroup(kept, t, i)}
<1>0. DOMAIN kept \subseteq Nat /\ S \subseteq DOMAIN kept
  BY TaskSets DEF TypeOK
<1>1. reached \in SUBSET Nat /\ reached # {}
  BY <1>0 DEF SameGroup
<1>2. PICK i \in reached : \A k \in reached : i <= k
  BY <1>1, LeastNatural
<1> DEFINE group == {t \in S : SameGroup(kept, t, i)}
<1>3. group \in SUBSET Nat /\ group # {}
  BY <1>0, <1>2
<1>4. PICK t \in group : \A u \in group : t <= u
  BY <1>3, LeastNatural
<1>5. ASSUME NEW u \in S, Before(u, t)
      PROVE  FALSE
  <2>1. t \in Nat /\ u \in Nat /\ i \in Nat /\ SameGroup(kept, t, i)
    BY <1>0, <1>2, <1>4
  <2>2. CASE SameGroup(kept, u, t)
    <3>1. u < t /\ u \in group
      BY <1>5, <2>1, <2>2 DEF Before, Earlier, SameGroup
    <3> QED
      BY <1>4, <2>1, <3>1
  <2>3. CASE ~SameGroup(kept, u, t)
    <3>1. PICK k \in DOMAIN kept : /\ SameGroup(kept, u, k)
                                   /\ \A j \in DOMAIN kept :
                                          SameGroup(kept, t, j) => k < j
      BY <1>5, <2>3 DEF Before, Earlier
    <3>2. k < i /\ k \in reached /\ k \in Nat
      BY <1>0, <1>2, <2>1, <3>1
    <3> QED
      BY <1>2, <2>1, <3>2
  <2> QED
    BY <2>2, <2>3
<1> QED
  BY <1>4, <1>5 DEF FirstOf

\* While coroutines are still being started, in order, nobody has been woken;
\* the only way to free a slot is that the one just started fails before its
\* first await, and then nobody waits.
Starting ==
    /\ \A t, u \in TaskIds :
           state[u] = "created" /\ state[t] # "created" => Before(t, u)
    /\ In({"created"}) # {} =>
           /\ In({"woken"}) = {}
           /\ waiters # << >> => free = 0
           /\ \A t \in In({"querying"}) :
                  (\A u \in TaskIds : state[u] # "created" => ~Before(t, u))
                      => waiters = << >>

\* Whoever waits is in the semaphore's queue.
Queued == \A t \in In({"waiting", "woken"}) :
              \E i \in DOMAIN waiters : waiters[i] = t

NoIdle == Starting /\ Queued /\ NoIdleSlot

\* At the start the window is filled.
LEMMA NoIdleInit == Init => NoIdle
  BY DEF Init, NoIdle, Starting, Queued, NoIdleSlot, In

\* While coroutines are being started, a released slot is simply free.
LEMMA ReleaseKeepsBusy ==
    ASSUME TypeOK, NoIdle, NEW t \in TaskIds, NEW s \in {"ok", "failed"},
           state[t] = "querying", Release(t, s),
           Polling \/ \A u \in TaskIds : state[u] # "created" => ~Before(t, u),
           waiters' = waiters, kept' = kept
    PROVE  NoIdle'
<1>0. /\ state \in [TaskIds -> States] /\ TaskIds' = TaskIds
      /\ NextToWake \subseteq In({"waiting"})
      /\ In({"waiting"}) \in SUBSET TaskIds
      /\ state' = [u \in TaskIds |->
                     IF u = t THEN s
                     ELSE IF u \in NextToWake THEN "woken" ELSE state[u]]
      /\ free' = IF NextToWake = {} THEN free + 1 ELSE free
      /\ free \in Nat
  BY NextToWakeType DEF TypeOK, In, Release, TaskIds
<1>1. NextToWake = {} => In({"waiting"}) = {}
  BY <1>0, FirstExists DEF NextToWake
<1>2. NoIdleSlot'
  <2>1. CASE NextToWake = {}
    BY <1>0, <1>1, <2>1 DEF NoIdleSlot, In
  <2>2. CASE NextToWake # {}
    <3>1. ~(free > 0)
      BY <1>0, <2>2 DEF NoIdle, NoIdleSlot
    <3> QED
      BY <1>0, <2>2, <3>1 DEF NoIdleSlot
  <2> QED
    BY <2>1, <2>2
<1>3. Queued'
  BY <1>0 DEF NoIdle, Queued, In
<1>4. CASE Polling
  <2>1. \A u \in TaskIds : state[u] # "created"
    BY <1>0, <1>4 DEF Polling, In
  <2>2. \A u \in TaskIds : state'[u] # "created"
    BY <1>0, <2>1
  <2> QED
    BY <1>0, <1>2, <1>3, <2>2 DEF NoIdle, Starting, In
<1>5. CASE ~Polling
  <2>1. In({"created"}) # {} /\ waiters = << >>
    BY <1>0, <1>5 DEF Polling, NoIdle, Starting, In
  <2>2. In({"waiting"}) = {} /\ In({"woken"}) = {}
    BY <2>1 DEF NoIdle, Queued, In
  <2>3. state' = [u \in TaskIds |-> IF u = t THEN s ELSE state[u]]
    BY <1>0, <2>2
  <2>4. \A u \in TaskIds : state'[u] = "created" <=> state[u] = "created"
    BY <1>0, <2>3
  <2>5. In({"woken"})' = {}
    BY <1>0, <2>2, <2>3 DEF In
  <2>6. \A u, v \in TaskIds : Before(u, v)' <=> Before(u, v)
    BY DEF Before
  <2>7. \A u, v \in TaskIds' :
            state'[v] = "created" /\ state'[u] # "created" => Before(u, v)'
    BY <1>0, <2>4, <2>6 DEF NoIdle, Starting
  <2>8. Starting'
    BY <2>1, <2>5, <2>7 DEF Starting
  <2> QED
    BY <1>2, <1>3, <2>8 DEF NoIdle
<1> QED
  BY <1>4, <1>5

\* A coroutine that starts takes a free slot or queues behind taken ones.
LEMMA StartKeepsBusy ==
    ASSUME TypeOK, NoIdle, NEW t \in TaskIds, Start(t)
    PROVE  NoIdle'
<1>0. /\ state \in [TaskIds -> States] /\ kept' = kept /\ TaskIds' = TaskIds
      /\ state[t] = "created" /\ t \in FirstOf(In({"created"}))
      /\ waiters \in Seq(TaskIds) /\ free \in Nat
      /\ \A u, v \in TaskIds : Before(u, v)' <=> Before(u, v)
  BY DEF Start, FirstOf, In, TypeOK, TaskIds, Before
<1>1. /\ In({"woken"}) = {}
      /\ waiters # << >> => free = 0
      /\ t \in In({"created"})
  BY <1>0 DEF NoIdle, Starting, In
<1>2. \A u \in TaskIds : state[u] = "created" /\ u # t => Before(t, u)
  <2> SUFFICES ASSUME NEW u \in TaskIds, state[u] = "created", u # t
               PROVE  Before(t, u)
    OBVIOUS
  <2>1. ~Before(u, t)
    BY <1>0 DEF FirstOf, In
  <2>2. t \in DOMAIN kept /\ u \in DOMAIN kept /\ kept \in Seq(Resources)
    BY TaskSets DEF TypeOK
  <2> QED
    BY <2>1, <2>2, EarlierTotal DEF Before
<1>3. \A u \in TaskIds : state[u] # "created" => Before(u, t)
  BY <1>0 DEF NoIdle, Starting
<1>4. ASSUME NEW s \in {"waiting", "querying"},
             state' = [state EXCEPT ![t] = s]
      PROVE  \A u, v \in TaskIds' :
                 state'[v] = "created" /\ state'[u] # "created"
                     => Before(u, v)'
  BY <1>0, <1>2, <1>4 DEF NoIdle, Starting
<1>5. CASE Locked
  <2>1. /\ state' = [state EXCEPT ![t] = "waiting"]
        /\ waiters' = Append(waiters, t)
        /\ free' = free /\ free = 0
    BY <1>0, <1>1, <1>5 DEF Start, Locked
  <2>2. Queued'
    <3> SUFFICES ASSUME NEW u \in In({"waiting", "woken"})'
                 PROVE  \E i \in DOMAIN waiters' : waiters'[i] = u
      BY DEF Queued
    <3>1. CASE u = t
      BY <1>0, <2>1, <3>1
    <3>2. CASE u # t
      <4>1. u \in In({"waiting", "woken"})
        BY <1>0, <2>1, <3>2 DEF In
      <4>2. PICK i \in DOMAIN waiters : waiters[i] = u
        BY <4>1 DEF NoIdle, Queued
      <4> QED
        BY <1>0, <2>1, <4>2
    <3> QED
      BY <3>1, <3>2
  <2>3. In({"woken"})' = {}
    BY <1>0, <1>1, <2>1 DEF In
  <2>4. \A u \in In({"querying"})' :
            \E v \in TaskIds' : state'[v] # "created" /\ Before(u, v)'
    <3> SUFFICES ASSUME NEW u \in In({"querying"})'
                 PROVE  state'[t] # "created" /\ Before(u, t)'
      BY <1>0
    <3>1. u \in TaskIds /\ state[u] = "querying"
      BY <1>0, <2>1 DEF In
    <3> QED
      BY <1>0, <1>3, <2>1, <3>1
  <2>5. Starting'
    BY <1>4, <2>1, <2>3, <2>4 DEF Starting
  <2>6. NoIdleSlot'
    BY <2>1 DEF NoIdleSlot
  <2> QED
    BY <2>2, <2>5, <2>6 DEF NoIdle
<1>6. CASE ~Locked
  <2>1. /\ state' = [state EXCEPT ![t] = "querying"]
        /\ waiters' = << >> /\ waiters = << >>
        /\ free' = free - 1 /\ free > 0
    BY <1>0, <1>6 DEF Start, Locked
  <2>2. In({"waiting", "woken"}) = {}
    BY <2>1 DEF NoIdle, Queued
  <2>3. In({"waiting", "woken"})' = {}
    BY <1>0, <2>1, <2>2 DEF In
  <2>4. In({"waiting"})' = {} /\ In({"woken"})' = {}
    BY <2>3 DEF In
  <2>5. Starting'
    BY <1>4, <2>1, <2>4 DEF Starting
  <2> QED
    BY <2>3, <2>4, <2>5 DEF NoIdle, Queued, NoIdleSlot
<1> QED
  BY <1>5, <1>6

\* A waiter that resumes leaves the queue; the others stay in it.
LEMMA ResumeKeepsBusy ==
    ASSUME TypeOK, NoIdle, NEW t \in TaskIds, Resume(t)
    PROVE  NoIdle'
<1>0. /\ state \in [TaskIds -> States] /\ kept' = kept /\ TaskIds' = TaskIds
      /\ state[t] = "woken" /\ t = Head(waiters) /\ waiters # << >>
      /\ waiters' = Tail(waiters)
      /\ waiters \in Seq(TaskIds) /\ free \in Nat
      /\ NextToWake \subseteq In({"waiting"})
  BY NextToWakeType DEF Resume, TypeOK, TaskIds
<1>1. free > 0 => NextToWake = {}
  BY <1>0 DEF NoIdle, NoIdleSlot
<1>2. /\ state' = [u \in TaskIds |-> IF u = t THEN "querying" ELSE state[u]]
      /\ free' = free
  BY <1>1 DEF Resume
<1>3. \A u \in TaskIds : state[u] # "created" /\ state'[u] # "created"
  BY <1>0, <1>2 DEF NoIdle, Starting, In
<1>4. Starting'
  BY <1>0, <1>2, <1>3 DEF Starting, In
<1>5. NoIdleSlot'
  BY <1>0, <1>2 DEF NoIdle, NoIdleSlot, In
<1>6. Queued'
  <2> SUFFICES ASSUME NEW u \in In({"waiting", "woken"})'
               PROVE  \E i \in DOMAIN waiters' : waiters'[i] = u
    BY DEF Queued
  <2>1. u \in In({"waiting", "woken"}) /\ u # t
    BY <1>0, <1>2 DEF In
  <2>2. PICK i \in DOMAIN waiters : waiters[i] = u
    BY <2>1 DEF NoIdle, Queued
  <2>3. i # 1 /\ i - 1 \in DOMAIN waiters'
    BY <1>0, <2>1, <2>2
  <2>4. waiters'[i - 1] = u
    BY <1>0, <2>2, <2>3
  <2> QED
    BY <2>3, <2>4
<1> QED
  BY <1>4, <1>5, <1>6 DEF NoIdle

\* A worker that ends takes the next task in the same step.
LEMMA NoIdleNext == TypeOK /\ NoIdle /\ [Next]_vars => NoIdle'
<1> SUFFICES ASSUME TypeOK, NoIdle, [Next]_vars PROVE NoIdle'
  OBVIOUS
<1>1. ASSUME NEW t \in TaskIds, Succeed(t) \/ Fail(t)
      PROVE  NoIdle'
  BY <1>1, ReleaseKeepsBusy DEF Succeed, Fail
<1>2. ASSUME UNCHANGED <<kept, state, free, waiters>>
      PROVE  NoIdle'
  BY <1>2 DEF NoIdle, Starting, Queued, NoIdleSlot, In, TaskIds, Before
<1> QED
  BY <1>1, <1>2, StartKeepsBusy, ResumeKeepsBusy
     DEF Next, Step, Answer, Gather, Returned, vars

\* No slot of the semaphore is free while a batch waits for one, in whatever
\* order the calls answer or fail.
THEOREM NoSlotIdles == Spec => []NoIdleSlot
<1>1. NoIdle => NoIdleSlot
  BY DEF NoIdle
<1> QED
  BY <1>1, TypedInit, SlotsInit, SlotsKept, NoIdleInit, NoIdleNext, PTL
     DEF Spec
-----------------------------------------------------------------------------
(* Nobody is stuck.  That gather returns (Settles) is liveness and left to *)
(* TLC; what it rests on is proved: while a batch is unfinished one can    *)
(* take a step, and a step leaves less to do.                              *)

\* The queue is in the order the batches were created, the woken ones ahead;
\* only a batch that is done has no call left.
InLine ==
    /\ \A i, j \in DOMAIN waiters : i < j => Before(waiters[i], waiters[j])
    /\ \A i \in DOMAIN waiters : state[waiters[i]] \in {"waiting", "woken"}
    /\ \A i, j \in DOMAIN waiters :
           i < j /\ state[waiters[j]] = "woken" => state[waiters[i]] = "woken"
    /\ \A t \in TaskIds : calls[t] = 0 => state[t] = "ok"

\* The guards of Start, Resume, and of Answer or Succeed.
Ready(t) ==
    \/ t \in FirstOf(In({"created"}))
    \/ waiters # << >> /\ t = Head(waiters) /\ state[t] = "woken"
    \/ Polling /\ state[t] = "querying" /\ calls[t] > 0

NobodyStuck ==
    \/ \A t \in TaskIds : state[t] \in {"ok", "failed"}
    \/ \E t \in TaskIds : Ready(t)

\* No batch overtakes one that was created before it: they start, are woken
\* and query in that order (they may answer in any).
ServedInOrder ==
    \A t, u \in TaskIds : Before(t, u) =>
        /\ state[t] = "created" => state[u] = "created"
        /\ state[t] = "waiting" => state[u] \in {"created", "waiting"}
        /\ state[t] = "woken" => state[u] \in {"created", "waiting", "woken"}

\* What a batch has before it: the answers it waits for, and the states.
Stage(s) == CASE s = "created"  -> 4
              [] s = "waiting"  -> 3
              [] s = "woken"    -> 2
              [] s = "querying" -> 1
              [] OTHER          -> 0

Work(t) == calls[t] + Stage(state[t])

GetsCloser ==
    [][(\E t \in TaskIds : Step(t)) =>
          /\ TaskIds' = TaskIds
          /\ \A u \in TaskIds : Work(u)' <= Work(u)
          /\ \E t \in TaskIds : Work(t)' < Work(t)]_vars

\* At the start nobody is in line and every call is still to be made.
LEMMA InLineInit == Init => InLine
  BY SettingsAssumption DEF Init, InLine

\* A batch that starts queues behind those created before it.
LEMMA StartKeepsLine ==
    ASSUME TypeOK, NoIdle, InLine, NEW t \in TaskIds, Start(t)
    PROVE  InLine'
<1>0. /\ state \in [TaskIds -> States] /\ kept' = kept /\ TaskIds' = TaskIds
      /\ state[t] = "created" /\ calls' = calls
      /\ waiters \in Seq(TaskIds)
      /\ \A u, v \in TaskIds : Before(u, v)' <=> Before(u, v)
      /\ calls \in [TaskIds -> 0..Calls]
      /\ In({"woken"}) = {}
  BY DEF Start, FirstOf, In, TypeOK, TaskIds, Before, NoIdle, Starting
<1>1. \A i \in DOMAIN waiters : waiters[i] \in TaskIds /\ waiters[i] # t
  BY <1>0 DEF InLine
<1>2. \A u \in TaskIds : calls[u] = 0 => state[u] = "ok" /\ u # t
  BY <1>0 DEF InLine
<1>3. CASE Locked
  <2>1. /\ state' = [state EXCEPT ![t] = "waiting"]
        /\ waiters' = Append(waiters, t)
    BY <1>0, <1>3 DEF Start
  <2>2. Len(waiters) \in Nat /\ DOMAIN waiters = 1..Len(waiters)
        /\ DOMAIN waiters' = 1..(Len(waiters) + 1)
        /\ waiters'[Len(waiters) + 1] = t
        /\ \A i \in DOMAIN waiters : waiters'[i] = waiters[i]
    BY <1>0, <2>1
  <2>3. \A i \in DOMAIN waiters : Before(waiters[i], t)
    BY <1>0, <1>1 DEF NoIdle, Starting, InLine
  <2>4. \A i, j \in DOMAIN waiters' :
            i < j => i \in DOMAIN waiters /\
                     (j \in DOMAIN waiters \/ j = Len(waiters) + 1)
    BY <2>2
  <2>5. \A i, j \in DOMAIN waiters' : i < j => Before(waiters[i], waiters[j])'
    <3> SUFFICES ASSUME NEW i \in DOMAIN waiters', NEW j \in DOMAIN waiters',
                        i < j
                 PROVE  Before(waiters'[i], waiters'[j])
      BY <1>0 DEF Before
    <3>1. i \in DOMAIN waiters /\ waiters'[i] = waiters[i]
      BY <2>2, <2>4
    <3>2. CASE j = Len(waiters) + 1
      BY <2>2, <2>3, <3>1, <3>2
    <3>3. CASE j \in DOMAIN waiters
      BY <2>2, <3>1, <3>3 DEF InLine
    <3> QED
      BY <2>4, <3>2, <3>3
  <2>6. \A i \in DOMAIN waiters' :
            state'[waiters'[i]] \in {"waiting", "woken"}
    <3>1. \A i \in DOMAIN waiters :
              state'[waiters[i]] = state[waiters[i]]
      BY <1>0, <1>1, <2>1
    <3>2. state'[t] = "waiting"
      BY <1>0, <2>1
    <3> QED
      BY <2>2, <3>1, <3>2 DEF InLine
  <2>7. \A u \in TaskIds : state'[u] # "woken"
    BY <1>0, <2>1 DEF In
  <2>8. \A i \in DOMAIN waiters' : waiters'[i] \in TaskIds
    BY <1>1, <2>2
  <2> QED
    BY <1>0, <1>2, <2>1, <2>5, <2>6, <2>7, <2>8 DEF InLine
<1>4. CASE ~Locked
  <2>1. waiters = << >> /\ waiters' = << >>
        /\ state' = [state EXCEPT ![t] = "querying"]
    BY <1>0, <1>4 DEF Start, Locked
  <2>2. \A u \in TaskIds : calls'[u] = 0 => state'[u] = "ok"
    BY <1>0, <1>2, <2>1
  <2> QED
    BY <1>0, <2>1, <2>2 DEF InLine
<1> QED
  BY <1>3, <1>4

\* The head of the queue leaves it; nobody else moves.
LEMMA ResumeKeepsLine ==
    ASSUME TypeOK, NoIdle, InLine, NEW t \in TaskIds, Resume(t)
    PROVE  InLine'
<1>0. /\ state \in [TaskIds -> States] /\ kept' = kept /\ TaskIds' = TaskIds
      /\ state[t] = "woken" /\ t = waiters[1] /\ waiters # << >>
      /\ waiters' = Tail(waiters) /\ calls' = calls
      /\ waiters \in Seq(TaskIds) /\ free \in Nat
      /\ NextToWake \subseteq In({"waiting"})
      /\ \A u, v \in TaskIds : Before(u, v)' <=> Before(u, v)
  BY NextToWakeType DEF Resume, TypeOK, TaskIds, Before
<1>1. state' = [u \in TaskIds |-> IF u = t THEN "querying" ELSE state[u]]
  BY <1>0 DEF Resume, NoIdle, NoIdleSlot
<1>2. \A i \in DOMAIN waiters' :
          i \in Nat /\ i + 1 \in DOMAIN waiters /\ 1 \in DOMAIN waiters
          /\ waiters'[i] = waiters[i + 1] /\ waiters[i + 1] \in TaskIds
          /\ 1 < i + 1
  BY <1>0
<1>3. \A i \in DOMAIN waiters' : waiters'[i] # t
  <2> SUFFICES ASSUME NEW i \in DOMAIN waiters', waiters[i + 1] = t
               PROVE  FALSE
    BY <1>2
  <2>1. Before(t, t)
    BY <1>0, <1>2 DEF InLine
  <2>2. t \in DOMAIN kept /\ kept \in Seq(Resources)
    BY TaskSets DEF TypeOK
  <2> QED
    BY <2>1, <2>2, EarlierAsymmetric DEF Before
<1>4. \A i, j \in DOMAIN waiters' : i < j => i + 1 < j + 1
  BY <1>2
<1>5. \A i \in DOMAIN waiters' : state'[waiters'[i]] = state[waiters[i + 1]]
  BY <1>1, <1>2, <1>3
<1>6. ASSUME NEW i \in DOMAIN waiters', NEW j \in DOMAIN waiters', i < j
      PROVE  Before(waiters[i], waiters[j])'
  <2>1. i + 1 \in DOMAIN waiters /\ j + 1 \in DOMAIN waiters /\ i + 1 < j + 1
    BY <1>2, <1>4, <1>6
  <2>2. Before(waiters[i + 1], waiters[j + 1])
    BY <2>1 DEF InLine
  <2>3. Before(waiters[i + 1], waiters[j + 1]) <=>
        Before(waiters'[i], waiters'[j])
    BY <1>2
  <2> QED
    BY <1>0, <1>2, <2>2, <2>3 DEF Before
<1>7. \A i \in DOMAIN waiters' :
          state'[waiters'[i]] \in {"waiting", "woken"}
  BY <1>2, <1>5 DEF InLine
<1>8. \A i, j \in DOMAIN waiters' :
          i < j /\ state'[waiters'[j]] = "woken"
              => state'[waiters'[i]] = "woken"
  BY <1>2, <1>4, <1>5 DEF InLine
<1>9. \A u \in TaskIds : calls'[u] = 0 => state'[u] = "ok"
  BY <1>0, <1>1 DEF InLine
<1> QED
  BY <1>0, <1>6, <1>7, <1>8, <1>9 DEF InLine

\* A release wakes the first of those that wait: who stands before it has been
\* woken already.
LEMMA ReleaseKeepsLine ==
    ASSUME TypeOK, InLine, NEW t \in TaskIds, NEW s \in {"ok", "failed"},
           state[t] = "querying", Release(t, s),
           waiters' = waiters, kept' = kept,
           \A u \in TaskIds : calls'[u] = calls[u] \/ (u = t /\ s = "ok")
    PROVE  InLine'
<1>0. /\ state \in [TaskIds -> States] /\ TaskIds' = TaskIds
      /\ NextToWake \subseteq In({"waiting"})
      /\ In({"waiting"}) \in SUBSET TaskIds
      /\ state' = [u \in TaskIds |->
                     IF u = t THEN s
                     ELSE IF u \in NextToWake THEN "woken" ELSE state[u]]
      /\ waiters \in Seq(TaskIds)
      /\ \A u, v \in TaskIds : Before(u, v)' <=> Before(u, v)
  BY NextToWakeType DEF TypeOK, In, Release, TaskIds, Before
<1>1. \A i \in DOMAIN waiters :
          waiters[i] \in TaskIds /\ waiters[i] # t
          /\ state'[waiters[i]] = IF waiters[i] \in NextToWake
                                  THEN "woken" ELSE state[waiters[i]]
  BY <1>0 DEF InLine
<1>2. \A i, j \in DOMAIN waiters' : i < j => Before(waiters[i], waiters[j])'
  BY <1>0, <1>1 DEF InLine, Before
<1>3. \A i \in DOMAIN waiters' : state'[waiters'[i]] \in {"waiting", "woken"}
  BY <1>1 DEF InLine
<1>4. ASSUME NEW i \in DOMAIN waiters, NEW j \in DOMAIN waiters, i < j,
             state'[waiters[j]] = "woken"
      PROVE  state'[waiters[i]] = "woken"
  <2>1. CASE waiters[j] \in NextToWake
    <3>1. Before(waiters[i], waiters[j])
      BY <1>4 DEF InLine
    <3>2. waiters[i] \notin In({"waiting"})
      BY <2>1, <3>1 DEF NextToWake, FirstOf
    <3>3. state[waiters[i]] # "waiting"
      BY <1>0, <1>1, <3>2 DEF In
    <3> QED
      BY <1>1, <3>3 DEF InLine
  <2>2. CASE waiters[j] \notin NextToWake
    BY <1>1, <1>4, <2>2 DEF InLine
  <2> QED
    BY <2>1, <2>2
<1>5. \A u \in TaskIds' : calls'[u] = 0 => state'[u] = "ok"
  BY <1>0 DEF InLine, In
<1>6. \A i, j \in DOMAIN waiters' :
          i < j /\ state'[waiters'[j]] = "woken"
              => state'[waiters'[i]] = "woken"
  BY <1>4
<1> QED
  BY <1>2, <1>3, <1>5, <1>6 DEF InLine

\* Every step keeps the line.
LEMMA InLineNext == TypeOK /\ NoIdle /\ InLine /\ [Next]_vars => InLine'
<1> SUFFICES ASSUME TypeOK, NoIdle, InLine, [Next]_vars PROVE InLine'
  OBVIOUS
<1>0. calls \in [TaskIds -> 0..Calls] /\ Calls \in Nat
  BY SettingsAssumption DEF TypeOK
<1>1. ASSUME NEW t \in TaskIds, Succeed(t)
      PROVE  InLine'
  <2>1. \A u \in TaskIds : calls'[u] = calls[u] \/ u = t
    BY <1>0, <1>1 DEF Succeed
  <2> QED
    BY <1>1, <2>1, ReleaseKeepsLine DEF Succeed
<1>2. ASSUME NEW t \in TaskIds, Fail(t)
      PROVE  InLine'
  <2>1. \A u \in TaskIds : calls'[u] = calls[u]
    BY <1>2 DEF Fail
  <2> QED
    BY <1>2, <2>1, ReleaseKeepsLine DEF Fail
<1>3. ASSUME NEW t \in TaskIds, Answer(t)
      PROVE  InLine'
  <2>1. /\ UNCHANGED <<kept, state, waiters>> /\ calls[t] > 1
        /\ calls' = [calls EXCEPT ![t] = @ - 1]
    BY <1>3 DEF Answer
  <2>2. \A u \in TaskIds : calls'[u] = 0 => calls[u] = 0
    BY <1>0, <2>1
  <2> QED
    BY <2>1, <2>2 DEF InLine, TaskIds, Before
<1>4. ASSUME UNCHANGED <<kept, state, waiters, calls>>
      PROVE  InLine'
  BY <1>4 DEF InLine, TaskIds, Before
<1> QED
  BY <1>1, <1>2, <1>3, <1>4, StartKeepsLine, ResumeKeepsLine
     DEF Next, Step, Gather, Returned, vars

\* With a slot to give (MAX_CONCURRENCY positive), somebody can move.
LEMMA SomebodyMoves ==
    ASSUME TypeOK, ConcurrencyBound, NoIdle, InLine
    PROVE  NobodyStuck
<1>0. /\ state \in [TaskIds -> States] /\ DOMAIN state = TaskIds
      /\ waiters \in Seq(TaskIds) /\ calls \in [TaskIds -> 0..Calls]
      /\ MaxConcurrency \in Nat \ {0} /\ Calls \in Nat /\ free \in Nat
  BY SettingsAssumption DEF TypeOK
<1>1. CASE ~Polling
  <2>1. In({"created"}) # {} /\ In({"created"}) \in SUBSET TaskIds
    BY <1>0, <1>1 DEF Polling, In
  <2>2. PICK t \in FirstOf(In({"created"})) : TRUE
    BY <2>1, FirstExists
  <2>3. t \in TaskIds
    BY <2>1, <2>2 DEF FirstOf
  <2> QED
    BY <2>2, <2>3 DEF NobodyStuck, Ready
<1>2. CASE Polling /\ \E t \in TaskIds : state[t] = "querying"
  <2>1. PICK t \in TaskIds : state[t] = "querying"
    BY <1>2
  <2>2. calls[t] # 0 /\ calls[t] \in 0..Calls
    BY <1>0, <2>1 DEF InLine
  <2>3. calls[t] > 0
    BY <1>0, <2>2
  <2> QED
    BY <1>2, <2>1, <2>3 DEF NobodyStuck, Ready
<1>3. CASE \E t \in TaskIds : state[t] = "woken"
  <2>1. PICK t \in TaskIds : state[t] = "woken"
    BY <1>3
  <2>2. PICK i \in DOMAIN waiters : waiters[i] = t
    BY <1>0, <2>1 DEF NoIdle, Queued, In
  <2>3. waiters # << >> /\ 1 \in DOMAIN waiters /\ (i = 1 \/ 1 < i)
        /\ Head(waiters) = waiters[1] /\ waiters[1] \in TaskIds
    BY <1>0, <2>2
  <2>4. state[waiters[1]] = "woken"
    BY <2>1, <2>2, <2>3 DEF InLine
  <2> QED
    BY <2>3, <2>4 DEF NobodyStuck, Ready
<1>4. CASE /\ Polling
           /\ \A t \in TaskIds : state[t] \notin {"querying", "woken"}
  <2>1. Holding = {}
    BY <1>0, <1>4 DEF Holding, In
  <2>2. free = MaxConcurrency
    BY <1>0, <2>1, FS_EmptySet DEF ConcurrencyBound
  <2>3. In({"waiting"}) = {}
    BY <1>0, <2>2 DEF NoIdle, NoIdleSlot
  <2>4. \A t \in TaskIds : state[t] \in {"ok", "failed"}
    BY <1>0, <1>4, <2>3 DEF Polling, In, States
  <2> QED
    BY <2>4 DEF NobodyStuck
<1> QED
  BY <1>1, <1>2, <1>3, <1>4

\* While a batch is unfinished, some batch can take its next step: its turn
\* has come to start, it was woken and is at the head of the queue, or it waits
\* for an answer.  No order of answers and failures leaves them all waiting for
\* one another.
THEOREM SomebodyReady == Spec => []NobodyStuck
<1>1. TypeOK /\ ConcurrencyBound /\ NoIdle /\ InLine => NobodyStuck
  BY SomebodyMoves
<1> QED
  BY <1>1, TypedInit, SlotsInit, SlotsKept, NoIdleInit, NoIdleNext,
     InLineInit, InLineNext, PTL DEF Spec

\* A batch that starts, resumes, or ends and hands its slot on, keeps the order.
LEMMA OrderNext ==
    TypeOK /\ NoIdle /\ InLine /\ ServedInOrder /\ [Next]_vars => ServedInOrder'
<1> SUFFICES ASSUME TypeOK, NoIdle, InLine, ServedInOrder, [Next]_vars
             PROVE  ServedInOrder'
  OBVIOUS
<1>0. /\ state \in [TaskIds -> States] /\ waiters \in Seq(TaskIds)
      /\ TaskIds \subseteq DOMAIN kept /\ kept \in Seq(Resources)
      /\ kept' = kept => TaskIds' = TaskIds
      /\ kept' = kept => \A u, v \in TaskIds : Before(u, v)' <=> Before(u, v)
  BY TaskSets DEF TypeOK, TaskIds, Before
<1>1. \A t, u \in TaskIds : Before(t, u) => ~Before(u, t)
  BY <1>0, EarlierAsymmetric DEF Before
<1>2. ASSUME NEW t \in TaskIds, Start(t)
      PROVE  ServedInOrder'
  <2>0. /\ state[t] = "created" /\ kept' = kept
        /\ \A u \in TaskIds : Before(u, t) => state[u] # "created"
        /\ \A u \in TaskIds : state[u] # "created" => Before(u, t)
    BY <1>0, <1>2 DEF Start, FirstOf, In, NoIdle, Starting
  <2>1. CASE Locked
    <3>1. state' = [state EXCEPT ![t] = "waiting"]
      BY <1>2, <2>1 DEF Start
    <3> QED
      BY <1>0, <1>1, <2>0, <3>1 DEF ServedInOrder
  <2>2. CASE ~Locked
    <3>1. state' = [state EXCEPT ![t] = "querying"] /\ waiters = << >>
      BY <1>2, <2>2 DEF Start, Locked
    <3>2. \A u \in TaskIds : state[u] \notin {"waiting", "woken"}
      BY <1>0, <3>1 DEF NoIdle, Queued, In
    <3> QED
      BY <1>0, <1>1, <2>0, <3>1, <3>2 DEF ServedInOrder
  <2> QED
    BY <2>1, <2>2
<1>3. ASSUME NEW t \in TaskIds, Resume(t)
      PROVE  ServedInOrder'
  <2>1. NextToWake \subseteq In({"waiting"})
    BY NextToWakeType
  <2>2. free > 0 => NextToWake = {}
    BY <2>1 DEF NoIdle, NoIdleSlot
  <2>3. /\ state[t] = "woken" /\ t = waiters[1] /\ kept' = kept
        /\ state' = [u \in TaskIds |->
                       IF u = t THEN "querying" ELSE state[u]]
    BY <1>0, <1>3, <2>2 DEF Resume
  <2>4. ASSUME NEW u \in TaskIds, Before(u, t)
        PROVE  state[u] \notin {"created", "waiting", "woken"}
    <3>1. state[u] \notin {"created", "waiting"}
      BY <1>0, <2>3, <2>4 DEF ServedInOrder
    <3>2. ASSUME state[u] = "woken"
          PROVE  FALSE
      <4>1. PICK i \in DOMAIN waiters : waiters[i] = u
        BY <1>0, <3>2 DEF NoIdle, Queued, In
      <4>2. u # t
        BY <1>1, <2>4
      <4>3. 1 \in DOMAIN waiters /\ 1 < i
        BY <1>0, <2>3, <4>1, <4>2
      <4>4. Before(t, u)
        BY <2>3, <4>1, <4>3 DEF InLine
      <4> QED
        BY <1>1, <2>4, <4>4
    <3> QED
      BY <3>1, <3>2
  <2> QED
    BY <1>0, <1>1, <2>3, <2>4 DEF ServedInOrder
<1>4. ASSUME NEW t \in TaskIds, NEW s \in {"ok", "failed"},
             state[t] = "querying", Release(t, s), kept' = kept
      PROVE  ServedInOrder'
  <2>1. /\ NextToWake \subseteq In({"waiting"})
        /\ state' = [u \in TaskIds |->
                       IF u = t THEN s
                       ELSE IF u \in NextToWake THEN "woken" ELSE state[u]]
    BY <1>4, NextToWakeType DEF Release
  <2>2. \A u \in NextToWake : u \in TaskIds /\ state[u] = "waiting"
    BY <1>0, <2>1 DEF In
  <2>3. ASSUME NEW u \in NextToWake, NEW v \in TaskIds, Before(v, u)
        PROVE  state[v] \notin {"created", "waiting"}
    <3>1. state[v] # "created"
      BY <2>2, <2>3 DEF ServedInOrder
    <3>2. state[v] # "waiting"
      BY <1>0, <2>3 DEF NextToWake, FirstOf, In
    <3> QED
      BY <3>1, <3>2
  <2> QED
    BY <1>0, <1>1, <1>4, <2>1, <2>2, <2>3 DEF ServedInOrder
<1>5. CASE UNCHANGED <<kept, state>>
  BY <1>0, <1>5 DEF ServedInOrder
<1> QED
  BY <1>2, <1>3, <1>4, <1>5
     DEF Next, Step, Answer, Succeed, Fail, Gather, Returned, vars

\* The semaphore is fair: whatever answers and fails meanwhile, batches start,
\* are woken and begin to query in the order they were created, so none starves.
THEOREM FirstComeFirstServed == Spec => []ServedInOrder
<1>1. Init => ServedInOrder
  BY DEF Init, ServedInOrder
<1> QED
  BY <1>1, TypedInit, SlotsInit, SlotsKept, NoIdleInit, NoIdleNext,
     InLineInit, InLineNext, OrderNext, PTL DEF Spec

\* A state counts for a number.
LEMMA StageType == \A s \in States : Stage(s) \in Nat
  BY DEF Stage, States

\* A release moves one batch to its end and others no way back.
LEMMA ReleaseCloser ==
    ASSUME TypeOK, NEW t \in TaskIds, NEW s \in {"ok", "failed"},
           state[t] = "querying", Release(t, s), kept' = kept,
           \A u \in TaskIds : calls'[u] \in 0..calls[u]
    PROVE  /\ TaskIds' = TaskIds
           /\ \A u \in TaskIds : Work(u)' <= Work(u)
           /\ Work(t)' < Work(t)
<1>0. /\ state \in [TaskIds -> States] /\ calls \in [TaskIds -> 0..Calls]
      /\ Calls \in Nat /\ TaskIds' = TaskIds
      /\ NextToWake \subseteq In({"waiting"})
      /\ state' = [u \in TaskIds |->
                     IF u = t THEN s
                     ELSE IF u \in NextToWake THEN "woken" ELSE state[u]]
  BY NextToWakeType, SettingsAssumption DEF TypeOK, Release, TaskIds
<1>1. \A u \in TaskIds : calls[u] \in Nat /\ calls'[u] \in Nat
                         /\ calls'[u] <= calls[u]
  BY <1>0
<1>2. \A u \in TaskIds : Stage(state[u]) \in Nat
                         /\ Stage(state'[u]) \in Nat
                         /\ Stage(state'[u]) <= Stage(state[u])
  BY <1>0 DEF Stage, States, In
<1>3. Stage(state'[t]) < Stage(state[t])
  BY <1>0 DEF Stage
<1> QED
  BY <1>0, <1>1, <1>2, <1>3 DEF Work

\* Every step of a batch leaves some batch fewer calls or states before it and
\* none more: a fan-out of n batches takes at most (Calls + 4) * n steps.
THEOREM CloserEachStep == Spec => GetsCloser
<1>1. ASSUME TypeOK, NoIdle, NEW t \in TaskIds, Step(t)
      PROVE  /\ TaskIds' = TaskIds
             /\ \A u \in TaskIds : Work(u)' <= Work(u)
             /\ Work(t)' < Work(t)
  <2>0. /\ state \in [TaskIds -> States] /\ calls \in [TaskIds -> 0..Calls]
        /\ Calls \in Nat /\ free \in Nat
        /\ \A u \in TaskIds : calls[u] \in Nat /\ Stage(state[u]) \in Nat
    <3>1. /\ state \in [TaskIds -> States] /\ calls \in [TaskIds -> 0..Calls]
          /\ Calls \in Nat /\ free \in Nat
      BY <1>1, SettingsAssumption DEF TypeOK
    <3>2. \A u \in TaskIds : calls[u] \in Nat
      BY <3>1
    <3>3. \A u \in TaskIds : Stage(state[u]) \in Nat
      BY <3>1, StageType
    <3> QED
      BY <3>1, <3>2, <3>3
  <2>1. CASE Start(t)
    <3>1. /\ state[t] = "created" /\ kept' = kept /\ calls' = calls
          /\ \E s \in {"waiting", "querying"} :
                 state' = [state EXCEPT ![t] = s]
      BY <2>1 DEF Start, FirstOf, In
    <3>2. \A u \in TaskIds : u # t => state'[u] = state[u]
      BY <2>0, <3>1
    <3>3. Stage(state'[t]) < Stage(state[t]) /\ Stage(state'[t]) \in Nat
      BY <2>0, <3>1 DEF Stage
    <3> QED
      BY <2>0, <3>1, <3>2, <3>3 DEF Work, TaskIds
  <2>2. CASE Resume(t)
    <3>1. /\ state[t] = "woken" /\ kept' = kept /\ calls' = calls
          /\ state' = [u \in TaskIds |->
                         IF u = t THEN "querying" ELSE state[u]]
      <4>1. NextToWake \subseteq In({"waiting"})
        BY NextToWakeType
      <4>2. free > 0 => NextToWake = {}
        BY <1>1, <4>1 DEF NoIdle, NoIdleSlot
      <4> QED
        BY <2>0, <2>2, <4>2 DEF Resume
    <3>2. \A u \in TaskIds : u # t => state'[u] = state[u]
      BY <3>1
    <3>3. Stage(state'[t]) < Stage(state[t]) /\ Stage(state'[t]) \in Nat
      BY <3>1 DEF Stage
    <3> QED
      BY <2>0, <3>1, <3>2, <3>3 DEF Work, TaskIds
  <2>3. CASE Answer(t)
    <3>1. /\ state' = state /\ kept' = kept /\ calls[t] > 1
          /\ calls' = [calls EXCEPT ![t] = @ - 1]
      BY <2>3 DEF Answer
    <3>2. \A u \in TaskIds : u # t => calls'[u] = calls[u]
      BY <2>0, <3>1
    <3>3. calls'[t] = calls[t] - 1
      BY <2>0, <3>1
    <3> QED
      BY <2>0, <3>1, <3>2, <3>3 DEF Work, TaskIds
  <2>4. CASE Succeed(t)
    <3>1. \A u \in TaskIds : calls'[u] \in 0..calls[u]
      BY <2>0, <2>4 DEF Succeed
    <3>2. Release(t, "ok") /\ kept' = kept /\ state[t] = "querying"
      BY <2>4 DEF Succeed
    <3> QED
      BY <1>1, <3>1, <3>2, ReleaseCloser
  <2>5. CASE Fail(t)
    <3>1. \A u \in TaskIds : calls'[u] \in 0..calls[u]
      BY <2>0, <2>5 DEF Fail
    <3>2. Release(t, "failed") /\ kept' = kept /\ state[t] = "querying"
      BY <2>5 DEF Fail
    <3> QED
      BY <1>1, <3>1, <3>2, ReleaseCloser
  <2> QED
    BY <1>1, <2>1, <2>2, <2>3, <2>4, <2>5 DEF Step
<1>2. TypeOK /\ NoIdle =>
          [(\E t \in TaskIds : Step(t)) =>
              /\ TaskIds' = TaskIds
              /\ \A u \in TaskIds : Work(u)' <= Work(u)
              /\ \E t \in TaskIds : Work(t)' < Work(t)]_vars
  BY <1>1
<1> QED
  BY <1>2, TypedInit, SlotsInit, SlotsKept, NoIdleInit, NoIdleNext, PTL
     DEF Spec, GetsCloser
-----------------------------------------------------------------------------
(* The cut.                                                                *)

\* The inventory lists each resource once.
Listings ==
    {s \in Seq(Resources) : \A i, j \in DOMAIN s : s[i] = s[j] => i = j}

\* The members of i's group before i.
Ahead(s, i) == {j \in 1..(i - 1) : SameGroup(s, i, j)}

\* The positions i's batch is made of.
Slice(s, i, size) ==
    {k \in DOMAIN s : /\ SameGroup(s, i, k)
                      /\ Rank(s, k) \div size = Rank(s, i) \div size}

\* Ranks count a finite set.
LEMMA RankType ==
    ASSUME NEW s \in Seq(Resources), NEW i \in DOMAIN s
    PROVE  /\ IsFiniteSet(Ahead(s, i))
           /\ Rank(s, i) \in Nat /\ Rank(s, i) = Cardinality(Ahead(s, i))
           /\ i \in Nat /\ i > 0
<1>1. i \in Nat /\ i > 0
  OBVIOUS
<1>2. IsFiniteSet(1..(i - 1))
  BY <1>1, FS_Interval
<1>3. IsFiniteSet(Ahead(s, i))
  BY <1>2, FS_Subset DEF Ahead
<1> QED
  BY <1>1, <1>3, FS_CardinalityType DEF Rank, Ahead

\* Within a group ranks grow with positions.
LEMMA RankLess ==
    ASSUME NEW s \in Seq(Resources), NEW i \in DOMAIN s, NEW k \in DOMAIN s,
           SameGroup(s, i, k), i < k
    PROVE  Rank(s, i) < Rank(s, k)
<1>1. /\ IsFiniteSet(Ahead(s, i)) /\ IsFiniteSet(Ahead(s, k))
      /\ Rank(s, i) \in Nat /\ Rank(s, i) = Cardinality(Ahead(s, i))
      /\ Rank(s, k) \in Nat /\ Rank(s, k) = Cardinality(Ahead(s, k))
      /\ i \in Nat /\ k \in Nat /\ i > 0
  BY RankType
<1>2. Ahead(s, i) \cup {i} \subseteq Ahead(s, k)
  BY <1>1 DEF Ahead, SameGroup
<1>3. i \notin Ahead(s, i)
  BY <1>1 DEF Ahead
<1>4. Cardinality(Ahead(s, i) \cup {i}) = Rank(s, i) + 1
  BY <1>1, <1>3, FS_AddElement
<1>5. Rank(s, i) + 1 <= Rank(s, k)
  BY <1>1, <1>2, <1>4, FS_Subset
<1> QED
  BY <1>1, <1>5

\* So within a group a rank is a position.
LEMMA RankIsPlace ==
    ASSUME NEW s \in Seq(Resources), NEW i \in DOMAIN s, NEW k \in DOMAIN s,
           SameGroup(s, i, k), Rank(s, i) = Rank(s, k)
    PROVE  i = k
<1>1. SameGroup(s, k, i)
  BY DEF SameGroup
<1>2. /\ i \in Nat /\ k \in Nat
      /\ Rank(s, i) \in Nat /\ Rank(s, k) \in Nat
  BY RankType
<1>3. ~(i < k) /\ ~(k < i)
  BY <1>1, <1>2, RankLess
<1> QED
  BY <1>2, <1>3

\* A set of naturals below a bound that is not empty has a greatest element.
LEMMA GreatestNatural ==
    ASSUME NEW b \in Nat, NEW S \in SUBSET (0..b), S # {}
    PROVE  \E m \in S : \A n \in S : n <= m
<1> DEFINE D == {b - t : t \in S}
<1>0. \A t \in S : t \in 0..b /\ b - t \in Nat
  <2>1. ASSUME NEW t \in 0..b PROVE b - t \in Nat
    OBVIOUS
  <2> QED
    BY <2>1
<1>1. D \in SUBSET Nat /\ D # {}
  BY <1>0
<1>2. PICK d \in D : \A e \in D : d <= e
  BY <1>1, LeastNatural
<1>3. PICK m \in S : d = b - m
  BY <1>2
<1>4. ASSUME NEW n \in S PROVE n <= m
  <2>1. b - n \in D
    OBVIOUS
  <2>2. d <= b - n
    BY <1>2, <2>1
  <2>3. n \in 0..b /\ m \in 0..b
    BY <1>0
  <2> QED
    BY <1>3, <2>2, <2>3
<1> QED
  BY <1>4

\* Who is not the first of a group has one right before.
LEMMA RankBefore ==
    ASSUME NEW s \in Seq(Resources), NEW i \in DOMAIN s, Rank(s, i) > 0
    PROVE  \E p \in DOMAIN s : /\ SameGroup(s, i, p) /\ p < i
                               /\ Rank(s, p) = Rank(s, i) - 1
<1>1. /\ IsFiniteSet(Ahead(s, i)) /\ i \in Nat /\ i > 0
      /\ Rank(s, i) \in Nat /\ Rank(s, i) = Cardinality(Ahead(s, i))
  BY RankType
<1>2. Ahead(s, i) # {}
  BY <1>1, FS_EmptySet
<1>3. Ahead(s, i) \in SUBSET (0..i)
  BY <1>1 DEF Ahead
<1>4. PICK p \in Ahead(s, i) : \A n \in Ahead(s, i) : n <= p
  BY <1>1, <1>2, <1>3, GreatestNatural
<1>5. p \in DOMAIN s /\ p < i /\ SameGroup(s, i, p) /\ p \in Nat
  <2>1. DOMAIN s = 1..Len(s) /\ Len(s) \in Nat
    OBVIOUS
  <2> QED
    BY <1>1, <2>1 DEF Ahead
<1>6. Ahead(s, i) \ {p} = Ahead(s, p)
  BY <1>1, <1>4, <1>5 DEF Ahead, SameGroup
<1>7. Cardinality(Ahead(s, p)) = Cardinality(Ahead(s, i)) - 1
  BY <1>1, <1>6, FS_RemoveElement
<1>8. Rank(s, p) = Cardinality(Ahead(s, p))
  BY <1>5, RankType
<1> QED
  BY <1>1, <1>5, <1>7, <1>8

\* A group has each rank below those it has.
LEMMA RankAttained ==
    ASSUME NEW s \in Seq(Resources), NEW k \in DOMAIN s, NEW m \in Nat,
           m <= Rank(s, k)
    PROVE  \E i \in DOMAIN s : SameGroup(s, k, i) /\ Rank(s, i) = m
<1> DEFINE T == {j \in DOMAIN s : SameGroup(s, k, j) /\ m <= Rank(s, j)}
<1>1. T \in SUBSET Nat /\ k \in T
  BY DEF SameGroup
<1>2. PICK i \in T : \A j \in T : i <= j
  BY <1>1, LeastNatural
<1>3. i \in DOMAIN s /\ SameGroup(s, k, i) /\ m <= Rank(s, i)
  OBVIOUS
<1>4. Rank(s, i) \in Nat /\ i \in Nat
  BY <1>3, RankType
<1>5. CASE Rank(s, i) = m
  BY <1>3, <1>5
<1>6. CASE Rank(s, i) # m
  <2>1. Rank(s, i) > 0
    BY <1>3, <1>4, <1>6
  <2>2. PICK p \in DOMAIN s : /\ SameGroup(s, i, p) /\ p < i
                              /\ Rank(s, p) = Rank(s, i) - 1
    BY <1>3, <2>1, RankBefore
  <2>3. SameGroup(s, k, p)
    BY <1>3, <2>2 DEF SameGroup
  <2>4. m <= Rank(s, p)
    BY <1>3, <1>4, <1>6, <2>2
  <2>5. p \in T
    BY <2>3, <2>4
  <2>6. i <= p /\ p \in Nat
    BY <1>2, <2>5, RankType
  <2> QED
    BY <1>4, <2>2, <2>6
<1> QED
  BY <1>5, <1>6

\* Division with a remainder.
LEMMA DivMod ==
    ASSUME NEW x \in Nat, NEW d \in Nat \ {0}
    PROVE  /\ x \div d \in Nat /\ x % d \in Nat /\ x % d < d
           /\ x = (d * (x \div d)) + (x % d)
  OBVIOUS

\* One multiple more.
LEMMA OneMore ==
    ASSUME NEW i \in Nat, NEW j \in Nat, NEW d \in Nat \ {0}, i < j
    PROVE  /\ d * i \in Nat /\ d * j \in Nat
           /\ (d * i) + d <= d * j
<1>1. d * i \in Nat /\ d * j \in Nat
  OBVIOUS
<1>2. d * (i + 1) <= d * j
  OBVIOUS
<1>3. d * (i + 1) = (d * i) + d
  OBVIOUS
<1> QED
  BY <1>1, <1>2, <1>3

\* The numbers with one quotient are an interval of d numbers.
LEMMA QuotientIs ==
    ASSUME NEW x \in Nat, NEW q \in Nat, NEW d \in Nat \ {0}
    PROVE  x \div d = q <=> d * q <= x /\ x < (d * q) + d
<1> DEFINE y == x \div d
           r == x % d
<1>1. y \in Nat /\ r \in Nat /\ r < d /\ x = (d * y) + r
  BY DivMod
<1> HIDE DEF y, r
<1>2. d * q \in Nat /\ d * y \in Nat
  BY <1>1
<1>3. ASSUME y = q
      PROVE  d * q <= x /\ x < (d * q) + d
  BY <1>1, <1>2, <1>3
<1>4. ASSUME d * q <= x, x < (d * q) + d, y # q
      PROVE  FALSE
  <2>1. CASE y < q
    <3>1. (d * y) + d <= d * q
      BY <1>1, <2>1, OneMore
    <3> QED
      BY <1>1, <1>2, <1>4, <3>1
  <2>2. CASE q < y
    <3>1. (d * q) + d <= d * y
      BY <1>1, <2>2, OneMore
    <3> QED
      BY <1>1, <1>2, <1>4, <3>1
  <2> QED
    BY <1>1, <1>4, <2>1, <2>2
<1>5. y = q <=> d * q <= x /\ x < (d * q) + d
  BY <1>3, <1>4
<1> QED
  BY <1>5 DEF y

\* The ranks of a slice.
Ranks(q, size) == (size * q)..((size * q) + size - 1)

\* The ranks a slice covers are as many as its size.
LEMMA RanksType ==
    ASSUME NEW q \in Nat, NEW size \in Nat \ {0}
    PROVE  /\ size * q \in Nat
           /\ IsFiniteSet(Ranks(q, size)) /\ Cardinality(Ranks(q, size)) = size
<1>1. size * q \in Nat
  OBVIOUS
<1> DEFINE a == size * q
<1>2. a \in Nat
  BY <1>1
<1> HIDE DEF a
<1>3. /\ IsFiniteSet(a..(a + size - 1))
      /\ Cardinality(a..(a + size - 1)) = size
  <2>1. a + size - 1 \in Int /\ ~(a > a + size - 1)
        /\ (a + size - 1) - a + 1 = size
    BY <1>2
  <2> QED
    BY <1>2, <2>1, FS_Interval
<1> QED
  BY <1>1, <1>3 DEF a, Ranks

\* A batch has as many resources as its slice has positions, no more than
\* size, and size of them if the group goes on after it.
LEMMA SliceSize ==
    ASSUME NEW s \in Listings, NEW i \in DOMAIN s, NEW size \in Nat \ {0}
    PROVE  /\ Cardinality(BatchOf(s, i, size)) <= size
           /\ \A k \in DOMAIN s :
                  /\ SameGroup(s, i, k)
                  /\ Rank(s, i) \div size < Rank(s, k) \div size
                  => Cardinality(BatchOf(s, i, size)) = size
<1> DEFINE q == Rank(s, i) \div size
           P == Slice(s, i, size)
           B == BatchOf(s, i, size)
           I == Ranks(q, size)
           f == [k \in P |-> Rank(s, k)]
           g == [k \in P |-> s[k]]
<1>0. s \in Seq(Resources) /\ P \subseteq DOMAIN s
  BY DEF Listings, Slice
<1>1. Rank(s, i) \in Nat /\ q \in Nat
  BY <1>0, RankType, DivMod
<1>2. \A k \in P : Rank(s, k) \in Nat /\ SameGroup(s, i, k)
                      /\ Rank(s, k) \div size = q
  BY <1>0, RankType DEF Slice
<1>3. IsFiniteSet(I) /\ Cardinality(I) = size /\ size * q \in Nat
  BY <1>1, RanksType
<1>4. ASSUME NEW x \in Nat
      PROVE  x \in I <=> x \div size = q
  <2>1. x \div size = q <=> size * q <= x /\ x < (size * q) + size
    BY <1>1, QuotientIs
  <2>2. x \in I <=> size * q <= x /\ x <= (size * q) + size - 1
    BY <1>3 DEF Ranks
  <2> DEFINE a == size * q
  <2>3. a \in Nat
    BY <1>3
  <2> HIDE DEF a
  <2>4. x < a + size <=> x <= a + size - 1
    BY <2>3
  <2> QED
    BY <2>1, <2>2, <2>4 DEF a
<1>5. f \in Injection(P, I)
  <2>1. f \in [P -> I]
    BY <1>2, <1>4
  <2>2. ASSUME NEW j \in P, NEW k \in P, f[j] = f[k]
        PROVE  j = k
    <3>1. SameGroup(s, j, k) /\ Rank(s, j) = Rank(s, k)
      BY <1>2, <2>2 DEF SameGroup
    <3> QED
      BY <1>0, <3>1, RankIsPlace
  <2> QED
    BY <2>1, <2>2 DEF Injection, IsInjective
<1>6. /\ IsFiniteSet(P) /\ Cardinality(P) <= size
      /\ Cardinality(P) = size <=> f \in Surjection(P, I)
  BY <1>3, <1>5, FS_Injection
<1>7. Cardinality(B) = Cardinality(P)
  <2>1. B = {s[k] : k \in P}
    BY DEF BatchOf, Slice
  <2>2. g \in [P -> B] /\ \A r \in B : \E k \in P : g[k] = r
    BY <2>1
  <2>3. \A j, k \in P : g[j] = g[k] => j = k
    BY <1>0 DEF Listings
  <2> HIDE DEF g, P, B
  <2>4. g \in Bijection(P, B)
    BY <2>2, <2>3 DEF Bijection, Injection, Surjection, IsInjective
  <2> QED
    BY <1>6, <2>4, FS_Bijection DEF ExistsBijection
<1>8. ASSUME NEW k \in DOMAIN s, SameGroup(s, i, k), q < Rank(s, k) \div size
      PROVE  Cardinality(B) = size
  <2> DEFINE h == Rank(s, k) \div size
  <2>1. Rank(s, k) \in Nat /\ h \in Nat
    BY <1>0, RankType, DivMod
  <2>2. size * h <= Rank(s, k) /\ (size * q) + size <= size * h
        /\ size * h \in Nat
    BY <1>1, <1>8, <2>1, QuotientIs, OneMore
  <2>3. ASSUME NEW x \in I
        PROVE  \E j \in P : f[j] = x
    <3>1. x \in Nat /\ x < (size * q) + size
      <4> DEFINE a == size * q
      <4>1. a \in Nat /\ x \in a..(a + size - 1)
        BY <1>3 DEF Ranks
      <4> HIDE DEF a
      <4>2. x \in Nat /\ x < a + size
        BY <4>1
      <4> QED
        BY <4>2 DEF a
    <3>2. x <= Rank(s, k)
      BY <1>3, <2>1, <2>2, <3>1
    <3>3. PICK j \in DOMAIN s : SameGroup(s, k, j) /\ Rank(s, j) = x
      BY <1>0, <3>1, <3>2, RankAttained
    <3>4. SameGroup(s, i, j) /\ Rank(s, j) \div size = q
      BY <1>4, <1>8, <3>1, <3>3 DEF SameGroup
    <3> QED
      BY <3>3, <3>4 DEF Slice
  <2>4. f \in Surjection(P, I)
    BY <1>5, <2>3 DEF Injection, Surjection
  <2> QED
    BY <1>6, <1>7, <2>4
<1> QED
  BY <1>6, <1>7, <1>8

\* Batches that share a resource are of one slice.
LEMMA SharedSlice ==
    ASSUME NEW s \in Listings, NEW i \in DOMAIN s, NEW k \in DOMAIN s,
           NEW size \in Nat \ {0},
           BatchOf(s, i, size) \cap BatchOf(s, k, size) # {}
    PROVE  /\ SameGroup(s, i, k)
           /\ Rank(s, i) \div size = Rank(s, k) \div size
           /\ BatchOf(s, i, size) = BatchOf(s, k, size)
<1>1. PICK a \in Slice(s, i, size), b \in Slice(s, k, size) : s[a] = s[b]
  BY DEF BatchOf, Slice
<1>2. a = b
  BY <1>1 DEF Listings, Slice
<1>3. /\ SameGroup(s, i, k)
      /\ Rank(s, i) \div size = Rank(s, k) \div size
  BY <1>2 DEF Slice, SameGroup
<1> QED
  BY <1>3 DEF BatchOf, SameGroup

\* Two heads of one slice are one.
LEMMA OneHead ==
    ASSUME NEW s \in Listings, NEW size \in Nat \ {0},
           NEW i \in Heads(s, size), NEW k \in Heads(s, size),
           SameGroup(s, i, k), Rank(s, i) \div size = Rank(s, k) \div size
    PROVE  i = k
<1>1. /\ s \in Seq(Resources) /\ i \in DOMAIN s /\ k \in DOMAIN s
      /\ Rank(s, i) % size = 0 /\ Rank(s, k) % size = 0
  BY DEF Listings, Heads
<1>2. Rank(s, i) \in Nat /\ Rank(s, k) \in Nat
  BY <1>1, RankType
<1> DEFINE q == Rank(s, i) \div size
<1>3. /\ Rank(s, i) = (size * q) + (Rank(s, i) % size)
      /\ Rank(s, k) = (size * q) + (Rank(s, k) % size)
  BY <1>2, DivMod
<1>4. Rank(s, i) = Rank(s, k)
  BY <1>1, <1>3
<1> QED
  BY <1>1, <1>4, RankIsPlace

\* Every resource is in the batch of a head.
LEMMA HeadOf ==
    ASSUME NEW s \in Listings, NEW k \in DOMAIN s, NEW size \in Nat \ {0}
    PROVE  \E i \in Heads(s, size) : s[k] \in BatchOf(s, i, size)
<1>1. s \in Seq(Resources)
  BY DEF Listings
<1>2. Rank(s, k) \in Nat
  BY <1>1, RankType
<1> DEFINE q == Rank(s, k) \div size
           first == size * q
<1>3. q \in Nat /\ first \in Nat /\ first <= Rank(s, k)
  <2>1. q \in Nat
    BY <1>2, DivMod
  <2> HIDE DEF q
  <2>2. first \in Nat
    BY <2>1
  <2> QED
    BY <1>2, <2>1, <2>2, QuotientIs DEF q
<1>4. first \div size = q /\ first % size = 0
  <2>1. first < (size * q) + size
    BY <1>3
  <2>2. first \div size = q
    BY <1>3, <2>1, QuotientIs
  <2>3. first = (size * q) + (first % size) /\ first % size \in Nat
    BY <1>3, <2>2, DivMod
  <2>4. first = first + (first % size) /\ first \in Nat
    BY <1>3, <2>3
  <2> HIDE DEF first
  <2>5. first % size = 0
    BY <2>3, <2>4
  <2> QED
    BY <2>2, <2>5
<1> HIDE DEF first
<1>5. PICK i \in DOMAIN s : SameGroup(s, k, i) /\ Rank(s, i) = first
  BY <1>1, <1>3, RankAttained
<1>6. i \in Heads(s, size)
  BY <1>4, <1>5 DEF Heads
<1>7. k \in Slice(s, i, size)
  BY <1>4, <1>5 DEF Slice, SameGroup
<1> QED
  BY <1>6, <1>7 DEF BatchOf, Slice

\* The cut of _fetch_all is a batching of what is kept: this is all that
\* Pipeline assumes of it.
LEMMA CutIsBatching ==
    ASSUME NEW s \in Listings, NEW size \in Nat \ {0}
    PROVE  IsBatching({BatchOf(s, t, size) : t \in Heads(s, size)},
                      ToSet(s), size)
<1> DEFINE C == {BatchOf(s, t, size) : t \in Heads(s, size)}
<1>1. /\ s \in Seq(Resources) /\ Heads(s, size) \subseteq DOMAIN s
      /\ ToSet(s) = {s[k] : k \in DOMAIN s}
  BY DEF Listings, Heads, ToSet
<1>2. UNION C = ToSet(s)
  <2>1. ASSUME NEW r \in ToSet(s)
        PROVE  r \in UNION C
    BY <1>1, HeadOf
  <2>2. ASSUME NEW t \in Heads(s, size)
        PROVE  BatchOf(s, t, size) \subseteq ToSet(s)
    BY <1>1 DEF BatchOf
  <2> QED
    BY <2>1, <2>2
<1>3. {} \notin C
  <2> SUFFICES ASSUME NEW t \in Heads(s, size)
               PROVE  BatchOf(s, t, size) # {}
    OBVIOUS
  <2>1. s[t] \in BatchOf(s, t, size)
    BY <1>1 DEF BatchOf, SameGroup
  <2> QED
    BY <2>1
<1>4. \A A, B \in C : A # B => A \cap B = {}
  BY <1>1, SharedSlice
<1>5. \A A \in C : Cardinality(A) <= size
  BY <1>1, SliceSize
<1>6. \A A \in C : \A q, r \in A : Group(q) = Group(r)
  <2> SUFFICES ASSUME NEW t \in Heads(s, size),
                      NEW q \in BatchOf(s, t, size),
                      NEW r \in BatchOf(s, t, size)
               PROVE  Group(q) = Group(r)
    OBVIOUS
  <2> QED
    BY DEF BatchOf, SameGroup
<1>7. ASSUME NEW t \in Heads(s, size), NEW u \in Heads(s, size),
             BatchOf(s, t, size) # BatchOf(s, u, size),
             NEW q \in BatchOf(s, t, size), NEW r \in BatchOf(s, u, size),
             Group(q) = Group(r)
      PROVE  \/ Cardinality(BatchOf(s, t, size)) = size
             \/ Cardinality(BatchOf(s, u, size)) = size
  <2>1. SameGroup(s, t, u) /\ SameGroup(s, u, t)
    <3>1. PICK j \in DOMAIN s : SameGroup(s, t, j) /\ q = s[j]
      BY DEF BatchOf
    <3>2. PICK k \in DOMAIN s : SameGroup(s, u, k) /\ r = s[k]
      BY DEF BatchOf
    <3> QED
      BY <1>7, <3>1, <3>2 DEF SameGroup
  <2>2. Rank(s, t) \div size # Rank(s, u) \div size
    BY <1>7, <2>1 DEF BatchOf, SameGroup
  <2>3. Rank(s, t) \div size \in Nat /\ Rank(s, u) \div size \in Nat
    BY <1>1, RankType, DivMod
  <2>4. \/ Rank(s, t) \div size < Rank(s, u) \div size
        \/ Rank(s, u) \div size < Rank(s, t) \div size
    BY <2>2, <2>3
  <2> QED
    BY <1>1, <2>1, <2>4, SliceSize
<1>8. \A A, B \in C :
          (A # B /\ \E q \in A, r \in B : Group(q) = Group(r))
              => Cardinality(A) = size \/ Cardinality(B) = size
  BY <1>7
<1> QED
  BY <1>2, <1>3, <1>4, <1>5, <1>6, <1>8 DEF IsBatching

\* Whatever is to be fetched can be cut: the step Fetch that Pipeline takes the
\* fan-out for always has an outcome.
THEOREM CutExists == \A S \in SUBSET Resources : Batchings(S, BatchSize) # {}
<1> TAKE S \in SUBSET Resources
<1>1. IsFiniteSet(S)
  BY ResourcesAssumption, FS_Subset
<1>2. Cardinality(S) \in Nat /\ ExistsBijection(1..Cardinality(S), S)
  BY <1>1, FS_CardinalityType
<1>3. PICK s \in Bijection(1..Cardinality(S), S) : TRUE
  BY <1>2 DEF ExistsBijection
<1>4. /\ s \in [1..Cardinality(S) -> S]
      /\ \A i, j \in 1..Cardinality(S) : s[i] = s[j] => i = j
      /\ \A r \in S : \E i \in 1..Cardinality(S) : s[i] = r
  BY <1>3 DEF Bijection, Injection, Surjection, IsInjective
<1>5. s \in Seq(Resources) /\ DOMAIN s = 1..Cardinality(S)
  BY <1>2, <1>4
<1>6. s \in Listings
  BY <1>4, <1>5 DEF Listings
<1>7. ToSet(s) = S
  BY <1>4, <1>5 DEF ToSet
<1> DEFINE C == {BatchOf(s, t, BatchSize) : t \in Heads(s, BatchSize)}
<1>8. IsBatching(C, S, BatchSize)
  BY <1>6, <1>7, CutIsBatching, SettingsAssumption
<1>9. C \in SUBSET SUBSET S
  BY <1>8 DEF IsBatching
<1> QED
  BY <1>8, <1>9 DEF Batchings

\* What is kept lists no resource twice, and does not change.
LEMMA KeptListed == Spec => [](TypeOK /\ kept \in Listings)
<1>1. Init => kept \in Listings
  <2> SUFFICES ASSUME Init PROVE kept \in Listings
    OBVIOUS
  <2>1. PICK S \in SUBSET Resources : kept \in SetToSeqs(S)
    BY DEF Init, SetToAllKPermutations
  <2>2. \A i, j \in DOMAIN kept : kept[i] = kept[j] => i = j
    BY <2>1 DEF SetToSeqs
  <2>3. kept \in Seq(Resources)
    BY TypedInit DEF TypeOK
  <2> QED
    BY <2>2, <2>3 DEF Listings
<1>2. kept \in Listings /\ [Next]_vars => (kept \in Listings)'
  BY DEF Next, Step, Start, Resume, Answer, Succeed, Fail, Gather, Returned,
         vars
<1> QED
  BY <1>1, <1>2, TypeCorrect, PTL DEF Spec

\* gather returns once, with a batching of the kept resources of which some
\* whole batches failed, every other resource being evaluable: Pipeline!Fetch
\* is what this module does, for any resources, limits and failures.
THEOREM FetchImplemented == Spec => ImplementsFetch
<1> DEFINE batches == {Batch(t) : t \in TaskIds}
           Promise ==
               /\ outcome = Pending /\ outcome' # Pending
               /\ IsBatching(batches, ToSet(kept), BatchSize)
               /\ outcome'.failed \subseteq batches
               /\ outcome'.evaluable = ToSet(kept) \ UNION outcome'.failed
<1>1. ASSUME TypeOK, kept \in Listings, Gather
      PROVE  Promise
  <2> DEFINE ok   == In({"ok"})
             lost == In({"failed"})
             raw  == UNION {Batch(t) : t \in ok}
  <2>1. /\ outcome = Pending
        /\ outcome' = [evaluable |-> {r \in ToSet(kept) : r \in raw},
                       failed |-> {Batch(t) : t \in lost}]
        /\ \A t \in TaskIds : state[t] \in {"ok", "failed"}
    BY <1>1 DEF Gather
  <2>2. BatchSize \in Nat \ {0} /\ DOMAIN state = TaskIds
        /\ TaskIds = Heads(kept, BatchSize) /\ TaskIds \subseteq DOMAIN kept
    BY <1>1, SettingsAssumption DEF TypeOK, TaskIds, Heads
  <2>3. ok \cup lost = TaskIds /\ ok \cap lost = {}
    BY <2>1, <2>2 DEF In
  <2> HIDE DEF ok, lost
  <2>4. IsBatching(batches, ToSet(kept), BatchSize)
    BY <1>1, <2>2, CutIsBatching DEF Batch
  <2>5. outcome'.failed \subseteq batches
    BY <2>1, <2>3
  <2>6. \A t \in ok, u \in lost : Batch(t) \cap Batch(u) = {}
    <3> SUFFICES ASSUME NEW t \in ok, NEW u \in lost,
                        Batch(t) \cap Batch(u) # {}
                 PROVE  FALSE
      OBVIOUS
    <3>1. t \in Heads(kept, BatchSize) /\ u \in Heads(kept, BatchSize)
      BY <2>2, <2>3
    <3>2. /\ SameGroup(kept, t, u)
          /\ Rank(kept, t) \div BatchSize = Rank(kept, u) \div BatchSize
      BY <1>1, <2>2, <3>1, SharedSlice DEF Batch
    <3>3. t = u
      BY <1>1, <2>2, <3>1, <3>2, OneHead
    <3> QED
      BY <2>3, <3>3
  <2>7. UNION batches = ToSet(kept)
    BY <2>4 DEF IsBatching
  <2>8. {r \in ToSet(kept) : r \in raw}
            = ToSet(kept) \ UNION {Batch(t) : t \in lost}
    BY <2>3, <2>6, <2>7
  <2>9. outcome' # Pending
    <3>1. \A t \in TaskIds : Batch(t) \subseteq ToSet(kept)
      BY <2>7
    <3>2. ToSet(kept) \subseteq Resources
      BY <1>1 DEF Listings, ToSet
    <3>3. {r \in ToSet(kept) : r \in raw} \in SUBSET Resources
      BY <3>2
    <3>4. {Batch(t) : t \in lost} \in SUBSET SUBSET Resources
      BY <2>3, <3>1, <3>2
    <3> QED
      BY <2>1, <3>3, <3>4, PendingAssumption
  <2> QED
    BY <2>1, <2>4, <2>5, <2>8, <2>9
<1>2. ASSUME TypeOK, kept \in Listings, [Next]_vars
      PROVE  [Promise]_outcome
  <2>1. CASE Gather
    BY <1>1, <1>2, <2>1
  <2>2. CASE UNCHANGED outcome
    BY <2>2
  <2> QED
    BY <1>2, <2>1, <2>2 DEF Next, Step, Start, Resume, Answer, Succeed, Fail,
                            Returned, vars
<1>3. TypeOK /\ kept \in Listings /\ [Next]_vars => [Promise]_outcome
  BY <1>2
<1> QED
  BY <1>3, KeptListed, PTL DEF Spec, ImplementsFetch

-----------------------------------------------------------------------------
(* One resource: its facts.                                                *)

\* The facts of a resource, from its row.
Facts(t) == Enrich(row.kind, Parse(row, t))

\* What the rows are: numbers where the kind has them.
LEMMA RowIs ==
    ASSUME row \in Rows
    PROVE  /\ row.kind \in Kinds /\ Null \notin Nat
           /\ row.kind \in {"sqldb", "sqlpool", "sqlmi", "eventhub",
                            "appserviceplan", "servicebus", "appgateway"}
                  => OrZero(row.capacity) \in Nat
           /\ row.kind = "appgateway" =>
                  OrZero(row.minimum) \in Nat /\ row.autoscale \in BOOLEAN
           /\ row.kind = "vnet" => OrZero(row.used) \in Nat
           /\ row.kind = "appserviceplan" => OrZero(row.sites) \in Nat
           /\ row.kind = "cosmos" => /\ row.provisioned \in Numbers
                                     /\ row.autoscale_max \in Numbers
  BY RowsAssumption DEF OrZero, Numbers

\* Every kind has its parser.
LEMMA ParseIs ==
    ASSUME NEW r, NEW t
    PROVE  /\ r.kind = "vm" => Parse(r, t) = ParseVm(r, t)
           /\ r.kind = "sqldb" => Parse(r, t) = ParseSqlDb(r, t)
           /\ r.kind = "sqlpool" => Parse(r, t) = ParseSqlPool(r, t)
           /\ r.kind = "sqlmi" => Parse(r, t) = ParseSqlMi(r, t)
           /\ r.kind = "postgres" => Parse(r, t) = ParsePostgres(r, t)
           /\ r.kind = "cosmos" => Parse(r, t) = ParseCosmos(r, t)
           /\ r.kind = "eventhub" => Parse(r, t) = ParseEventHub(r, t)
           /\ r.kind = "vnet" => Parse(r, t) = ParseVnet(r, t)
           /\ r.kind = "appserviceplan" =>
                  Parse(r, t) = ParseAppServicePlan(r, t)
           /\ r.kind = "aks" => Parse(r, t) = ParseAks(r, t)
           /\ r.kind = "redis" => Parse(r, t) = ParseRedis(r, t)
           /\ r.kind = "servicebus" => Parse(r, t) = ParseServiceBus(r, t)
           /\ r.kind = "appgateway" => Parse(r, t) = ParseAppGateway(r, t)
           /\ r.kind = "storage" => Parse(r, t) = ParseStorage(r, t)
  BY DEF Parse

\* Two kinds have facts that need the type's rules.
LEMMA EnrichIs ==
    ASSUME NEW k, NEW p
    PROVE  /\ k = "eventhub" => Enrich(k, p) = EnrichEventHub(p)
           /\ k = "appgateway" => Enrich(k, p) = EnrichAppGateway(p)
           /\ k \notin {"eventhub", "appgateway"} => Enrich(k, p) = p
  BY DEF Enrich

\* The spelling of a text does not reach its lower case.
LEMMA LowerIs ==
    ASSUME NEW w, NEW t
    PROVE  Lower(Text(w, t)) = w
  BY DEF Lower, Text

\* How a database is sold.
LEMMA ModelIs ==
    ASSUME NEW w, NEW s, NEW t
    PROVE  PurchasingModel(Text(w, t), Text(s, t)) =
              IF w \in {"basic", "standard", "premium"} THEN "dtu"
              ELSE IF s = "gp_s_gen5_2" THEN "serverless" ELSE "vcore"
  BY LowerIs DEF PurchasingModel

\* The rate of a unit.
LEMMA RateIs ==
    ASSUME NEW w, NEW t
    PROVE  UnitMbps(Text(w, t)) =
              IF w = "premium" THEN MbPerPu
              ELSE IF w \in {"basic", "standard"} THEN MbPerTu ELSE Null
  BY LowerIs DEF UnitMbps

\* The facts the two rules enrich.
LEMMA EventHubFacts ==
    ASSUME row \in Rows, NEW t, row.kind = "eventhub"
    PROVE  LET p == Facts(t)
               rate == UnitMbps(Text(row.tier, t))
               sized == rate # Null /\ OrZero(row.capacity) > 0
           IN  /\ p.tier = Text(row.tier, t)
               /\ p.capacity = OrZero(row.capacity)
               /\ "capacity_bytes_per_second" \in DOMAIN p <=> sized
               /\ sized => p["capacity_bytes_per_second"] =
                              OrZero(row.capacity) * rate * BytesPerMb
<1>1. OrZero(row.capacity) \in Nat
  BY RowIs
<1>2. Facts(t) = EnrichEventHub(ParseEventHub(row, t))
  BY ParseIs, EnrichIs DEF Facts
<1> QED
  BY <1>1, <1>2 DEF EnrichEventHub, ParseEventHub, With

\* Likewise the gateways: their instances, and the units these reserve.
LEMMA GatewayFacts ==
    ASSUME row \in Rows, NEW t, row.kind = "appgateway"
    PROVE  LET p == Facts(t)
               count == IF row.autoscale THEN OrZero(row.minimum)
                                         ELSE OrZero(row.capacity)
           IN  /\ p.tier = Text(row.tier, t) /\ p.state = Text(row.state, t)
               /\ p.v2 <=> row.tier \in {"standard_v2", "waf_v2"}
               /\ Instances(p) = count
               /\ "reserved_capacity_units" \in DOMAIN p
                     <=> p.v2 /\ count * CuPerInstance > 0
               /\ "reserved_capacity_units" \in DOMAIN p =>
                     p["reserved_capacity_units"] = count * CuPerInstance
<1> DEFINE q == ParseAppGateway(row, t)
           c == IF row.autoscale THEN OrZero(row.minimum)
                                 ELSE OrZero(row.capacity)
<1>1. OrZero(row.capacity) \in Nat /\ OrZero(row.minimum) \in Nat
  BY RowIs
<1>2. Facts(t) = EnrichAppGateway(q)
  BY ParseIs, EnrichIs DEF Facts
<1>3. /\ q.tier = Text(row.tier, t) /\ q.state = Text(row.state, t)
      /\ q.v2 <=> row.tier \in {"standard_v2", "waf_v2"}
      /\ q.autoscale = row.autoscale /\ q.capacity = OrZero(row.capacity)
      /\ q.min_capacity = OrZero(row.minimum)
      /\ "reserved_capacity_units" \notin DOMAIN q
      /\ DOMAIN q = {"tier", "state", "v2", "autoscale", "capacity",
                     "min_capacity"}
  BY LowerIs DEF ParseAppGateway
<1>4. Instances(q) = c
  BY <1>3 DEF Instances
<1>5. c * CuPerInstance \in Nat /\ c \in Nat
  BY <1>1, RulesAssumption
<1> HIDE DEF q, c
<1>6. CASE ~q.v2 \/ c * CuPerInstance <= 0
  <2>1. Facts(t) = q
    BY <1>2, <1>4, <1>6 DEF EnrichAppGateway
  <2> QED
    BY <1>3, <1>4, <1>5, <1>6, <2>1 DEF c
<1>7. CASE q.v2 /\ c * CuPerInstance > 0
  <2>1. Facts(t) = With(q, "reserved_capacity_units", c * CuPerInstance)
    BY <1>2, <1>4, <1>5, <1>7 DEF EnrichAppGateway
  <2>2. /\ Facts(t).tier = q.tier /\ Facts(t).state = q.state
        /\ Facts(t).v2 = q.v2 /\ Facts(t).autoscale = q.autoscale
        /\ Facts(t).capacity = q.capacity
        /\ Facts(t).min_capacity = q.min_capacity
        /\ "reserved_capacity_units" \in DOMAIN Facts(t)
        /\ Facts(t)["reserved_capacity_units"] = c * CuPerInstance
    BY <1>3, <2>1 DEF With
  <2> QED
    BY <1>3, <1>4, <1>5, <1>7, <2>2 DEF c, Instances
<1> QED
  BY <1>5, <1>6, <1>7

\* What a kind's active check asks of which fact.
LEMMA ActiveIs ==
    ASSUME NEW k, NEW p
    PROVE  /\ k = "vm" => (Active(k, p) <=>
                 RequireState(p.power_state, "powerstate/running"))
           /\ k = "aks" => (Active(k, p) <=>
                 RequireState(p.power_state, "running"))
           /\ k = "sqldb" => (Active(k, p) <=>
                 RequireState(p.status, "online"))
           /\ k = "appserviceplan" => (Active(k, p) <=>
                 RequireState(p.status, "ready"))
           /\ k = "servicebus" => (Active(k, p) <=>
                 RequireState(p.status, "active"))
           /\ k \in {"sqlpool", "sqlmi", "postgres"} => (Active(k, p) <=>
                 RequireState(p.state, "ready"))
           /\ k \in {"redis", "storage"} => (Active(k, p) <=>
                 RequireState(p.state, "succeeded"))
           /\ k = "appgateway" => (Active(k, p) <=>
                 RequireState(p.state, "running"))
           /\ k \in {"cosmos", "eventhub", "vnet"} => Active(k, p)
  BY DEF Active

\* What a kind's finops_skip is.
LEMMA SkipIs ==
    ASSUME NEW k, NEW p
    PROVE  /\ k = "sqldb" =>
                 (FinopsSkip(k, p) <=> SkipSqlDb(p))
           /\ k = "cosmos" =>
                 (FinopsSkip(k, p) <=> SkipCosmos(p))
           /\ k = "eventhub" =>
                 (FinopsSkip(k, p) <=> SkipEventHub(p))
           /\ k = "appserviceplan" =>
                 (FinopsSkip(k, p) <=> SkipAppServicePlan(p))
           /\ k = "servicebus" =>
                 (FinopsSkip(k, p) <=> SkipServiceBus(p))
           /\ k = "appgateway" =>
                 (FinopsSkip(k, p) <=> SkipAppGateway(p))
           /\ k = "storage" =>
                 (FinopsSkip(k, p) <=> SkipStorage(p))
           /\ k \in {"vm", "sqlpool", "sqlmi", "postgres", "vnet", "aks",
                     "redis"} => ~FinopsSkip(k, p)
  BY DEF FinopsSkip

\* The metrics of a kind.
LEMMA MetricsIs ==
    ASSUME NEW k, NEW m
    PROVE  /\ k = "vnet" => Metrics(k, m) =
                 IF m = "ops" THEN {"subnet_ip"} ELSE {}
           /\ k = "sqldb" => Metrics(k, m) =
                 IF m = "ops" THEN {"dtu", "cpu", "app_cpu", "workers"}
                              ELSE {"dtu", "cpu"}
           /\ k = "sqlpool" => Metrics(k, m) = {"dtu", "cpu"}
           /\ k = "eventhub" => Metrics(k, m) =
                 IF m = "ops" THEN {"throttled", "cpu"} ELSE {"ingress"}
           /\ k = "servicebus" => Metrics(k, m) =
                 IF m = "ops" THEN {"throttled", "cpu"} ELSE {"cpu"}
           /\ k = "appgateway" => Metrics(k, m) =
                 IF m = "ops" THEN {"unhealthy_hosts", "cpu"} ELSE {"capacity"}
           /\ k = "storage" => Metrics(k, m) =
                 IF m = "ops" THEN {"throttled"} ELSE {"transactions"}
           /\ k \in {"vm", "sqlmi", "postgres", "cosmos", "appserviceplan",
                     "aks", "redis"} => Metrics(k, m) = {"cpu"}
  BY DEF Metrics

\* Which metric applies to which resource.
LEMMA AppliesIs ==
    ASSUME NEW k, NEW p, NEW key
    PROVE  /\ key = "dtu" => (Applies(k, p, key)
                 <=> p.purchasing_model = "dtu")
           /\ key = "app_cpu" => (Applies(k, p, key)
                 <=> p.purchasing_model = "serverless")
           /\ key = "ingress" => (Applies(k, p, key)
                 <=> Lower(p.tier) \in {"basic", "standard", "premium"})
           /\ key = "capacity" => (Applies(k, p, key) <=> p.v2)
           /\ key = "cpu" /\ k \in {"sqldb", "sqlpool"} =>
                 (Applies(k, p, key) <=> p.purchasing_model = "vcore")
           /\ key = "cpu" /\ k \in {"eventhub", "servicebus"} =>
                 (Applies(k, p, key) <=> Lower(p.tier) = "premium")
           /\ key = "cpu" /\ k = "appgateway" =>
                 (Applies(k, p, key) <=> ~p.v2)
           /\ key = "cpu" /\ k \notin {"sqldb", "sqlpool", "eventhub",
                                      "servicebus", "appgateway"} =>
                 Applies(k, p, key)
           /\ key \in {"subnet_ip", "workers", "throttled", "unhealthy_hosts",
                       "transactions"} => Applies(k, p, key)
  BY DEF Applies

\* The metrics there are.
Keys == {"subnet_ip", "dtu", "cpu", "app_cpu", "workers", "throttled",
         "ingress", "unhealthy_hosts", "capacity", "transactions"}

\* Which metrics resolve, and to what.
Resolved(p) == {key \in Metrics(row.kind, mode) :
                   /\ Applies(row.kind, p, key)
                   /\ Derived(key) => CapacityProp(key) \in DOMAIN p}

\* The series of a resource.
LEMMA SeriesIs ==
    ASSUME NEW p
    PROVE  LET s == ResolveSeries(row.kind, p)
           IN  /\ DOMAIN s = Resolved(p)
               /\ \A key \in DOMAIN s :
                     /\ key = "subnet_ip" => s[key] = p.utilization_percent
                     /\ key # "subnet_ip" /\ load = Missing => s[key] =
                           IF row.kind = "storage" THEN 0 ELSE Missing
                     /\ key = "ingress" /\ load # Missing => s[key] =
                           Round(10000 * load, p["capacity_bytes_per_second"])
                     /\ key = "capacity" /\ load # Missing => s[key] =
                           Round(10000 * load, p["reserved_capacity_units"])
                     /\ key \notin {"subnet_ip", "ingress", "capacity"}
                           /\ load # Missing => s[key] = 100 * load
<1> DEFINE value(key) ==
       CASE key = "subnet_ip" -> p.utilization_percent
         [] key # "subnet_ip" /\ load = Missing ->
               IF row.kind = "storage" THEN 0 ELSE Missing
         [] OTHER -> IF Derived(key)
                     THEN Round(10000 * load, p[CapacityProp(key)])
                     ELSE 100 * load
<1>1. ResolveSeries(row.kind, p) = [key \in Resolved(p) |-> value(key)]
  BY DEF ResolveSeries, Resolved
<1>2. ASSUME NEW key
      PROVE  /\ key = "subnet_ip" => value(key) = p.utilization_percent
             /\ key # "subnet_ip" /\ load = Missing => value(key) =
                   IF row.kind = "storage" THEN 0 ELSE Missing
             /\ key # "subnet_ip" /\ load # Missing => value(key) =
                   IF Derived(key)
                   THEN Round(10000 * load, p[CapacityProp(key)])
                   ELSE 100 * load
  OBVIOUS
<1>3. /\ \A key : Derived(key) <=> key \in {"ingress", "capacity"}
      /\ CapacityProp("ingress") = "capacity_bytes_per_second"
      /\ CapacityProp("capacity") = "reserved_capacity_units"
  BY DEF Derived, CapacityProp
<1> HIDE DEF value
<1>4. DOMAIN ResolveSeries(row.kind, p) = Resolved(p)
      /\ \A key \in Resolved(p) : ResolveSeries(row.kind, p)[key] = value(key)
  BY <1>1
<1> QED
  BY <1>2, <1>3, <1>4

\* When a recommender knows the size.
LEMMA KnowsIs ==
    ASSUME NEW r, NEW p, NEW s
    PROVE  /\ r.kind \in {"vm", "postgres", "redis"} =>
                 (KnowsSize(r, p, s) <=> Lower(p.sku) \in Catalog)
           /\ r.kind = "sqldb" =>
                 (KnowsSize(r, p, s) <=> KnowsDatabase(p, s))
           /\ r.kind = "sqlpool" /\ p.purchasing_model = "dtu" =>
                 (KnowsSize(r, p, s) <=> KnowsDtu(r.kind, p))
           /\ r.kind = "sqlpool" /\ p.purchasing_model # "dtu" =>
                 (KnowsSize(r, p, s) <=> p.capacity > 0)
           /\ r.kind \in {"sqlmi", "servicebus"} =>
                 (KnowsSize(r, p, s) <=> p.capacity > 0)
           /\ r.kind = "appgateway" =>
                 (KnowsSize(r, p, s) <=>
                     /\ Instances(p) > 0
                     /\ "reserved_capacity_units" \in DOMAIN p)
           /\ r.kind = "appserviceplan" =>
                 (KnowsSize(r, p, s) <=> KnowsPlan(p, s["cpu"]))
           /\ r.kind = "aks" =>
                 (KnowsSize(r, p, s) <=>
                     \A i \in DOMAIN p.pools : KnowsPool(p.pools[i]))
           /\ r.kind = "cosmos" =>
                 (KnowsSize(r, p, s) <=> \/ OrZero(r.autoscale_max) > 0
                                         \/ OrZero(r.provisioned) > 0)
           /\ r.kind = "storage" => (KnowsSize(r, p, s) <=> r.used # Null)
           /\ r.kind \in {"eventhub", "vnet"} => KnowsSize(r, p, s)
<1>1. ASSUME r.kind \in {"vm", "postgres", "redis"}
      PROVE  KnowsSize(r, p, s) <=> Lower(p.sku) \in Catalog
  BY <1>1 DEF KnowsSize
<1>2. ASSUME r.kind = "sqldb"
      PROVE  KnowsSize(r, p, s) <=> KnowsDatabase(p, s)
  BY <1>2 DEF KnowsSize
<1>3. ASSUME r.kind = "sqlpool", p.purchasing_model = "dtu"
      PROVE  KnowsSize(r, p, s) <=> KnowsDtu(r.kind, p)
  BY <1>3 DEF KnowsSize
<1>4. ASSUME \/ r.kind = "sqlpool" /\ p.purchasing_model # "dtu"
             \/ r.kind \in {"sqlmi", "servicebus"}
      PROVE  KnowsSize(r, p, s) <=> p.capacity > 0
  BY <1>4 DEF KnowsSize
<1>5. ASSUME r.kind = "appgateway"
      PROVE  KnowsSize(r, p, s) <=>
                /\ Instances(p) > 0
                /\ "reserved_capacity_units" \in DOMAIN p
  BY <1>5 DEF KnowsSize
<1>6. ASSUME r.kind = "appserviceplan"
      PROVE  KnowsSize(r, p, s) <=> KnowsPlan(p, s["cpu"])
  BY <1>6 DEF KnowsSize
<1>7. ASSUME r.kind = "aks"
      PROVE  KnowsSize(r, p, s) <=>
                \A i \in DOMAIN p.pools : KnowsPool(p.pools[i])
  BY <1>7 DEF KnowsSize
<1>8. ASSUME r.kind = "cosmos"
      PROVE  KnowsSize(r, p, s) <=> \/ OrZero(r.autoscale_max) > 0
                                    \/ OrZero(r.provisioned) > 0
  BY <1>8 DEF KnowsSize
<1>9. ASSUME r.kind = "storage"
      PROVE  KnowsSize(r, p, s) <=> r.used # Null
  BY <1>9 DEF KnowsSize
<1>10. ASSUME r.kind \in {"eventhub", "vnet"}
       PROVE  KnowsSize(r, p, s)
  BY <1>10 DEF KnowsSize
<1> QED
  BY <1>1, <1>2, <1>3, <1>4, <1>5, <1>6, <1>7, <1>8, <1>9, <1>10

\* What is advised to whom.
LEMMA AdviceIs ==
    ASSUME NEW k, NEW p, NEW s
    PROVE  /\ k = "eventhub" => Advice(k, p, s) =
                 RecommendEventHub(p, s["ingress"])
           /\ k = "appgateway" => Advice(k, p, s) =
                 RecommendAppGateway(p, s["capacity"])
           /\ k \notin {"eventhub", "appgateway"} => Advice(k, p, s) = 0
  BY DEF Advice

-----------------------------------------------------------------------------
(* What becomes of a resource, by its row.                                 *)

\* When a metric resolves.
LEMMA ResolvedIs ==
    ASSUME NEW p, NEW key
    PROVE  key \in Resolved(p) <=>
              /\ key \in Metrics(row.kind, mode)
              /\ Applies(row.kind, p, key)
              /\ key = "ingress" => "capacity_bytes_per_second" \in DOMAIN p
              /\ key = "capacity" => "reserved_capacity_units" \in DOMAIN p
<1>1. /\ \A k : Derived(k) <=> k \in {"ingress", "capacity"}
      /\ CapacityProp("ingress") = "capacity_bytes_per_second"
      /\ CapacityProp("capacity") = "reserved_capacity_units"
  BY DEF Derived, CapacityProp
<1> QED
  BY <1>1 DEF Resolved

\* A resource the run keeps is measured, but for those Judged names.
LEMMA Measured ==
    ASSUME row \in Rows, mode \in {"ops", "finops"}, NEW t \in BOOLEAN,
           Resolved(Facts(t)) = {},
           mode = "finops" => ~FinopsSkip(row.kind, Facts(t))
    PROVE  /\ mode = "finops"
           /\ \/ row.kind = "vnet"
              \/ row.kind = "sqldb" /\ row.sku = "gp_s_gen5_2"
              \/ /\ row.kind = "eventhub"
                 /\ \/ OrZero(row.capacity) = 0
                    \/ row.tier \notin {"basic", "standard", "premium",
                                       "dedicated"}
<1> DEFINE p == Facts(t)
<1>1. row.kind \in Kinds
  BY RowIs
<1>2. \A key : ~(/\ key \in Metrics(row.kind, mode)
                 /\ Applies(row.kind, p, key)
                 /\ key = "ingress" =>
                       "capacity_bytes_per_second" \in DOMAIN p
                 /\ key = "capacity" => "reserved_capacity_units" \in DOMAIN p)
  BY ResolvedIs
<1>3. row.kind \notin {"eventhub", "appgateway"} => p = Parse(row, t)
  BY EnrichIs DEF Facts
<1>12. mode = "finops" => ~FinopsSkip(row.kind, p)
  OBVIOUS
<1> HIDE DEF p
<1>4. CASE row.kind \in {"vm", "sqlmi", "postgres", "cosmos",
                         "appserviceplan", "aks", "redis"}
  <2>1. "cpu" \in Metrics(row.kind, mode)
    BY <1>4, MetricsIs
  <2>2. Applies(row.kind, p, "cpu")
    BY <1>4, AppliesIs
  <2> QED
    BY <1>2, <2>1, <2>2
<1>5. CASE row.kind = "vnet"
  BY <1>2, <1>5, MetricsIs, AppliesIs
<1>6. CASE row.kind = "sqldb"
  <2>1. p.purchasing_model =
           PurchasingModel(Text(row.tier, t), Text(row.sku, t))
    BY <1>3, <1>6, ParseIs DEF ParseSqlDb
  <2>2. p.purchasing_model \in {"dtu", "vcore"} \/ row.sku = "gp_s_gen5_2"
    BY <2>1, ModelIs
  <2>3. mode # "ops"
    BY <1>2, <1>6, MetricsIs, AppliesIs
  <2>4. Metrics(row.kind, mode) = {"dtu", "cpu"}
    BY <1>6, <2>3, MetricsIs
  <2>5. p.purchasing_model \notin {"dtu", "vcore"}
    BY <1>2, <1>6, <2>4, AppliesIs
  <2> QED
    BY <1>6, <2>2, <2>3, <2>5
<1>7. CASE row.kind = "sqlpool"
  <2>1. p.purchasing_model \in {"dtu", "vcore"}
    BY <1>3, <1>7, ParseIs DEF ParseSqlPool
  <2>2. Metrics(row.kind, mode) = {"dtu", "cpu"}
    BY <1>7, MetricsIs
  <2>3. Applies(row.kind, p, "dtu") \/ Applies(row.kind, p, "cpu")
    BY <1>7, <2>1, AppliesIs
  <2> QED
    BY <1>2, <2>2, <2>3
<1>8. CASE row.kind = "eventhub"
  <2>1. /\ p.tier = Text(row.tier, t)
        /\ OrZero(row.capacity) > 0 =>
              \/ row.tier \notin {"basic", "standard", "premium"}
              \/ "capacity_bytes_per_second" \in DOMAIN p
    <3>1. UnitMbps(Text(row.tier, t)) # Null
             <=> row.tier \in {"basic", "standard", "premium"}
      BY RateIs, RulesAssumption, RowsAssumption
    <3> QED
      BY <1>8, <3>1, EventHubFacts DEF p
  <2>2. Lower(p.tier) = row.tier /\ OrZero(row.capacity) \in Nat
    BY <1>8, <2>1, LowerIs, RowIs
  <2>3. mode = "finops"
    <3>1. mode = "ops" => "throttled" \in Metrics(row.kind, mode)
      BY <1>8, MetricsIs
    <3>2. Applies(row.kind, p, "throttled")
      BY AppliesIs
    <3> QED
      BY <1>2, <3>1, <3>2
  <2>4. row.tier # "dedicated"
    BY <1>8, <1>12, <2>2, <2>3, SkipIs DEF SkipEventHub
  <2>5. Metrics(row.kind, mode) = {"ingress"}
    BY <1>8, <2>3, MetricsIs
  <2>6. \/ row.tier \notin {"basic", "standard", "premium"}
        \/ "capacity_bytes_per_second" \notin DOMAIN p
    BY <1>2, <2>2, <2>5, AppliesIs
  <2> QED
    BY <1>8, <2>1, <2>2, <2>3, <2>4, <2>6
<1>9. CASE row.kind = "servicebus"
  <2>1. mode = "finops"
    BY <1>2, <1>9, MetricsIs, AppliesIs
  <2>2. Lower(p.tier) = "premium"
    BY <1>9, <1>12, <2>1, SkipIs DEF SkipServiceBus
  <2>3. Metrics(row.kind, mode) = {"cpu"}
    BY <1>9, <2>1, MetricsIs
  <2>4. Applies(row.kind, p, "cpu")
    BY <1>9, <2>2, AppliesIs
  <2> QED
    BY <1>2, <2>3, <2>4
<1>10. CASE row.kind = "appgateway"
  <2>1. mode = "finops"
    BY <1>2, <1>10, MetricsIs, AppliesIs
  <2>2. p.v2 /\ "reserved_capacity_units" \in DOMAIN p
    BY <1>10, <1>12, <2>1, SkipIs DEF SkipAppGateway
  <2> QED
    BY <1>2, <1>10, <2>1, <2>2, MetricsIs, AppliesIs
<1>11. CASE row.kind = "storage"
  <2>1. \E key \in Metrics(row.kind, mode) :
           key \in {"throttled", "transactions"}
    BY <1>11, MetricsIs
  <2>2. \A key \in {"throttled", "transactions"} :
           Applies(row.kind, p, key)
    BY AppliesIs
  <2> QED
    BY <1>2, <2>1, <2>2
<1> QED
  BY <1>1, <1>4, <1>5, <1>6, <1>7, <1>8, <1>9, <1>10, <1>11 DEF Kinds

\* What is sold by DTU, and how its tier is spelled.
LEMMA HowSold ==
    ASSUME row.kind \in {"sqldb", "sqlpool"}, NEW t
    PROVE  /\ Facts(t).tier = Text(row.tier, t)
           /\ Facts(t).purchasing_model = "dtu"
                 <=> row.tier \in {"basic", "standard", "premium"}
<1> DEFINE p == Facts(t)
<1>1. p = Parse(row, t)
  BY EnrichIs DEF Facts
<1> HIDE DEF p
<1>2. CASE row.kind = "sqldb"
  <2>1. /\ p.tier = Text(row.tier, t)
        /\ p.purchasing_model =
              PurchasingModel(Text(row.tier, t), Text(row.sku, t))
    BY <1>1, <1>2, ParseIs DEF ParseSqlDb
  <2> QED
    BY <2>1, ModelIs DEF p
<1>3. CASE row.kind = "sqlpool"
  <2>1. /\ p.tier = Text(row.tier, t)
        /\ p.purchasing_model =
              IF Lower(Text(row.tier, t)) \in {"basic", "standard", "premium"}
              THEN "dtu" ELSE "vcore"
    BY <1>1, <1>3, ParseIs DEF ParseSqlPool
  <2> QED
    BY <2>1, LowerIs DEF p
<1> QED
  BY <1>2, <1>3

\* The facts that size a plan,
LEMMA PlanFacts ==
    ASSUME row \in Rows, row.kind = "appserviceplan", NEW t
    PROVE  LET p == Facts(t)
           IN  /\ Lower(p.sku_name) = row.sku
               /\ p.instances = OrZero(row.capacity)
               /\ p.sites = OrZero(row.sites)
               /\ p.elastic_scale = row.elastic
<1>1. Facts(t) = ParseAppServicePlan(row, t)
  BY ParseIs, EnrichIs DEF Facts
<1> QED
  BY <1>1, LowerIs DEF ParseAppServicePlan

\* and a cluster: its pools.
LEMMA PoolFacts ==
    ASSUME row.kind = "aks", NEW t
    PROVE  LET pools == Facts(t).pools
           IN  /\ DOMAIN pools = DOMAIN row.pools
               /\ \A i \in DOMAIN pools :
                     /\ Lower(pools[i].vm_size) = row.pools[i].sku
                     /\ pools[i].autoscale = row.pools[i].autoscale
                     /\ pools[i].count = OrZero(row.pools[i].count)
                     /\ pools[i].min_count = OrZero(row.pools[i].minimum)
<1>1. Facts(t) = ParseAks(row, t)
  BY ParseIs, EnrichIs DEF Facts
<1>2. Facts(t).pools = [i \in DOMAIN row.pools |-> ParsePool(row.pools[i], t)]
  BY <1>1 DEF ParseAks
<1> QED
  BY <1>2, LowerIs DEF ParsePool

\* A plan that stays as it is has no fewer instances that carry its load.
LEMMA NoFewer ==
    ASSUME NEW c \in Nat, NEW x \in Nat, NEW n \in MinPlan .. c - 1,
           NEW p, p.instances = c,
           ~(PlanTarget(p, 100 * x) < c)
    PROVE  10000 * n < c * x * Headroom
<1> SUFFICES ASSUME ~(10000 * n < c * x * Headroom)
             PROVE  FALSE
  OBVIOUS
<1> DEFINE y == c * x * Headroom
           z == c * (100 * x) * Headroom
<1>0. MinPlan \in Nat /\ n \in Nat /\ MinPlan <= n /\ n < c /\ Headroom \in Nat
  BY RulesAssumption
<1>1. c * x \in Nat /\ c * (100 * x) = 100 * (c * x)
  OBVIOUS
<1>2. y \in Nat /\ z = 100 * y
  <2> DEFINE w == c * x
  <2>1. w \in Nat /\ z = (100 * w) * Headroom
    BY <1>1
  <2> HIDE DEF w
  <2>2. (100 * w) * Headroom = 100 * (w * Headroom) /\ w * Headroom \in Nat
    BY <1>0, <2>1
  <2> QED
    BY <2>1, <2>2 DEF w
<1>3. y <= 10000 * n
  BY <1>0, <1>2
<1>4. PlanTarget(p, 100 * x) = AtLeast(MinPlan, Ceiling(z, 10000 * 100))
  BY DEF PlanTarget
<1> HIDE DEF y, z
<1>5. Ceiling(z, 10000 * 100) \in Int /\ Ceiling(z, 10000 * 100) <= n
  BY <1>0, <1>2, <1>3 DEF Ceiling
<1> QED
  BY <1>0, <1>4, <1>5 DEF AtLeast

\* A measured resource whose size no recommender knows is one Unsized names.
LEMMA Known ==
    ASSUME row \in Rows, NEW t \in BOOLEAN, Resolved(Facts(t)) # {},
           mode = "finops", ~FinopsSkip(row.kind, Facts(t)),
           row.kind # "storage" => load \in Nat /\ load # Missing,
           ~KnowsSize(row, Facts(t), ResolveSeries(row.kind, Facts(t)))
    PROVE  Unsized(row, t)
<1> DEFINE p == Facts(t)
           s == ResolveSeries(row.kind, Facts(t))
<1>1. row.kind \in Kinds
  BY RowIs
<1>3. row.kind \notin {"eventhub", "appgateway"} => p = Parse(row, t)
  BY EnrichIs DEF Facts
<1>4. ~KnowsSize(row, p, s) /\ ~FinopsSkip(row.kind, p)
  OBVIOUS
<1> HIDE DEF p, s
<1>5. CASE row.kind \in {"vm", "postgres", "redis"}
  <2>1. p.sku = Text(row.sku, t)
    BY <1>3, <1>5, ParseIs DEF ParseVm, ParsePostgres, ParseRedis
  <2> QED
    BY <1>4, <1>5, <2>1, KnowsIs, LowerIs DEF Unsized
<1>6. CASE row.kind \in {"sqldb", "sqlpool"}
  <2>1. p.capacity = OrZero(row.capacity) /\ OrZero(row.capacity) \in Nat
    BY <1>3, <1>6, ParseIs, RowIs DEF ParseSqlDb, ParseSqlPool
  <2>2. p.purchasing_model = "dtu"
           => row.tier \in {"basic", "standard", "premium"}
    <3>1. CASE row.kind = "sqldb"
      BY <1>3, <3>1, ParseIs, ModelIs DEF ParseSqlDb
    <3>2. CASE row.kind = "sqlpool"
      BY <1>3, <3>2, ParseIs, LowerIs DEF ParseSqlPool
    <3> QED
      BY <1>6, <3>1, <3>2
  <2>3. row.kind = "sqlpool" /\ p.purchasing_model # "dtu"
           => OrZero(row.capacity) = 0
    BY <1>4, <2>1, KnowsIs
  <2>4. row.kind = "sqldb" /\ p.purchasing_model # "dtu"
           => OrZero(row.capacity) = 0 \/ row.sku \in Bare
    <3>1. row.kind = "sqldb" => Lower(p.sku) = row.sku
      BY <1>3, ParseIs, LowerIs DEF ParseSqlDb
    <3>2. row.kind = "sqldb" => ~KnowsDatabase(p, s)
      BY <1>4, KnowsIs
    <3> QED
      BY <2>1, <3>1, <3>2 DEF KnowsDatabase, NamesTarget
  <2>5. p.purchasing_model = "dtu" => ~KnowsDtu(row.kind, p)
    BY <1>4, <1>6, KnowsIs DEF KnowsDatabase
  <2>6. row.kind = "sqldb" => p.sku = Text(row.sku, t)
    BY <1>3, <1>6, ParseIs DEF ParseSqlDb, ParseSqlPool
  <2>7. p.tier = Text(row.tier, t)
    BY <1>6, HowSold DEF p
  <2>8. p.purchasing_model = "dtu" =>
           \/ ~t \/ row.tier \notin Dtu
           \/ row.kind = "sqldb" /\ row.sku \notin Objectives
    <3> SUFFICES ASSUME t = TRUE, row.tier \in Dtu, ~KnowsDtu(row.kind, p)
                 PROVE  row.kind = "sqldb" /\ row.sku \notin Objectives
      BY <2>5
    <3>1. p.tier \in {Text(w, TRUE) : w \in Dtu}
      BY <2>7
    <3>2. row.sku \in Objectives /\ row.kind = "sqldb"
             => p.sku \in {Text(w, TRUE) : w \in Objectives}
      BY <2>6
    <3> QED
      BY <3>1, <3>2 DEF KnowsDtu
  <2> QED
    BY <1>6, <2>2, <2>3, <2>4, <2>8 DEF Unsized
<1>7. CASE row.kind \in {"sqlmi", "servicebus"}
  <2>1. p.capacity = OrZero(row.capacity)
    BY <1>3, <1>7, ParseIs DEF ParseSqlMi, ParseServiceBus
  <2> QED
    BY <1>4, <1>7, <2>1, KnowsIs, RowIs DEF Unsized
<1>8. CASE row.kind = "appgateway"
  <2>1. "reserved_capacity_units" \in DOMAIN p
    BY <1>4, <1>8, SkipIs DEF SkipAppGateway
  <2> DEFINE c == IF row.autoscale THEN OrZero(row.minimum)
                                   ELSE OrZero(row.capacity)
  <2>2. Instances(p) = c /\ c * CuPerInstance > 0
    BY <1>8, <2>1, GatewayFacts DEF p
  <2>3. c \in Nat /\ CuPerInstance \in Nat
    BY <1>8, RowIs, RulesAssumption
  <2>4. c > 0
    BY <2>2, <2>3
  <2> QED
    BY <1>4, <1>8, <2>1, <2>2, <2>4, KnowsIs
<1>9. CASE row.kind = "appserviceplan"
  <2>1. /\ Lower(p.sku_name) = row.sku /\ p.instances = OrZero(row.capacity)
        /\ p.sites = OrZero(row.sites) /\ p.elastic_scale = row.elastic
    BY <1>9, PlanFacts DEF p
  <2>2. "cpu" \in DOMAIN s /\ s["cpu"] = 100 * load
    <3>1. Metrics(row.kind, mode) = {"cpu"}
      BY <1>9, MetricsIs
    <3>2. Resolved(p) = {"cpu"}
      BY <3>1 DEF Resolved, p
    <3> QED
      BY <1>9, <3>2, SeriesIs DEF p, s
  <2>3. ~KnowsPlan(p, 100 * load)
    BY <1>4, <1>9, <2>2, KnowsIs
  <2>4. /\ row.sku \notin Catalog /\ OrZero(row.sites) # 0
        /\ row.elastic \/ ~(PlanTarget(p, 100 * load) < OrZero(row.capacity))
    BY <2>1, <2>3 DEF KnowsPlan
  <2>5. OrZero(row.capacity) \in Nat /\ load \in Nat
    BY <1>9, RowIs
  <2>6. \A n \in MinPlan .. OrZero(row.capacity) - 1 :
           ~row.elastic => 10000 * n < OrZero(row.capacity) * load * Headroom
    BY <2>1, <2>4, <2>5, NoFewer
  <2> QED
    BY <1>9, <2>4, <2>6 DEF Unsized
<1>10. CASE row.kind = "aks"
  <2>1. PICK i \in DOMAIN p.pools : ~KnowsPool(p.pools[i])
    BY <1>4, <1>10, KnowsIs
  <2>2. /\ i \in DOMAIN row.pools
        /\ Lower(p.pools[i].vm_size) = row.pools[i].sku
        /\ p.pools[i].autoscale = row.pools[i].autoscale
        /\ p.pools[i].count = OrZero(row.pools[i].count)
        /\ p.pools[i].min_count = OrZero(row.pools[i].minimum)
    BY <1>10, <2>1, PoolFacts DEF p
  <2>3. /\ row.pools[i].sku \notin Catalog
        /\ MinNodes = IF row.pools[i].autoscale
                      THEN OrZero(row.pools[i].minimum)
                      ELSE OrZero(row.pools[i].count)
    BY <2>1, <2>2 DEF KnowsPool
  <2> QED
    BY <1>10, <2>2, <2>3 DEF Unsized
<1>11. CASE row.kind = "cosmos"
  <2>1. ~(OrZero(row.autoscale_max) > 0) /\ ~(OrZero(row.provisioned) > 0)
    BY <1>4, <1>11, KnowsIs
  <2>2. row.autoscale_max \in Numbers /\ row.provisioned \in Numbers
    BY <1>11, RowIs
  <2>3. {row.provisioned, row.autoscale_max} \subseteq {0, Null}
    BY <2>1, <2>2 DEF OrZero, Numbers
  <2> QED
    BY <1>11, <2>3 DEF Unsized
<1>12. CASE row.kind = "storage"
  BY <1>4, <1>12, KnowsIs DEF Unsized
<1>13. CASE row.kind \in {"eventhub", "vnet"}
  BY <1>4, <1>13, KnowsIs
<1> QED
  BY <1>1, <1>5, <1>6, <1>7, <1>8, <1>9, <1>10, <1>11, <1>12, <1>13 DEF Kinds

-----------------------------------------------------------------------------
(* Spelling.                                                               *)

\* The facts of a row, whatever its spelling.
LEMMA FactsAre ==
    ASSUME NEW t
    PROVE  LET p == Facts(t)
           IN  /\ row.kind = "vm" =>
                     /\ Lower(p.power_state) = row.state
                     /\ Lower(p.sku) = row.sku
               /\ row.kind = "aks" =>
                     /\ Lower(p.power_state) = row.state
               /\ row.kind = "sqldb" =>
                     /\ Lower(p.status) = row.state
                     /\ p.pool_id = row.pool
                     /\ p.capacity = OrZero(row.capacity)
                     /\ p.purchasing_model =
                           PurchasingModel(Text(row.tier, t), Text(row.sku, t))
               /\ row.kind = "sqlpool" =>
                     /\ Lower(p.state) = row.state
                     /\ p.capacity = OrZero(row.capacity)
                     /\ p.purchasing_model =
                           IF row.tier \in {"basic", "standard", "premium"}
                           THEN "dtu" ELSE "vcore"
               /\ row.kind = "sqlmi" =>
                     /\ Lower(p.state) = row.state
                     /\ p.capacity = OrZero(row.capacity)
               /\ row.kind = "postgres" =>
                     /\ Lower(p.state) = row.state
                     /\ Lower(p.sku) = row.sku
               /\ row.kind = "cosmos" =>
                     /\ p.capacity_mode =
                           IF row.serverless THEN "serverless"
                                             ELSE "provisioned"
               /\ row.kind = "vnet" =>
                     /\ p.utilization_percent =
                           IF UsableIps(row.prefixes) > 0
                           THEN Round(10000 * OrZero(row.used),
                                      UsableIps(row.prefixes))
                           ELSE 0
               /\ row.kind = "appserviceplan" =>
                     /\ Lower(p.status) = row.state
                     /\ Lower(p.tier) = row.tier
               /\ row.kind = "redis" =>
                     /\ Lower(p.state) = row.state
                     /\ Lower(p.sku) = row.sku
               /\ row.kind = "servicebus" =>
                     /\ Lower(p.status) = row.state
                     /\ Lower(p.tier) = row.tier
                     /\ p.capacity = OrZero(row.capacity)
               /\ row.kind = "storage" =>
                     /\ Lower(p.state) = row.state
                     /\ p.tierable <=> /\ row.tier = "standard"
                                       /\ row.account \in {"storagev2",
                                                           "blobstorage"}
                                       /\ row.access = "hot"
<1> DEFINE p == Facts(t)
<1>0. row.kind \notin {"eventhub", "appgateway"} => p = Parse(row, t)
  BY EnrichIs DEF Facts
<1> HIDE DEF p
<1>1. ASSUME row.kind = "vm"
      PROVE  /\ Lower(p.power_state) = row.state
             /\ Lower(p.sku) = row.sku
  <2>1. p = ParseVm(row, t)
    BY <1>0, <1>1, ParseIs
  <2> QED
    BY <2>1, LowerIs DEF ParseVm
<1>2. ASSUME row.kind = "aks"
      PROVE  /\ Lower(p.power_state) = row.state
  <2>1. p = ParseAks(row, t)
    BY <1>0, <1>2, ParseIs
  <2> QED
    BY <2>1, LowerIs DEF ParseAks
<1>3. ASSUME row.kind = "sqldb"
      PROVE  /\ Lower(p.status) = row.state
             /\ p.pool_id = row.pool
             /\ p.capacity = OrZero(row.capacity)
             /\ p.purchasing_model =
                   PurchasingModel(Text(row.tier, t), Text(row.sku, t))
  <2>1. p = ParseSqlDb(row, t)
    BY <1>0, <1>3, ParseIs
  <2> QED
    BY <2>1, LowerIs DEF ParseSqlDb
<1>4. ASSUME row.kind = "sqlpool"
      PROVE  /\ Lower(p.state) = row.state
             /\ p.capacity = OrZero(row.capacity)
             /\ p.purchasing_model =
                   IF row.tier \in {"basic", "standard", "premium"}
                   THEN "dtu" ELSE "vcore"
  <2>1. p = ParseSqlPool(row, t)
    BY <1>0, <1>4, ParseIs
  <2> QED
    BY <2>1, LowerIs DEF ParseSqlPool
<1>5. ASSUME row.kind = "sqlmi"
      PROVE  /\ Lower(p.state) = row.state
             /\ p.capacity = OrZero(row.capacity)
  <2>1. p = ParseSqlMi(row, t)
    BY <1>0, <1>5, ParseIs
  <2> QED
    BY <2>1, LowerIs DEF ParseSqlMi
<1>6. ASSUME row.kind = "postgres"
      PROVE  /\ Lower(p.state) = row.state
             /\ Lower(p.sku) = row.sku
  <2>1. p = ParsePostgres(row, t)
    BY <1>0, <1>6, ParseIs
  <2> QED
    BY <2>1, LowerIs DEF ParsePostgres
<1>7. ASSUME row.kind = "cosmos"
      PROVE  /\ p.capacity_mode =
                   IF row.serverless THEN "serverless" ELSE "provisioned"
  <2>1. p = ParseCosmos(row, t)
    BY <1>0, <1>7, ParseIs
  <2> QED
    BY <2>1, LowerIs DEF ParseCosmos
<1>8. ASSUME row.kind = "vnet"
      PROVE  /\ p.utilization_percent =
                   IF UsableIps(row.prefixes) > 0
                   THEN Round(10000 * OrZero(row.used),
                              UsableIps(row.prefixes))
                   ELSE 0
  <2>1. p = ParseVnet(row, t)
    BY <1>0, <1>8, ParseIs
  <2> QED
    BY <2>1, LowerIs DEF ParseVnet
<1>9. ASSUME row.kind = "appserviceplan"
      PROVE  /\ Lower(p.status) = row.state
             /\ Lower(p.tier) = row.tier
  <2>1. p = ParseAppServicePlan(row, t)
    BY <1>0, <1>9, ParseIs
  <2> QED
    BY <2>1, LowerIs DEF ParseAppServicePlan
<1>10. ASSUME row.kind = "redis"
      PROVE  /\ Lower(p.state) = row.state
             /\ Lower(p.sku) = row.sku
  <2>1. p = ParseRedis(row, t)
    BY <1>0, <1>10, ParseIs
  <2> QED
    BY <2>1, LowerIs DEF ParseRedis
<1>11. ASSUME row.kind = "servicebus"
      PROVE  /\ Lower(p.status) = row.state
             /\ Lower(p.tier) = row.tier
             /\ p.capacity = OrZero(row.capacity)
  <2>1. p = ParseServiceBus(row, t)
    BY <1>0, <1>11, ParseIs
  <2> QED
    BY <2>1, LowerIs DEF ParseServiceBus
<1>12. ASSUME row.kind = "storage"
      PROVE  /\ Lower(p.state) = row.state
             /\ p.tierable <=> /\ row.tier = "standard"
                               /\ row.account \in {"storagev2", "blobstorage"}
                               /\ row.access = "hot"
  <2>1. p = ParseStorage(row, t)
    BY <1>0, <1>12, ParseIs
  <2> QED
    BY <2>1, LowerIs DEF ParseStorage
<1> QED
  BY <1>1, <1>2, <1>3, <1>4, <1>5, <1>6, <1>7, <1>8, <1>9, <1>10, <1>11,
     <1>12 DEF p

\* The facts of two spellings of one row are alike: texts in lower case, and
\* all the rest.
LEMMA Alike ==
    ASSUME NEW t \in BOOLEAN, NEW u \in BOOLEAN, row \in Rows
    PROVE  LET p == Facts(t)
               q == Facts(u)
               k == row.kind
           IN  /\ k \in {"vm", "aks"} =>
                     Lower(p.power_state) = Lower(q.power_state)
               /\ k \in {"sqldb", "appserviceplan", "servicebus"} =>
                     Lower(p.status) = Lower(q.status)
               /\ k \in {"sqlpool", "sqlmi", "postgres", "redis", "appgateway",
                         "storage"} => Lower(p.state) = Lower(q.state)
               /\ k \in {"vm", "postgres", "redis"} =>
                     Lower(p.sku) = Lower(q.sku)
               /\ k \in {"sqldb", "sqlpool"} =>
                     p.purchasing_model = q.purchasing_model
               /\ k = "sqldb" => p.pool_id = q.pool_id
               /\ k = "cosmos" => p.capacity_mode = q.capacity_mode
               /\ k \in {"eventhub", "appserviceplan", "servicebus"} =>
                     Lower(p.tier) = Lower(q.tier)
               /\ k \in {"sqldb", "sqlpool", "sqlmi", "servicebus",
                         "eventhub"} => p.capacity = q.capacity
               /\ k = "vnet" => p.utilization_percent = q.utilization_percent
               /\ k = "storage" => (p.tierable <=> q.tierable)
<1> DEFINE p == Facts(t)
           q == Facts(u)
<1>2. row.kind = "sqldb" => p.purchasing_model = q.purchasing_model
  BY FactsAre, ModelIs
<1>3. row.kind = "eventhub" =>
         Lower(p.tier) = Lower(q.tier) /\ p.capacity = q.capacity
  BY EventHubFacts, LowerIs
<1>4. row.kind = "appgateway" => Lower(p.state) = Lower(q.state)
  BY GatewayFacts, LowerIs
<1>5. row.kind \in {"vm", "aks"} =>
         Lower(p.power_state) = Lower(q.power_state)
  BY FactsAre
<1>6. row.kind \in {"sqldb", "appserviceplan", "servicebus"} =>
         Lower(p.status) = Lower(q.status)
  BY FactsAre
<1>7. row.kind \in {"sqlpool", "sqlmi", "postgres", "redis", "storage"} =>
         Lower(p.state) = Lower(q.state)
  BY FactsAre
<1>8. row.kind \in {"vm", "postgres", "redis"} =>
         Lower(p.sku) = Lower(q.sku)
  BY FactsAre
<1>9. row.kind = "sqlpool" =>
         p.purchasing_model = q.purchasing_model
  BY FactsAre
<1>10. row.kind = "sqldb" =>
         p.pool_id = q.pool_id
  BY FactsAre
<1>11. row.kind = "cosmos" =>
         p.capacity_mode = q.capacity_mode
  BY FactsAre
<1>12. row.kind \in {"appserviceplan", "servicebus"} =>
         Lower(p.tier) = Lower(q.tier)
  BY FactsAre
<1>13. row.kind \in {"sqldb", "sqlpool", "sqlmi", "servicebus"} =>
         p.capacity = q.capacity
  BY FactsAre
<1>14. row.kind = "vnet" =>
         p.utilization_percent = q.utilization_percent
  BY FactsAre
<1>15. row.kind = "storage" =>
         (p.tierable <=> q.tierable)
  BY FactsAre
<1> HIDE DEF p, q
<1> QED
  BY <1>2, <1>3, <1>4, <1>5, <1>6, <1>7, <1>8, <1>9, <1>10, <1>11, <1>12,
     <1>13, <1>14, <1>15 DEF p, q

\* So are the capacities the rules enrich them with.
LEMMA AlikeCapacity ==
    ASSUME NEW t \in BOOLEAN, NEW u \in BOOLEAN, row \in Rows
    PROVE  LET p == Facts(t)
               q == Facts(u)
           IN  /\ row.kind = "eventhub" =>
                     /\ "capacity_bytes_per_second" \in DOMAIN p <=>
                           "capacity_bytes_per_second" \in DOMAIN q
                     /\ "capacity_bytes_per_second" \in DOMAIN p =>
                           p["capacity_bytes_per_second"]
                              = q["capacity_bytes_per_second"]
               /\ row.kind = "appgateway" =>
                     /\ p.v2 <=> q.v2
                     /\ Instances(p) = Instances(q)
                     /\ "reserved_capacity_units" \in DOMAIN p <=>
                           "reserved_capacity_units" \in DOMAIN q
                     /\ "reserved_capacity_units" \in DOMAIN p =>
                           p["reserved_capacity_units"]
                              = q["reserved_capacity_units"]
<1>1. CASE row.kind = "eventhub"
  <2>1. UnitMbps(Text(row.tier, t)) = UnitMbps(Text(row.tier, u))
    BY RateIs
  <2> QED
    BY <1>1, <2>1, EventHubFacts
<1>2. CASE row.kind = "appgateway"
  BY <1>2, GatewayFacts
<1> QED
  BY <1>1, <1>2

\* The same resources are active,
LEMMA SameActive ==
    ASSUME NEW t \in BOOLEAN, NEW u \in BOOLEAN, row \in Rows
    PROVE  Active(row.kind, Facts(t)) <=> Active(row.kind, Facts(u))
<1> DEFINE p == Facts(t)
           q == Facts(u)
<1>1. /\ row.kind \in {"vm", "aks"} =>
            Lower(p.power_state) = Lower(q.power_state)
      /\ row.kind \in {"sqldb", "appserviceplan", "servicebus"} =>
            Lower(p.status) = Lower(q.status)
      /\ row.kind \in {"sqlpool", "sqlmi", "postgres", "redis", "appgateway",
                       "storage"} => Lower(p.state) = Lower(q.state)
  BY Alike
<1>2. row.kind \in Kinds
  BY RowIs
<1> HIDE DEF p, q
<1>3. Active(row.kind, p) <=> Active(row.kind, q)
  BY <1>1, <1>2, ActiveIs DEF Kinds, RequireState
<1> QED
  BY <1>3 DEF p, q

\* the same are left out,
LEMMA SameSkip ==
    ASSUME NEW t \in BOOLEAN, NEW u \in BOOLEAN, row \in Rows
    PROVE  FinopsSkip(row.kind, Facts(t))
              <=> FinopsSkip(row.kind, Facts(u))
<1> DEFINE p == Facts(t)
           q == Facts(u)
           k == row.kind
<1>1. /\ k = "sqldb" => p.pool_id = q.pool_id
      /\ k = "cosmos" => p.capacity_mode = q.capacity_mode
      /\ k \in {"eventhub", "appserviceplan", "servicebus"} =>
            Lower(p.tier) = Lower(q.tier)
      /\ k = "storage" => (p.tierable <=> q.tierable)
  BY Alike
<1>2. k = "appgateway" =>
         /\ p.v2 <=> q.v2
         /\ "reserved_capacity_units" \in DOMAIN p <=>
               "reserved_capacity_units" \in DOMAIN q
  BY AlikeCapacity
<1>3. k \in Kinds
  BY RowIs
<1> HIDE DEF p, q, k
<1>4. FinopsSkip(k, p) <=> FinopsSkip(k, q)
  <2>1. CASE k = "sqldb"
    BY <1>1, <1>2, <2>1, SkipIs DEF SkipSqlDb
  <2>2. CASE k = "cosmos"
    BY <1>1, <1>2, <2>2, SkipIs DEF SkipCosmos
  <2>3. CASE k = "eventhub"
    BY <1>1, <1>2, <2>3, SkipIs DEF SkipEventHub
  <2>4. CASE k = "appserviceplan"
    BY <1>1, <1>2, <2>4, SkipIs DEF SkipAppServicePlan
  <2>5. CASE k = "servicebus"
    BY <1>1, <1>2, <2>5, SkipIs DEF SkipServiceBus
  <2>6. CASE k = "appgateway"
    BY <1>1, <1>2, <2>6, SkipIs DEF SkipAppGateway
  <2>7. CASE k = "storage"
    BY <1>1, <1>2, <2>7, SkipIs DEF SkipStorage
  <2>8. CASE k \in {"vm", "sqlpool", "sqlmi", "postgres", "vnet", "aks",
                    "redis"}
    BY <2>8, SkipIs
  <2> QED
    BY <1>3, <2>1, <2>2, <2>3, <2>4, <2>5, <2>6, <2>7, <2>8 DEF Kinds
<1> QED
  BY <1>4 DEF p, q, k

\* the same metrics resolve to the same values,
LEMMA SameSeries ==
    ASSUME NEW t \in BOOLEAN, NEW u \in BOOLEAN, row \in Rows,
           mode \in {"ops", "finops"}
    PROVE  ResolveSeries(row.kind, Facts(t))
              = ResolveSeries(row.kind, Facts(u))
<1> DEFINE p == Facts(t)
           q == Facts(u)
           k == row.kind
<1>1. /\ k \in {"sqldb", "sqlpool"} => p.purchasing_model = q.purchasing_model
      /\ k \in {"eventhub", "servicebus"} => Lower(p.tier) = Lower(q.tier)
      /\ k = "vnet" => p.utilization_percent = q.utilization_percent
  BY Alike
<1>2. /\ k = "eventhub" =>
            /\ "capacity_bytes_per_second" \in DOMAIN p <=>
                  "capacity_bytes_per_second" \in DOMAIN q
            /\ "capacity_bytes_per_second" \in DOMAIN p =>
                  p["capacity_bytes_per_second"]
                     = q["capacity_bytes_per_second"]
      /\ k = "appgateway" =>
            /\ p.v2 <=> q.v2
            /\ "reserved_capacity_units" \in DOMAIN p <=>
                  "reserved_capacity_units" \in DOMAIN q
            /\ "reserved_capacity_units" \in DOMAIN p =>
                  p["reserved_capacity_units"] = q["reserved_capacity_units"]
  BY AlikeCapacity
<1>3. k \in Kinds
  BY RowIs
<1>4. \A m \in Metrics(k, mode) :
         /\ m \in Keys
         /\ m = "dtu" => k \in {"sqldb", "sqlpool"}
         /\ m = "app_cpu" => k = "sqldb"
         /\ m = "ingress" => k = "eventhub"
         /\ m = "capacity" => k = "appgateway"
         /\ m = "subnet_ip" => k = "vnet"
  BY <1>3, MetricsIs DEF Kinds, Keys
<1> HIDE DEF p, q, k
<1>5. \A m \in Metrics(k, mode) : Applies(k, p, m) <=> Applies(k, q, m)
  BY <1>1, <1>2, <1>3, <1>4, AppliesIs DEF Keys, Kinds
<1>6. /\ Resolved(p) = Resolved(q)
      /\ Resolved(p) \subseteq Metrics(k, mode)
      /\ "ingress" \in Resolved(p) =>
            "capacity_bytes_per_second" \in DOMAIN p
      /\ "capacity" \in Resolved(p) => "reserved_capacity_units" \in DOMAIN p
  <2>1. \A m \in Metrics(k, mode) : m \in Resolved(p) <=> m \in Resolved(q)
    BY <1>2, <1>4, <1>5, ResolvedIs DEF k
  <2> QED
    BY <2>1, ResolvedIs DEF k, Resolved
<1> DEFINE s == ResolveSeries(row.kind, p)
           r == ResolveSeries(row.kind, q)
<1>7. DOMAIN s = DOMAIN r /\ DOMAIN s = Resolved(p)
  BY <1>6, SeriesIs
<1>8. \A m \in DOMAIN s : s[m] = r[m]
  <2> SUFFICES ASSUME NEW m \in DOMAIN s
               PROVE  s[m] = r[m]
    OBVIOUS
  <2>1. m \in DOMAIN r /\ m \in Metrics(k, mode)
    BY <1>6, <1>7
  <2> HIDE DEF s, r
  <2>2. CASE m = "subnet_ip"
    BY <1>1, <1>4, <2>1, <2>2, SeriesIs DEF s, r
  <2>3. CASE m # "subnet_ip" /\ load = Missing
    BY <2>1, <2>3, SeriesIs DEF s, r
  <2>4. CASE m = "ingress" /\ load # Missing
    <3>1. p["capacity_bytes_per_second"] = q["capacity_bytes_per_second"]
      BY <1>2, <1>4, <1>6, <1>7, <2>1, <2>4
    <3> QED
      BY <2>1, <2>4, <3>1, SeriesIs DEF s, r
  <2>5. CASE m = "capacity" /\ load # Missing
    <3>1. p["reserved_capacity_units"] = q["reserved_capacity_units"]
      BY <1>2, <1>4, <1>6, <1>7, <2>1, <2>5
    <3> QED
      BY <2>1, <2>5, <3>1, SeriesIs DEF s, r
  <2>6. CASE m \notin {"subnet_ip", "ingress", "capacity"} /\ load # Missing
    BY <2>1, <2>6, SeriesIs DEF s, r
  <2> QED
    BY <2>2, <2>3, <2>4, <2>5, <2>6
<1>9. s = [m \in DOMAIN s |-> s[m]] /\ r = [m \in DOMAIN r |-> r[m]]
  BY DEF ResolveSeries
<1> HIDE DEF s, r
<1>10. s = r
  BY <1>7, <1>8, <1>9
<1> QED
  BY <1>10 DEF s, r, p, q

\* the same sizes are known, but for those looked up as they are spelled,
LEMMA SameSize ==
    ASSUME NEW t \in BOOLEAN, NEW u \in BOOLEAN, NEW s, row \in Rows,
           \/ row.kind \notin {"sqldb", "sqlpool"}
           \/ row.tier \notin {"basic", "standard", "premium"}
    PROVE  KnowsSize(row, Facts(t), s) <=> KnowsSize(row, Facts(u), s)
<1> DEFINE p == Facts(t)
           q == Facts(u)
           k == row.kind
<1>1. /\ k \in {"sqldb", "sqlpool", "sqlmi", "servicebus"} =>
            p.capacity = q.capacity
      /\ k \in {"vm", "postgres", "redis"} => Lower(p.sku) = Lower(q.sku)
  BY Alike
<1>2. k = "appgateway" =>
         /\ Instances(p) = Instances(q)
         /\ "reserved_capacity_units" \in DOMAIN p <=>
               "reserved_capacity_units" \in DOMAIN q
  BY AlikeCapacity
<1>3. k \in {"sqldb", "sqlpool"} =>
         p.purchasing_model # "dtu" /\ q.purchasing_model # "dtu"
  BY HowSold
<1>4. k \in Kinds
  BY RowIs
<1>5. k = "sqldb" => (KnowsDatabase(p, s) <=> KnowsDatabase(q, s))
  <2>1. k = "sqldb" => Lower(p.sku) = row.sku /\ Lower(q.sku) = row.sku
    BY ParseIs, EnrichIs, LowerIs DEF Facts, ParseSqlDb
  <2> HIDE DEF p, q, k
  <2> QED
    BY <1>1, <1>3, <2>1 DEF KnowsDatabase, NamesTarget
<1>6. k = "appserviceplan" => (KnowsPlan(p, s["cpu"]) <=> KnowsPlan(q, s["cpu"]))
  <2>1. k = "appserviceplan" =>
           /\ Lower(p.sku_name) = Lower(q.sku_name)
           /\ p.instances = q.instances /\ p.sites = q.sites
           /\ p.elastic_scale = q.elastic_scale
    BY PlanFacts
  <2> HIDE DEF p, q, k
  <2> QED
    BY <2>1 DEF KnowsPlan, PlanTarget
<1>7. k = "aks" =>
         (/\ DOMAIN p.pools = DOMAIN q.pools
          /\ \A i \in DOMAIN p.pools :
                KnowsPool(p.pools[i]) <=> KnowsPool(q.pools[i]))
  <2>1. k = "aks" =>
           /\ DOMAIN p.pools = DOMAIN q.pools
           /\ \A i \in DOMAIN p.pools :
                 /\ Lower(p.pools[i].vm_size) = Lower(q.pools[i].vm_size)
                 /\ p.pools[i].autoscale = q.pools[i].autoscale
                 /\ p.pools[i].count = q.pools[i].count
                 /\ p.pools[i].min_count = q.pools[i].min_count
    BY PoolFacts
  <2> HIDE DEF p, q, k
  <2> QED
    BY <2>1 DEF KnowsPool
<1> HIDE DEF p, q
<1>8. KnowsSize(row, p, s) <=> KnowsSize(row, q, s)
  BY <1>1, <1>2, <1>3, <1>4, <1>5, <1>6, <1>7, KnowsIs DEF Kinds
<1> QED
  BY <1>8 DEF p, q

\* that is, of what is sold by DTU.
LEMMA DtuSize ==
    ASSUME NEW s, row \in Rows, row.kind \in {"sqldb", "sqlpool"},
           row.tier \in {"basic", "standard", "premium"}
    PROVE  ~KnowsSize(row, Facts(FALSE), s)
<1> DEFINE q == Facts(FALSE)
<1>2. q.tier = Text(row.tier, FALSE) /\ q.purchasing_model = "dtu"
  BY HowSold
<1>3. \A w : Text(row.tier, FALSE) # Text(w, TRUE)
  BY DEF Text
<1>4. ~KnowsDtu("sqldb", q) /\ ~KnowsDtu("sqlpool", q)
  BY <1>2, <1>3 DEF KnowsDtu
<1> HIDE DEF q
<1>5. ~KnowsSize(row, q, s)
  BY <1>2, <1>4, KnowsIs DEF KnowsDatabase
<1> QED
  BY <1>5 DEF q

\* and the same is advised.
LEMMA SameAdvice ==
    ASSUME NEW t \in BOOLEAN, NEW u \in BOOLEAN, row \in Rows, NEW s,
           row.kind = "appgateway" =>
              "reserved_capacity_units" \in DOMAIN Facts(t)
    PROVE  Advice(row.kind, Facts(t), s) = Advice(row.kind, Facts(u), s)
<1> DEFINE p == Facts(t)
           q == Facts(u)
<1>1. CASE row.kind = "eventhub"
  <2>1. p.capacity = q.capacity
    BY <1>1, Alike
  <2> HIDE DEF p, q
  <2>2. Advice(row.kind, p, s) = Advice(row.kind, q, s)
    BY <1>1, <2>1, AdviceIs DEF RecommendEventHub
  <2> QED
    BY <2>2 DEF p, q
<1>2. CASE row.kind = "appgateway"
  <2>1. /\ Instances(p) = Instances(q)
        /\ p.reserved_capacity_units = q.reserved_capacity_units
    BY <1>2, AlikeCapacity
  <2> HIDE DEF p, q
  <2>2. Advice(row.kind, p, s) = Advice(row.kind, q, s)
    BY <1>2, <2>1, AdviceIs DEF RecommendAppGateway
  <2> QED
    BY <2>2 DEF p, q
<1>3. CASE row.kind \notin {"eventhub", "appgateway"}
  BY <1>3, AdviceIs
<1> QED
  BY <1>1, <1>2, <1>3

-----------------------------------------------------------------------------
(* Shares and targets.                                                     *)

\* Rounding loses at most half.
LEMMA RoundNear ==
    ASSUME NEW n \in Nat, NEW d \in Nat, d > 0
    PROVE  /\ Round(n, d) \in Nat
           /\ 2 * (d * Round(n, d)) >= 2 * n - d
<1> DEFINE q == n \div d
           m == n % d
<1>1. q \in Nat /\ m \in Nat /\ m < d /\ n = d * q + m
  OBVIOUS
<1> HIDE DEF q, m
<1>2. Round(n, d) = IF 2 * m > d \/ (2 * m = d /\ q % 2 = 1)
                    THEN q + 1 ELSE q
  BY DEF Round, q, m
<1>3. d * (q + 1) = d * q + d /\ d * q \in Nat
  BY <1>1
<1>4. CASE Round(n, d) = q + 1
  BY <1>1, <1>3, <1>4
<1>5. CASE Round(n, d) = q /\ ~(2 * m > d)
  BY <1>1, <1>3, <1>5
<1> QED
  BY <1>2, <1>4, <1>5

\* A ceiling is no less than what it bounds.
LEMMA CeilingCovers ==
    ASSUME NEW n \in Nat, NEW d \in Nat, d > 0
    PROVE  Ceiling(n, d) \in Nat /\ d * Ceiling(n, d) >= n
<1> DEFINE x == n + d - 1
           q == x \div d
           m == x % d
<1>1. x \in Nat
  OBVIOUS
<1> HIDE DEF x
<1>2. q \in Nat /\ m \in Nat /\ m < d /\ x = d * q + m
  BY <1>1
<1> HIDE DEF q, m
<1>3. d * q \in Nat
  BY <1>2
<1>4. d * q >= n
  BY <1>2, <1>3 DEF x
<1> QED
  BY <1>2, <1>4 DEF Ceiling, q, x

\* From the reading to the target: twice `o` is read to be at least `b`, and
\* `f` covers `o` with headroom.
LEMMA Carries ==
    ASSUME NEW o \in Nat, NEW f \in Nat, NEW b \in Int, 2 * o >= b,
           20000 * 100 * f >= 2 * (o * Headroom)
    PROVE  20000 * 100 * f >= Headroom * b
<1> DEFINE a == 2 * o
<1>1. a \in Int /\ a >= b /\ Headroom \in Nat
  BY RulesAssumption
<1>2. 2 * (o * Headroom) = Headroom * a
  BY RulesAssumption
<1> HIDE DEF a
<1>3. Headroom * a >= Headroom * b
  BY <1>1
<1>4. Headroom * a \in Int /\ Headroom * b \in Int
  BY <1>1
<1> QED
  BY <1>2, <1>3, <1>4

\* What is advised for a share is fewer units than there are, and no fewer than
\* it takes.
LEMMA FewerCarries ==
    ASSUME NEW x \in Nat, NEW floor \in Nat, NEW d \in Nat, d > 0,
           NEW current \in Nat,
           NEW n, n = Fewer(AtLeast(floor, Ceiling(x, d)), current)
    PROVE  n \in Nat /\ (n > 0 => n < current /\ d * n >= x)
<1> DEFINE c == Ceiling(x, d)
<1>2. c \in Nat /\ d * c >= x
  BY CeilingCovers
<1> HIDE DEF c
<1>3. n = Fewer(AtLeast(floor, c), current)
  BY DEF c
<1>4. AtLeast(floor, c) \in Nat /\ AtLeast(floor, c) >= c
  BY <1>2 DEF AtLeast
<1>5. \A k \in Nat : k >= c => d * k >= x
  <2> SUFFICES ASSUME NEW k \in Nat, k >= c
               PROVE  d * k >= x
    OBVIOUS
  <2>1. d * k >= d * c /\ d * k \in Nat /\ d * c \in Nat
    BY <1>2
  <2> QED
    BY <1>2, <2>1
<1> QED
  BY <1>3, <1>4, <1>5 DEF Fewer

\* A bound in units is one in what the units carry.
LEMMA Scaled ==
    ASSUME NEW c \in Nat, NEW unit \in Nat, NEW observed \in Nat,
           NEW n \in Nat, 10000 * 100 * n >= c * observed * Headroom
    PROVE  20000 * 100 * (n * unit) >= 2 * (((c * unit) * observed) * Headroom)
<1> DEFINE x == c * observed * Headroom
           y == 10000 * 100 * n
<1>1. x \in Nat /\ y \in Nat
  BY RulesAssumption
<1>2. y >= x
  OBVIOUS
<1>3. 20000 * 100 * (n * unit) = 2 * (y * unit)
  OBVIOUS
<1>4. ((c * unit) * observed) * Headroom = x * unit
  BY RulesAssumption
<1> HIDE DEF x, y
<1>5. y * unit >= x * unit
  BY <1>1, <1>2
<1> QED
  BY <1>1, <1>3, <1>4, <1>5

\* The advice to a measured resource.
LEMMA AdviceCarries ==
    ASSUME row \in Rows, load \in Loads, mode = "finops",
           NEW t \in BOOLEAN, Resolved(Facts(t)) # {},
           NEW n, n = Advice(row.kind, Facts(t),
                             ResolveSeries(row.kind, Facts(t)))
    PROVE  /\ n \in Nat
           /\ n > 0 =>
                 LET current == IF row.kind = "eventhub"
                                THEN Facts(t).capacity ELSE Instances(Facts(t))
                 IN  /\ n < current
                     /\ 20000 * 100 * n * UnitCapacity
                           >= Headroom * (20000 * load - current * UnitCapacity)
<1> DEFINE p == Facts(t)
           s == ResolveSeries(row.kind, p)
<1>1. load \in Nat /\ load # Missing
  BY LoadsAssumption
<1>2. /\ BytesPerMb \in Nat /\ MbPerPu \in Nat /\ MbPerTu \in Nat
      /\ CuPerInstance \in Nat /\ MinInstances \in Nat /\ Headroom \in Nat
      /\ BytesPerMb > 0 /\ MbPerPu > 0 /\ MbPerTu > 0 /\ CuPerInstance > 0
  BY RulesAssumption
<1>3. CASE row.kind = "eventhub"
  <2> DEFINE c == OrZero(row.capacity)
             rate == UnitMbps(Text(row.tier, t))
             unit == UnitCapacity
  <2>1. Metrics(row.kind, mode) = {"ingress"}
    BY <1>3, MetricsIs
  <2>2. "ingress" \in Resolved(p)
    BY <2>1 DEF Resolved
  <2>3. "capacity_bytes_per_second" \in DOMAIN p
    BY <2>2, ResolvedIs
  <2>4. /\ p.capacity = c /\ c \in Nat /\ c > 0 /\ rate # Null
        /\ p["capacity_bytes_per_second"] = c * rate * BytesPerMb
    BY <1>3, <2>3, EventHubFacts, RowIs
  <2>5. rate = IF row.tier = "premium" THEN MbPerPu ELSE MbPerTu
    BY <2>4, RateIs
  <2>6. rate \in Nat /\ rate > 0
    BY <1>2, <2>5
  <2>7. unit = BytesPerMb * rate
    BY <1>3, <2>5 DEF UnitCapacity
  <2> DEFINE observed == s["ingress"]
  <2>8. observed = Round(10000 * load, p["capacity_bytes_per_second"])
    BY <1>1, <2>2, SeriesIs
  <2>9. n = RecommendEventHub(p, observed)
    BY <1>3, AdviceIs
  <2>10. n = Fewer(AtLeast(1, Ceiling(c * observed * Headroom, 10000 * 100)), c)
    BY <2>4, <2>9 DEF RecommendEventHub
  <2> HIDE DEF c, rate, unit, observed, s, p
  <2>11. unit \in Nat /\ unit > 0 /\ c * rate * BytesPerMb = c * unit
         /\ c * unit \in Nat /\ c * unit > 0
    BY <1>2, <2>4, <2>6, <2>7
  <2>12. observed \in Nat
         /\ 2 * ((c * unit) * observed) >= 2 * (10000 * load) - c * unit
    BY <1>1, <2>4, <2>8, <2>11, RoundNear
  <2>13. n \in Nat
         /\ (n > 0 => /\ n < c
                      /\ 10000 * 100 * n >= c * observed * Headroom)
    <3> DEFINE x == c * observed * Headroom
               d == 10000 * 100
    <3>1. x \in Nat /\ d \in Nat /\ d > 0 /\ c \in Nat
      BY <1>2, <2>4, <2>12
    <3>2. n = Fewer(AtLeast(1, Ceiling(x, d)), c)
      BY <2>10
    <3> HIDE DEF x, d
    <3>3. n \in Nat /\ (n > 0 => n < c /\ d * n >= x)
      BY <3>1, <3>2, FewerCarries
    <3> QED
      BY <3>3 DEF x, d
  <2>14. ASSUME n > 0
         PROVE  20000 * 100 * (n * unit)
                   >= 2 * (((c * unit) * observed) * Headroom)
    BY <1>2, <2>4, <2>11, <2>12, <2>13, <2>14, Scaled
  <2>15. ASSUME n > 0
         PROVE  20000 * 100 * n * unit >= Headroom * (20000 * load - c * unit)
    <3> DEFINE cap == c * unit
               o == cap * observed
               f == n * unit
               b == 20000 * load - cap
    <3>1. o \in Nat /\ f \in Nat /\ b \in Int
      BY <1>1, <2>11, <2>12, <2>13
    <3>2. 2 * o >= b /\ 20000 * 100 * f >= 2 * (o * Headroom)
      BY <1>1, <2>11, <2>12, <2>14, <2>15
    <3>3. 20000 * 100 * n * unit = 20000 * 100 * f
      BY <2>11, <2>13
    <3> HIDE DEF o, f, b
    <3>4. 20000 * 100 * f >= Headroom * b
      BY <3>1, <3>2, Carries
    <3> QED
      BY <3>3, <3>4 DEF b
  <2> QED
    BY <1>3, <2>4, <2>13, <2>15 DEF unit, p
<1>4. CASE row.kind = "appgateway"
  <2> DEFINE c == Instances(p)
             unit == UnitCapacity
             observed == s["capacity"]
  <2>1. Metrics(row.kind, mode) = {"capacity"}
    BY <1>4, MetricsIs
  <2>2. "capacity" \in Resolved(p)
    BY <2>1 DEF Resolved
  <2>3. "reserved_capacity_units" \in DOMAIN p
    BY <2>2, ResolvedIs
  <2>4. /\ c \in Nat /\ c * CuPerInstance > 0
        /\ p["reserved_capacity_units"] = c * CuPerInstance
    BY <1>4, <2>3, GatewayFacts, RowIs
  <2>7. unit = CuPerInstance
    BY <1>4 DEF UnitCapacity
  <2>8. observed = Round(10000 * load, p["reserved_capacity_units"])
    BY <1>1, <2>2, SeriesIs
  <2>9. n = RecommendAppGateway(p, observed)
    BY <1>4, AdviceIs
  <2>10. n = Fewer(AtLeast(MinInstances,
                           Ceiling((c * unit) * observed * Headroom,
                                   10000 * 100 * unit)), c)
    BY <2>4, <2>7, <2>9 DEF RecommendAppGateway
  <2> HIDE DEF c, unit, observed, s, p
  <2>11. unit \in Nat /\ unit > 0 /\ c * unit \in Nat /\ c * unit > 0
         /\ 10000 * 100 * unit \in Nat /\ 10000 * 100 * unit > 0
    BY <1>2, <2>4, <2>7
  <2>12. observed \in Nat
         /\ 2 * ((c * unit) * observed) >= 2 * (10000 * load) - c * unit
    BY <1>1, <2>4, <2>7, <2>8, <2>11, RoundNear
  <2>13. n \in Nat
         /\ (n > 0 => /\ n < c
                      /\ 10000 * 100 * unit * n
                            >= (c * unit) * observed * Headroom)
    <3> DEFINE x == (c * unit) * observed * Headroom
               d == 10000 * 100 * unit
    <3>1. x \in Nat /\ d \in Nat /\ d > 0 /\ c \in Nat
      BY <1>2, <2>4, <2>11, <2>12
    <3>2. n = Fewer(AtLeast(MinInstances, Ceiling(x, d)), c)
      BY <2>10
    <3> HIDE DEF x, d
    <3>3. n \in Nat /\ (n > 0 => n < c /\ d * n >= x)
      BY <1>2, <3>1, <3>2, FewerCarries
    <3> QED
      BY <3>3 DEF x, d
  <2>14. ASSUME n > 0
         PROVE  20000 * 100 * (n * unit)
                   >= 2 * (((c * unit) * observed) * Headroom)
    <3> DEFINE x == (c * unit) * observed * Headroom
    <3>1. x \in Int
      BY <1>2, <2>11, <2>12
    <3>2. 10000 * 100 * unit * n = 10000 * 100 * (n * unit) /\ n * unit \in Int
      BY <2>11, <2>13
    <3>3. 10000 * 100 * (n * unit) >= x
      BY <2>13, <2>14, <3>2
    <3> HIDE DEF x
    <3>4. 20000 * 100 * (n * unit) >= 2 * x
      BY <3>1, <3>2, <3>3
    <3> QED
      BY <3>4 DEF x
  <2>15. ASSUME n > 0
         PROVE  20000 * 100 * n * unit >= Headroom * (20000 * load - c * unit)
    <3> DEFINE cap == c * unit
               o == cap * observed
               f == n * unit
               b == 20000 * load - cap
    <3>1. o \in Nat /\ f \in Nat /\ b \in Int
      BY <1>1, <2>11, <2>12, <2>13
    <3>2. 2 * o >= b /\ 20000 * 100 * f >= 2 * (o * Headroom)
      BY <1>1, <2>11, <2>12, <2>14, <2>15
    <3>3. 20000 * 100 * n * unit = 20000 * 100 * f
      BY <2>11, <2>13
    <3> HIDE DEF o, f, b
    <3>4. 20000 * 100 * f >= Headroom * b
      BY <3>1, <3>2, Carries
    <3> QED
      BY <3>3, <3>4 DEF b
  <2> QED
    BY <1>4, <2>13, <2>15 DEF unit, p, c
<1>5. CASE row.kind \notin {"eventhub", "appgateway"}
  BY <1>5, AdviceIs
<1> QED
  BY <1>3, <1>4, <1>5

\* The usable addresses of a subnet are a number.  By induction over the sets
\* of prefixes, which the sum goes through.
LEMMA UsableTyped ==
    ASSUME NEW prefixes \in Seq(Numbers)
    PROVE  UsableIps(prefixes) \in Int
<1> DEFINE S == DOMAIN prefixes
           Pick(s) == CHOOSE x \in s : TRUE
           Body(g, s) == IF s = {} THEN 0
                         ELSE Usable(prefixes[Pick(s)]) + g[s \ {Pick(s)}]
           Iter == CHOOSE g : g = [s \in SUBSET S |-> Body(g, s)]
           Fits(n) == \E g \in [SUBSET S -> Int] :
                         \A s \in SUBSET S :
                            Cardinality(s) <= n => g[s] = Body(g, s)
<1>1. UsableIps(prefixes) = Iter[S]
  BY DEF UsableIps, MapThenSumSet, MapThenFoldSet
<1>2. IsFiniteSet(S) /\ S \in SUBSET S /\ {} \in SUBSET S
  <2>1. S = 1..Len(prefixes) /\ Len(prefixes) \in Nat
    OBVIOUS
  <2> QED
    BY <2>1, FS_Interval
<1>9. \A s \in SUBSET S : /\ Cardinality(s) \in Nat
                          /\ Cardinality(s) <= Cardinality(S)
                          /\ Cardinality(s) = 0 <=> s = {}
  BY <1>2, FS_Subset, FS_CardinalityType, FS_EmptySet
<1>10. ASSUME NEW s \in SUBSET S, s # {}
       PROVE  /\ Pick(s) \in s /\ Pick(s) \in S
              /\ s \ {Pick(s)} \in SUBSET S
              /\ Cardinality(s \ {Pick(s)}) = Cardinality(s) - 1
  <2>1. Pick(s) \in s
    BY <1>10
  <2>2. IsFiniteSet(s)
    BY <1>2, FS_Subset
  <2>3. Cardinality(s \ {Pick(s)}) = Cardinality(s) - 1
    BY <2>1, <2>2, FS_RemoveElement
  <2> QED
    BY <2>1, <2>3
<1>3. \A i \in S : Usable(prefixes[i]) \in Int
  <2> SUFFICES ASSUME NEW i \in S
               PROVE  Usable(prefixes[i]) \in Int
    OBVIOUS
  <2>1. prefixes[i] = Null \/ prefixes[i] \in Nat
    BY DEF Numbers
  <2>2. prefixes[i] \in Nat /\ ~(prefixes[i] >= 30) =>
           32 - prefixes[i] \in Nat
    OBVIOUS
  <2>3. \A n \in Nat : 2 ^ n \in Int
    OBVIOUS
  <2> QED
    BY <2>1, <2>2, <2>3 DEF Usable
<1> HIDE DEF S, Pick
<1>4. \A g : (\A s \in SUBSET S : g[s] \in Int) =>
                \A s \in SUBSET S : Body(g, s) \in Int
  <2> SUFFICES ASSUME NEW g, \A s \in SUBSET S : g[s] \in Int,
                      NEW s \in SUBSET S
               PROVE  Body(g, s) \in Int
    OBVIOUS
  <2>1. CASE s = {}
    BY <2>1
  <2>2. CASE s # {}
    <3>1. /\ Usable(prefixes[Pick(s)]) \in Int
          /\ g[s \ {Pick(s)}] \in Int
      BY <1>3, <1>10, <2>2
    <3> QED
      BY <2>2, <3>1
  <2> QED
    BY <2>1, <2>2
<1>5. \A n \in Nat : Fits(n)
  <2> DEFINE bad == {n \in Nat : ~Fits(n)}
  <2> SUFFICES ASSUME bad # {}
               PROVE  FALSE
    OBVIOUS
  <2> HIDE DEF Fits
  <2>1. PICK m \in bad : \A n \in bad : m <= n
    BY LeastNatural
  <2>2. m # 0
    <3> DEFINE g == [s \in SUBSET S |-> 0]
    <3>1. \A s \in SUBSET S : Cardinality(s) <= 0 => s = {}
      BY <1>9
    <3>2. \A s \in SUBSET S : Cardinality(s) <= 0 => g[s] = Body(g, s)
      BY <3>1
    <3>3. g \in [SUBSET S -> Int]
      OBVIOUS
    <3>4. Fits(0)
      BY <3>2, <3>3 DEF Fits
    <3> QED
      BY <2>1, <3>4
  <2>3. m \in Nat /\ m - 1 \in Nat /\ Fits(m - 1)
    BY <2>1, <2>2
  <2>4. PICK g \in [SUBSET S -> Int] :
           \A s \in SUBSET S : Cardinality(s) <= m - 1 => g[s] = Body(g, s)
    BY <2>3 DEF Fits
  <2> DEFINE h == [s \in SUBSET S |-> IF Cardinality(s) <= m - 1 THEN g[s]
                                                               ELSE Body(g, s)]
  <2> HIDE DEF Body
  <2>5. h \in [SUBSET S -> Int]
    BY <1>4, <2>4
  <2>6. \A s \in SUBSET S : Cardinality(s) <= m => h[s] = Body(g, s)
    BY <2>4
  <2>7. \A s \in SUBSET S : Cardinality(s) <= m => Body(g, s) = Body(h, s)
    <3> SUFFICES ASSUME NEW s \in SUBSET S, Cardinality(s) <= m, s # {}
                 PROVE  g[s \ {Pick(s)}] = h[s \ {Pick(s)}]
      BY DEF Body
    <3>1. /\ s \ {Pick(s)} \in SUBSET S
          /\ Cardinality(s \ {Pick(s)}) <= m - 1
      BY <1>9, <1>10, <2>3
    <3> QED
      BY <3>1
  <2>8. Fits(m)
    BY <2>5, <2>6, <2>7 DEF Fits
  <2> QED
    BY <2>1, <2>8
<1>6. \E g : g = [s \in SUBSET S |-> Body(g, s)]
  <2>1. Fits(Cardinality(S))
    BY <1>2, <1>5, <1>9
  <2>2. PICK g \in [SUBSET S -> Int] : \A s \in SUBSET S : g[s] = Body(g, s)
    BY <1>9, <2>1
  <2> HIDE DEF Body
  <2>3. g = [s \in SUBSET S |-> Body(g, s)]
    BY <2>2
  <2> QED
    BY <2>3
<1> HIDE DEF Body
<1>7. Iter = [s \in SUBSET S |-> Body(Iter, s)]
  BY <1>6
<1> HIDE DEF Iter
<1>8. \A s \in SUBSET S : Iter[s] \in Int
  <2> DEFINE bad == {n \in Nat : \E s \in SUBSET S :
                                    Cardinality(s) = n /\ Iter[s] \notin Int}
  <2> SUFFICES ASSUME bad # {}
               PROVE  FALSE
    BY <1>9
  <2>1. PICK m \in bad : \A n \in bad : m <= n
    BY LeastNatural
  <2>2. PICK s \in SUBSET S : Cardinality(s) = m /\ Iter[s] \notin Int
    BY <2>1
  <2>3. Iter[s] = Body(Iter, s)
    BY <1>7
  <2>4. s # {}
    BY <2>2, <2>3 DEF Body
  <2> DEFINE r == s \ {Pick(s)}
  <2>5. /\ r \in SUBSET S /\ Cardinality(r) = m - 1 /\ m - 1 \in Nat
        /\ Pick(s) \in S
    BY <1>9, <1>10, <2>2, <2>4
  <2>6. Iter[r] \notin Int
    BY <1>3, <2>2, <2>3, <2>4, <2>5 DEF Body
  <2>7. m - 1 \in bad
    BY <2>5, <2>6
  <2> QED
    BY <2>1, <2>5, <2>7
<1> QED
  BY <1>1, <1>2, <1>8

-----------------------------------------------------------------------------
(* The run keeps what it knows of a resource.                              *)

\* A step that leaves the row, the mode and the load alone leaves alone what
\* follows from them.
LEMMA Frame ==
    ASSUME UNCHANGED <<mode, row, load>>
    PROVE  \A t \in BOOLEAN :
              /\ Facts(t)' = Facts(t)
              /\ Resolved(Facts(t))' = Resolved(Facts(t))
              /\ ResolveSeries(row.kind, Facts(t))'
                    = ResolveSeries(row.kind, Facts(t))
<1> SUFFICES ASSUME NEW t \in BOOLEAN
             PROVE  /\ Facts(t)' = Facts(t)
                    /\ Resolved(Facts(t))' = Resolved(Facts(t))
                    /\ ResolveSeries(row.kind, Facts(t))'
                          = ResolveSeries(row.kind, Facts(t))
  OBVIOUS
<1>0. mode' = mode /\ row' = row /\ load' = load
  OBVIOUS
<1>1. Facts(t)' = Facts(t)
  BY <1>0 DEF Facts
<1>2. Resolved(Facts(t))' = Resolved(Facts(t))
  BY <1>0, <1>1 DEF Resolved
<1>3. ResolveSeries(row.kind, Facts(t))' = ResolveSeries(row.kind, Facts(t))
  BY <1>0, <1>1 DEF ResolveSeries
<1> QED
  BY <1>1, <1>2, <1>3

\* A resource that was not left out.
Kept(t) == fate[t] \notin {"inactive", "unsizeable"}

\* What is known of a resource at each step of the run: where it can be, the
\* facts and the series its row gives it, and what it took to get there.
Followed(t) ==
    /\ step # "list" => props[t] = Facts(t)
    /\ step \in {"list", "filter"} => fate[t] = "listed"
    /\ step = "size" => fate[t] \in {"listed", "inactive"}
    /\ step \in {"fetch", "evaluate"} =>
          fate[t] \in {"listed", "inactive", "unsizeable"}
    /\ step = "recommend" =>
          fate[t] \in {"inactive", "unsizeable", "unmeasured", "uncovered",
                       "busy", "cold"}
    /\ step \in {"list", "filter", "size", "fetch"} => series[t] = <<>>
    /\ step \in {"evaluate", "recommend", "done"} =>
          series[t] = IF Kept(t) THEN ResolveSeries(row.kind, Facts(t))
                                 ELSE <<>>
    /\ mode = "finops" /\ Kept(t) /\ step \notin {"list", "filter", "size"} =>
          ~FinopsSkip(row.kind, Facts(t))
    /\ fate[t] = "unmeasured" =>
          /\ step \in {"recommend", "done"}
          /\ Resolved(Facts(t)) = {}
    /\ fate[t] \in {"cold", "reported", "unknown"} =>
          /\ step \in {"recommend", "done"} /\ mode = "finops"
          /\ Resolved(Facts(t)) # {}
          /\ load # Missing \/ row.kind = "storage"
    /\ fate[t] = "unknown" => ~KnowsSize(row, Facts(t), series[t])
    /\ target[t] = IF fate[t] = "reported"
                   THEN Advice(row.kind, Facts(t), series[t]) ELSE 0

\* The two spellings stay together, but for what is sold by DTU.
Together ==
    \/ fate[TRUE] = fate[FALSE]
    \/ /\ row.kind \in {"sqldb", "sqlpool"}
       /\ row.tier \in {"basic", "standard", "premium"}
       /\ step = "done"
       /\ fate[TRUE] = "reported" /\ fate[FALSE] = "unknown"

\* The inductive invariant.
Followable ==
    /\ mode \in {"ops", "finops"}
    /\ row \in Rows
    /\ load \in Loads \cup {Missing}
    /\ step \in {"list", "filter", "size", "fetch", "evaluate", "recommend",
                 "done"}
    /\ step \in {"size", "recommend"} => mode = "finops"
    /\ DOMAIN props = BOOLEAN
    /\ fate \in [BOOLEAN -> Fates]
    /\ target = [t \in BOOLEAN |-> target[t]]
    /\ \A t \in BOOLEAN : Followed(t)
    /\ Together

\* It holds when a run starts.
LEMMA FollowableInit == FactsInit => Followable
  BY DEF FactsInit, Followable, Followed, Together, Kept, Spellings, Fates

\* No FinOps metric reads the inventory.
LEMMA NotInventory ==
    ASSUME NEW p, mode = "finops"
    PROVE  \A key \in Resolved(p) : key # "subnet_ip"
<1> SUFFICES ASSUME "subnet_ip" \in Resolved(p)
             PROVE  FALSE
  OBVIOUS
<1>1. "subnet_ip" \in Metrics(row.kind, mode)
  BY ResolvedIs
<1> QED
  BY <1>1 DEF Metrics

\* Every action keeps it.
LEMMA ListKeeps ==
    ASSUME Followable, ListResources
    PROVE  Followable'
<1>1. UNCHANGED <<mode, row, load>>
  BY DEF ListResources
<1>2. \A t \in BOOLEAN : Facts(t)' = Facts(t)
  BY <1>1, Frame
<1>3. \A t \in BOOLEAN : props'[t] = Facts(t) /\ DOMAIN props' = BOOLEAN
  BY DEF ListResources, Facts, Spellings
<1>4. \A t \in BOOLEAN : Followed(t)'
  BY <1>1, <1>2, <1>3 DEF ListResources, Followable, Followed, Kept
<1> QED
  BY <1>1, <1>3, <1>4 DEF ListResources, Followable, Together

\* The active check reads a state in lower case.
LEMMA FilterKeeps ==
    ASSUME Followable, FilterResources
    PROVE  Followable'
<1>1. UNCHANGED <<mode, row, load, props, series, target>>
  BY DEF FilterResources
<1>2. \A t \in BOOLEAN : Facts(t)' = Facts(t)
  BY <1>1, Frame
<1>3. \A t \in BOOLEAN :
         /\ fate[t] = "listed" /\ props[t] = Facts(t)
         /\ fate'[t] = IF Active(row.kind, Facts(t)) THEN "listed"
                                                     ELSE "inactive"
  BY DEF FilterResources, Judge, Followable, Followed, Spellings
<1>4. fate' \in [BOOLEAN -> Fates]
  BY DEF FilterResources, Judge, Followable, Followed, Spellings, Fates
<1>5. step' \in {"size", "fetch"} /\ (step' = "size" <=> mode = "finops")
  BY DEF FilterResources, Followable
<1>6. \A t \in BOOLEAN : series[t] = <<>> /\ target[t] = 0
  BY DEF FilterResources, Followable, Followed
<1>7. \A t \in BOOLEAN : Followed(t)'
  BY <1>1, <1>2, <1>3, <1>5, <1>6 DEF Followable, Followed, Kept
<1>8. fate'[TRUE] = fate'[FALSE]
  BY <1>3, SameActive DEF Followable
<1> QED
  BY <1>1, <1>4, <1>5, <1>7, <1>8 DEF Followable, Together

\* Both spellings are left out, or none.
LEMMA SizeKeeps ==
    ASSUME Followable, DropUnsizeable
    PROVE  Followable'
<1>1. UNCHANGED <<mode, row, load, props, series, target>>
      /\ step = "size" /\ step' = "fetch"
  BY DEF DropUnsizeable
<1>2. \A t \in BOOLEAN : Facts(t)' = Facts(t)
  BY <1>1, Frame
<1>3. \A t \in BOOLEAN :
         /\ fate[t] \in {"listed", "inactive"} /\ props[t] = Facts(t)
         /\ fate'[t] = IF fate[t] = "listed"
                       THEN IF FinopsSkip(row.kind, Facts(t)) THEN "unsizeable"
                                                              ELSE "listed"
                       ELSE fate[t]
  BY DEF DropUnsizeable, Judge, Followable, Followed, Spellings
<1>4. fate' \in [BOOLEAN -> Fates]
  BY DEF DropUnsizeable, Judge, Followable, Followed, Spellings, Fates
<1>6. \A t \in BOOLEAN : series[t] = <<>> /\ target[t] = 0
  BY <1>1 DEF Followable, Followed
<1>7. \A t \in BOOLEAN : Followed(t)'
  BY <1>1, <1>2, <1>3, <1>6 DEF Followable, Followed, Kept
<1>8. fate'[TRUE] = fate'[FALSE]
  BY <1>1, <1>3, SameSkip DEF Followable, Together
<1> QED
  BY <1>1, <1>4, <1>7, <1>8 DEF Followable, Together

\* What is fetched is what the row resolves to.
LEMMA FetchKeeps ==
    ASSUME Followable, Fetch
    PROVE  Followable'
<1>1. UNCHANGED <<mode, row, load, props, fate, target>>
      /\ step = "fetch" /\ step' = "evaluate"
  BY DEF Fetch
<1>2. \A t \in BOOLEAN :
         /\ Facts(t)' = Facts(t)
         /\ ResolveSeries(row.kind, Facts(t))'
               = ResolveSeries(row.kind, Facts(t))
  BY <1>1, Frame
<1>3. \A t \in BOOLEAN :
         /\ fate[t] \in {"listed", "inactive", "unsizeable"}
         /\ props[t] = Facts(t) /\ target[t] = 0
         /\ mode = "finops" /\ Kept(t) => ~FinopsSkip(row.kind, Facts(t))
  BY <1>1 DEF Followable, Followed
<1>4. \A t \in BOOLEAN :
         series'[t] = IF fate[t] = "listed"
                      THEN ResolveSeries(row.kind, Facts(t)) ELSE <<>>
  BY <1>3 DEF Fetch, Spellings
<1>5. \A t \in BOOLEAN : Followed(t)'
  BY <1>1, <1>2, <1>3, <1>4 DEF Followed, Kept
<1> QED
  BY <1>1, <1>5 DEF Followable, Together

\* The two spellings are measured alike.
LEMMA SameMeasures ==
    ASSUME Followable, step \in {"evaluate", "recommend"}
    PROVE  fate[TRUE] = fate[FALSE] /\ series[TRUE] = series[FALSE]
<1>1. fate[TRUE] = fate[FALSE]
  BY DEF Followable, Together
<1>2. ResolveSeries(row.kind, Facts(TRUE))
         = ResolveSeries(row.kind, Facts(FALSE))
  BY SameSeries DEF Followable
<1> QED
  BY <1>1, <1>2 DEF Followable, Followed, Kept

\* Only what has no series stays unmeasured.
LEMMA HotKeeps ==
    ASSUME Followable, EvaluateHot
    PROVE  Followable'
<1>1. UNCHANGED <<mode, row, load, props, series, target>>
      /\ step = "evaluate" /\ step' = "done" /\ mode = "ops"
  BY DEF EvaluateHot
<1>2. \A t \in BOOLEAN :
         /\ Facts(t)' = Facts(t)
         /\ Resolved(Facts(t))' = Resolved(Facts(t))
         /\ ResolveSeries(row.kind, Facts(t))'
               = ResolveSeries(row.kind, Facts(t))
  BY <1>1, Frame
<1> DEFINE over(s) == \E key \in DOMAIN s :
                         s[key] # Missing /\ s[key] >= Threshold(key)
           verdict(s) == IF DOMAIN s = {} THEN "unmeasured"
                         ELSE IF over(s) THEN "hot" ELSE "quiet"
<1>3. \A t \in BOOLEAN :
         fate'[t] = IF fate[t] = "listed" THEN verdict(series[t]) ELSE fate[t]
  BY DEF EvaluateHot, Judge, Spellings
<1>4. \A s : verdict(s) \in {"unmeasured", "hot", "quiet"}
             /\ (verdict(s) = "unmeasured" <=> DOMAIN s = {})
  OBVIOUS
<1> HIDE DEF verdict
<1>5. \A t \in BOOLEAN :
         /\ fate[t] \in {"listed", "inactive", "unsizeable"}
         /\ props[t] = Facts(t) /\ target[t] = 0
         /\ series[t] = IF fate[t] = "listed"
                        THEN ResolveSeries(row.kind, Facts(t)) ELSE <<>>
  BY <1>1 DEF Followable, Followed, Kept
<1>6. \A t \in BOOLEAN : fate'[t] = "unmeasured" => Resolved(Facts(t)) = {}
  BY <1>3, <1>4, <1>5, SeriesIs
<1>7. \A t \in BOOLEAN : Followed(t)'
  BY <1>1, <1>2, <1>3, <1>4, <1>5, <1>6 DEF Followed, Kept
<1>8. fate' \in [BOOLEAN -> Fates]
  <2>1. DOMAIN fate' = BOOLEAN /\ fate' = [t \in BOOLEAN |-> fate'[t]]
    BY DEF EvaluateHot, Judge, Spellings
  <2>2. \A t \in BOOLEAN : fate'[t] \in Fates
    BY <1>3, <1>4, <1>5 DEF Fates
  <2> QED
    BY <2>1, <2>2
<1>9. fate'[TRUE] = fate'[FALSE]
  BY <1>1, <1>3, SameMeasures
<1> QED
  BY <1>1, <1>7, <1>8, <1>9 DEF Followable, Together

\* And only what has every interval is called cold.
LEMMA ColdKeeps ==
    ASSUME Followable, EvaluateCold
    PROVE  Followable'
<1>1. UNCHANGED <<mode, row, load, props, series, target>>
      /\ step = "evaluate" /\ step' = "recommend" /\ mode = "finops"
  BY DEF EvaluateCold
<1>2. \A t \in BOOLEAN :
         /\ Facts(t)' = Facts(t)
         /\ Resolved(Facts(t))' = Resolved(Facts(t))
         /\ ResolveSeries(row.kind, Facts(t))'
               = ResolveSeries(row.kind, Facts(t))
  BY <1>1, Frame
<1> DEFINE blank(s) == \E key \in DOMAIN s : s[key] = Missing
           under(s) == \E key \in DOMAIN s : s[key] < Threshold(key)
           verdict(s) == IF DOMAIN s = {} THEN "unmeasured"
                         ELSE IF blank(s) THEN "uncovered"
                         ELSE IF under(s) THEN "cold" ELSE "busy"
<1>3. \A t \in BOOLEAN :
         fate'[t] = IF fate[t] = "listed" THEN verdict(series[t]) ELSE fate[t]
  BY DEF EvaluateCold, Judge, Spellings
<1>4. \A s : /\ verdict(s) \in {"unmeasured", "uncovered", "cold", "busy"}
             /\ verdict(s) = "unmeasured" <=> DOMAIN s = {}
             /\ verdict(s) = "cold" => ~blank(s)
  OBVIOUS
<1> HIDE DEF verdict
<1>5. \A t \in BOOLEAN :
         /\ fate[t] \in {"listed", "inactive", "unsizeable"}
         /\ props[t] = Facts(t) /\ target[t] = 0
         /\ series[t] = IF fate[t] = "listed"
                        THEN ResolveSeries(row.kind, Facts(t)) ELSE <<>>
         /\ Kept(t) => ~FinopsSkip(row.kind, Facts(t))
  BY <1>1 DEF Followable, Followed, Kept
<1>6. \A t \in BOOLEAN :
         fate'[t] = "unmeasured" => Resolved(Facts(t)) = {}
  BY <1>3, <1>4, <1>5, SeriesIs
<1>7. ASSUME NEW t \in BOOLEAN, fate'[t] = "cold"
      PROVE  /\ Resolved(Facts(t)) # {}
             /\ load # Missing \/ row.kind = "storage"
  <2> DEFINE s == ResolveSeries(row.kind, Facts(t))
  <2>1. fate[t] = "listed" /\ series[t] = s /\ verdict(s) = "cold"
    BY <1>3, <1>4, <1>5, <1>7
  <2>2. DOMAIN s # {} /\ \A key \in DOMAIN s : s[key] # Missing
    BY <1>4, <2>1
  <2>3. DOMAIN s = Resolved(Facts(t))
    BY SeriesIs
  <2>4. PICK key \in DOMAIN s : key # "subnet_ip"
    BY <1>1, <2>2, <2>3, NotInventory
  <2>5. load = Missing /\ row.kind # "storage" => s[key] = Missing
    BY <2>4, SeriesIs
  <2> QED
    BY <2>2, <2>3, <2>4, <2>5
<1>8. \A t \in BOOLEAN : Followed(t)'
  <2> SUFFICES ASSUME NEW t \in BOOLEAN
               PROVE  Followed(t)'
    OBVIOUS
  <2>1. fate'[t] \in {"inactive", "unsizeable", "unmeasured", "uncovered",
                      "busy", "cold"}
        /\ (Kept(t)' <=> Kept(t))
    BY <1>3, <1>4, <1>5 DEF Kept
  <2> QED
    BY <1>1, <1>2, <1>5, <1>6, <1>7, <2>1 DEF Followed, Kept
<1>9. fate' \in [BOOLEAN -> Fates]
  <2>1. DOMAIN fate' = BOOLEAN /\ fate' = [t \in BOOLEAN |-> fate'[t]]
    BY DEF EvaluateCold, Judge, Spellings
  <2>2. \A t \in BOOLEAN : fate'[t] \in Fates
    BY <1>3, <1>4, <1>5 DEF Fates
  <2> QED
    BY <2>1, <2>2
<1>10. fate'[TRUE] = fate'[FALSE]
  BY <1>1, <1>3, SameMeasures
<1> QED
  BY <1>1, <1>8, <1>9, <1>10 DEF Followable, Together

\* The two spellings part where a tier is looked up as it is spelled.
LEMMA RecommendKeeps ==
    ASSUME Followable, Recommend
    PROVE  Followable'
<1>1. UNCHANGED <<mode, row, load, props, series>>
      /\ step = "recommend" /\ step' = "done" /\ mode = "finops"
  BY DEF Recommend, Followable
<1>2. \A t \in BOOLEAN :
         /\ Facts(t)' = Facts(t)
         /\ Resolved(Facts(t))' = Resolved(Facts(t))
         /\ ResolveSeries(row.kind, Facts(t))'
               = ResolveSeries(row.kind, Facts(t))
  BY <1>1, Frame
<1> DEFINE knows(t) == KnowsSize(row, Facts(t), series[t])
<1>3. \A t \in BOOLEAN : Followed(t) /\ props[t] = Facts(t)
  BY <1>1 DEF Followable, Followed
<1>4. \A t \in BOOLEAN :
         /\ fate'[t] = IF fate[t] = "cold"
                       THEN IF knows(t) THEN "reported" ELSE "unknown"
                       ELSE fate[t]
         /\ target'[t] = IF fate[t] = "cold" /\ knows(t)
                         THEN Advice(row.kind, Facts(t), series[t]) ELSE 0
  BY <1>3 DEF Recommend, Judge, Spellings
<1>5. \A t \in BOOLEAN :
         fate[t] \in {"inactive", "unsizeable", "unmeasured", "uncovered",
                      "busy", "cold"}
  BY <1>1, <1>3 DEF Followed
<1>6. \A t \in BOOLEAN : Followed(t)'
  <2> SUFFICES ASSUME NEW t \in BOOLEAN
               PROVE  Followed(t)'
    OBVIOUS
  <2>0. KnowsSize(row, Facts(t), series[t])' <=> knows(t)
    BY <1>1, <1>2 DEF KnowsSize, KnowsDtu, KnowsDatabase, KnowsPlan, KnowsPool
  <2>00. Advice(row.kind, Facts(t), series[t])'
            = Advice(row.kind, Facts(t), series[t])
    BY <1>1, <1>2 DEF Advice
  <2>000. FinopsSkip(row.kind, Facts(t))' <=> FinopsSkip(row.kind, Facts(t))
    BY <1>1, <1>2 DEF FinopsSkip
  <2>1. fate'[t] \in {"inactive", "unsizeable", "unmeasured", "uncovered",
                      "busy", "reported", "unknown"}
        /\ (Kept(t)' <=> Kept(t))
    BY <1>4, <1>5 DEF Kept
  <2>2. fate'[t] = "reported" <=> fate[t] = "cold" /\ knows(t)
    BY <1>4, <1>5
  <2>3. fate'[t] = "unknown" <=> fate[t] = "cold" /\ ~knows(t)
    BY <1>4, <1>5
  <2>4. fate'[t] = "unmeasured" <=> fate[t] = "unmeasured"
    BY <1>4, <1>5
  <2>5. Followed(t)
    BY <1>3
  <2> QED
    BY <1>1, <1>2, <1>3, <1>4, <2>0, <2>00, <2>000, <2>1, <2>2, <2>3, <2>4, <2>5
       DEF Followed, Kept
<1>7. fate' \in [BOOLEAN -> Fates] /\ target' = [t \in BOOLEAN |-> target'[t]]
  <2>1. /\ DOMAIN fate' = BOOLEAN /\ fate' = [t \in BOOLEAN |-> fate'[t]]
        /\ target' = [t \in BOOLEAN |-> target'[t]]
    BY DEF Recommend, Judge, Spellings
  <2>2. \A t \in BOOLEAN : fate'[t] \in Fates
    BY <1>4, <1>5 DEF Fates
  <2> QED
    BY <2>1, <2>2
<1>8. Together'
  <2>1. fate[TRUE] = fate[FALSE]
    BY <1>1 DEF Followable, Together
  <2>2. CASE row.kind \notin {"sqldb", "sqlpool"}
             \/ row.tier \notin {"basic", "standard", "premium"}
    <3>1. fate[TRUE] = "cold" => (knows(TRUE) <=> knows(FALSE))
      <4> SUFFICES ASSUME fate[TRUE] = "cold"
                   PROVE  knows(TRUE) <=> knows(FALSE)
        OBVIOUS
      <4>1. /\ series[TRUE] = ResolveSeries(row.kind, Facts(TRUE))
            /\ series[FALSE] = ResolveSeries(row.kind, Facts(FALSE))
        BY <1>1, <1>3, <2>1 DEF Followed, Kept
      <4>2. series[TRUE] = series[FALSE]
        BY <4>1, SameSeries DEF Followable
      <4> QED
        BY <2>2, <4>2, SameSize DEF Followable
    <3> QED
      BY <1>4, <2>1, <3>1 DEF Together
  <2>3. CASE row.kind \in {"sqldb", "sqlpool"}
             /\ row.tier \in {"basic", "standard", "premium"}
    <3>1. ~knows(FALSE)
      BY <2>3, DtuSize DEF Followable
    <3> QED
      BY <1>1, <1>4, <2>1, <2>3, <3>1 DEF Together
  <2> QED
    BY <2>2, <2>3
<1> QED
  BY <1>1, <1>6, <1>7, <1>8 DEF Followable

\* So every step keeps it,
LEMMA FollowableNext == Followable /\ [FactsNext]_facts => Followable'
<1> SUFFICES ASSUME Followable, [FactsNext]_facts
             PROVE  Followable'
  OBVIOUS
<1>1. CASE ListResources
  BY <1>1, ListKeeps
<1>2. CASE FilterResources
  BY <1>2, FilterKeeps
<1>3. CASE DropUnsizeable
  BY <1>3, SizeKeeps
<1>4. CASE Fetch
  BY <1>4, FetchKeeps
<1>5. CASE EvaluateHot
  BY <1>5, HotKeeps
<1>6. CASE EvaluateCold
  BY <1>6, ColdKeeps
<1>7. CASE Recommend
  BY <1>7, RecommendKeeps
<1>8. CASE UNCHANGED facts
  <2>1. UNCHANGED <<mode, row, load, step, props, series, fate, target>>
    BY <1>8 DEF facts
  <2>2. \A t \in BOOLEAN :
           /\ Facts(t)' = Facts(t)
           /\ Resolved(Facts(t))' = Resolved(Facts(t))
           /\ ResolveSeries(row.kind, Facts(t))'
                 = ResolveSeries(row.kind, Facts(t))
    BY <2>1, Frame
  <2> QED
    BY <2>1, <2>2 DEF Followable, Followed, Kept, Together
<1> QED
  BY <1>1, <1>2, <1>3, <1>4, <1>5, <1>6, <1>7, <1>8 DEF FactsNext, Done

\* and it always holds.
LEMMA FollowableHolds == FactsSpec => []Followable
<1>1. FactsInit => Followable
  BY FollowableInit
<1>2. Followable /\ [FactsNext]_facts => Followable'
  BY FollowableNext
<1> QED
  BY <1>1, <1>2, PTL DEF FactsSpec

\* What is left unmeasured, or of unknown size, is what Judged names.
LEMMA FollowableJudged == Followable => Judged
<1> SUFFICES ASSUME Followable, NEW t \in BOOLEAN
             PROVE  /\ fate[t] = "unmeasured" =>
                          /\ mode = "finops"
                          /\ \/ row.kind = "vnet"
                             \/ row.kind = "sqldb" /\ row.sku = "gp_s_gen5_2"
                             \/ /\ row.kind = "eventhub"
                                /\ \/ OrZero(row.capacity) = 0
                                   \/ row.tier \notin {"basic", "standard",
                                                      "premium", "dedicated"}
                    /\ fate[t] = "unknown" =>
                          mode = "finops" /\ Unsized(row, t)
  BY DEF Judged, Spellings
<1>1. Followed(t) /\ row \in Rows /\ mode \in {"ops", "finops"}
  BY DEF Followable
<1>2. fate[t] = "unmeasured" =>
         /\ Resolved(Facts(t)) = {}
         /\ mode = "finops" => ~FinopsSkip(row.kind, Facts(t))
  BY <1>1 DEF Followed, Kept
<1>3. fate[t] = "unknown" =>
         /\ Resolved(Facts(t)) # {} /\ mode = "finops"
         /\ ~FinopsSkip(row.kind, Facts(t))
         /\ ~KnowsSize(row, Facts(t), ResolveSeries(row.kind, Facts(t)))
         /\ row.kind # "storage" => load \in Nat /\ load # Missing
  BY <1>1, LoadsAssumption DEF Followable, Followed, Kept
<1> QED
  BY <1>1, <1>2, <1>3, Measured, Known

\* A gateway that is measured reserves capacity.
LEMMA Reserved ==
    ASSUME NEW p, Resolved(p) # {}, mode = "finops", row.kind = "appgateway"
    PROVE  "reserved_capacity_units" \in DOMAIN p
<1>1. Metrics(row.kind, mode) = {"capacity"}
  BY MetricsIs
<1>2. "capacity" \in Resolved(p)
  BY <1>1 DEF Resolved
<1> QED
  BY <1>2, ResolvedIs

\* Two resources that fare alike are advised alike.
LEMMA FollowableCase == Followable => CaseInsensitive
<1> SUFFICES ASSUME Followable, fate[TRUE] = fate[FALSE]
             PROVE  target[TRUE] = target[FALSE]
  BY DEF Followable, Together, CaseInsensitive
<1>1. /\ Followed(TRUE) /\ Followed(FALSE)
      /\ row \in Rows /\ mode \in {"ops", "finops"}
  BY DEF Followable
<1>2. CASE fate[TRUE] = "reported"
  <2>1. /\ mode = "finops" /\ Resolved(Facts(TRUE)) # {}
        /\ series[TRUE] = ResolveSeries(row.kind, Facts(TRUE))
        /\ series[FALSE] = ResolveSeries(row.kind, Facts(FALSE))
        /\ target[TRUE] = Advice(row.kind, Facts(TRUE), series[TRUE])
        /\ target[FALSE] = Advice(row.kind, Facts(FALSE), series[FALSE])
    BY <1>1, <1>2 DEF Followed, Kept
  <2>2. series[TRUE] = series[FALSE]
    BY <1>1, <2>1, SameSeries
  <2>3. row.kind = "appgateway" =>
           "reserved_capacity_units" \in DOMAIN Facts(TRUE)
    BY <2>1, Reserved
  <2> QED
    BY <1>1, <2>1, <2>2, <2>3, SameAdvice
<1>3. CASE fate[TRUE] # "reported"
  BY <1>1, <1>3 DEF Followed
<1> QED
  BY <1>2, <1>3

\* A target, of whatever kind, is a number; a positive one is one of advice.
LEMMA FollowableTarget ==
    ASSUME Followable, NEW t \in BOOLEAN
    PROVE  /\ target[t] \in Nat
           /\ target[t] > 0 =>
                 LET current == IF row.kind = "eventhub"
                                THEN props[t].capacity ELSE Instances(props[t])
                 IN  /\ target[t] < current
                     /\ 20000 * 100 * target[t] * UnitCapacity
                           >= Headroom * (20000 * load - current * UnitCapacity)
<1>1. Followed(t) /\ row \in Rows /\ load \in Loads \cup {Missing}
  BY DEF Followable
<1>2. CASE fate[t] = "reported"
  <2>1. /\ mode = "finops" /\ Resolved(Facts(t)) # {}
        /\ load # Missing \/ row.kind = "storage"
        /\ step \in {"recommend", "done"}
        /\ props[t] = Facts(t)
        /\ target[t] = Advice(row.kind, Facts(t),
                              ResolveSeries(row.kind, Facts(t)))
    BY <1>1, <1>2 DEF Followed, Kept
  <2>2. CASE row.kind = "storage"
    <3>1. target[t] = 0
      BY <2>1, <2>2, AdviceIs
    <3> QED
      BY <3>1
  <2>3. CASE load # Missing
    <3>1. load \in Loads
      BY <1>1, <2>3
    <3> QED
      BY <1>1, <2>1, <3>1, AdviceCarries
  <2> QED
    BY <2>1, <2>2, <2>3
<1>3. CASE fate[t] # "reported"
  <2>1. target[t] = 0
    BY <1>1, <1>3 DEF Followed
  <2> QED
    BY <2>1
<1> QED
  BY <1>2, <1>3

\* What a metric resolves to is a share, or Missing.
LEMMA SeriesTyped ==
    ASSUME row \in Rows, load \in Loads \cup {Missing}, NEW t \in BOOLEAN,
           NEW key \in DOMAIN ResolveSeries(row.kind, Facts(t))
    PROVE  ResolveSeries(row.kind, Facts(t))[key] \in Nat \cup {Missing}
<1> DEFINE p == Facts(t)
           s == ResolveSeries(row.kind, p)
<1>1. key \in Resolved(p) /\ key \in Metrics(row.kind, mode)
  BY SeriesIs, ResolvedIs
<1>2. load # Missing => load \in Nat
  BY LoadsAssumption
<1>3. CASE key = "subnet_ip"
  <2>1. row.kind = "vnet"
    BY <1>1, <1>3, MetricsIs, RowIs DEF Kinds
  <2> DEFINE usable == UsableIps(row.prefixes)
             used == OrZero(row.used)
  <2>3. usable \in Int /\ used \in Nat
    BY <2>1, UsableTyped, RowsAssumption, RowIs
  <2>4. s[key] = IF usable > 0 THEN Round(10000 * used, usable) ELSE 0
    BY <1>3, <2>1, SeriesIs, FactsAre
  <2> HIDE DEF usable, used
  <2>5. usable > 0 => Round(10000 * used, usable) \in Nat
    BY <2>3, RoundNear
  <2> QED
    BY <2>3, <2>4, <2>5
<1>4. CASE key # "subnet_ip" /\ load = Missing
  BY <1>4, SeriesIs
<1>5. CASE key = "ingress" /\ load # Missing
  <2>1. row.kind = "eventhub"
    BY <1>1, <1>5, MetricsIs, RowIs DEF Kinds
  <2>2. "capacity_bytes_per_second" \in DOMAIN p
    BY <1>1, <1>5, ResolvedIs
  <2> DEFINE cap == p["capacity_bytes_per_second"]
  <2>3. cap \in Nat /\ cap > 0
    <3> DEFINE c == OrZero(row.capacity)
               rate == UnitMbps(Text(row.tier, t))
    <3>1. c \in Nat /\ c > 0 /\ rate # Null /\ cap = c * rate * BytesPerMb
      BY <2>1, <2>2, EventHubFacts, RowIs
    <3>2. rate \in Nat /\ rate > 0 /\ BytesPerMb \in Nat /\ BytesPerMb > 0
      BY <3>1, RateIs, RulesAssumption
    <3> HIDE DEF c, rate, cap
    <3> QED
      BY <3>1, <3>2
  <2>4. s[key] = Round(10000 * load, cap)
    BY <1>5, SeriesIs
  <2> HIDE DEF cap
  <2> QED
    BY <1>2, <1>5, <2>3, <2>4, RoundNear
<1>6. CASE key = "capacity" /\ load # Missing
  <2>1. row.kind = "appgateway"
    BY <1>1, <1>6, MetricsIs, RowIs DEF Kinds
  <2>2. "reserved_capacity_units" \in DOMAIN p
    BY <1>1, <1>6, ResolvedIs
  <2> DEFINE cap == p["reserved_capacity_units"]
  <2>3. cap \in Nat /\ cap > 0
    BY <2>1, <2>2, GatewayFacts, RowIs, RulesAssumption
  <2>4. s[key] = Round(10000 * load, cap)
    BY <1>6, SeriesIs
  <2> HIDE DEF cap
  <2> QED
    BY <1>2, <1>6, <2>3, <2>4, RoundNear
<1>7. CASE key \notin {"subnet_ip", "ingress", "capacity"} /\ load # Missing
  BY <1>2, <1>7, SeriesIs
<1> QED
  BY <1>3, <1>4, <1>5, <1>6, <1>7

\* Every value has its type.
LEMMA FollowableTyped == Followable => FactsTypeOK
<1> SUFFICES ASSUME Followable
             PROVE  FactsTypeOK
  OBVIOUS
<1>1. target \in [BOOLEAN -> Nat]
  BY FollowableTarget DEF Followable
<1>2. \A t \in BOOLEAN : \A m \in DOMAIN series[t] :
         series[t][m] \in Nat \cup {Missing}
  <2> SUFFICES ASSUME NEW t \in BOOLEAN, NEW m \in DOMAIN series[t]
               PROVE  series[t][m] \in Nat \cup {Missing}
    OBVIOUS
  <2>1. series[t] = ResolveSeries(row.kind, Facts(t)) \/ series[t] = <<>>
    BY DEF Followable, Followed
  <2>2. series[t] # <<>>
    OBVIOUS
  <2> QED
    BY <2>1, <2>2, SeriesTyped DEF Followable
<1> QED
  BY <1>1, <1>2 DEF Followable, FactsTypeOK, Spellings

\* metrics/derive.py and recommend/: whatever the rows, every share a run works
\* out is a number or Missing, and every target is a number.
THEOREM FactsTyped == FactsSpec => []FactsTypeOK
  BY FollowableHolds, FollowableTyped, PTL

\* pipeline._run_type: a run leaves nothing it lists unmeasured, and meets no
\* size it does not know, but where the rows Judged names leave it no choice.
THEOREM RowsJudged == FactsSpec => []Judged
  BY FollowableHolds, FollowableJudged, PTL

\* resource_types/: for any row, the casing Resource Graph returns changes no
\* verdict and no target, except for what is sold by DTU.
THEOREM CasingIgnored == FactsSpec => []CaseInsensitive
  BY FollowableHolds, FollowableCase, PTL

\* recommend/eventhub.py, recommend/appgateway.py: from any reading, unit rate
\* and headroom, through the rounded share, the advised units carry the load.
THEOREM TargetsCarry == FactsSpec => []TargetCarriesLoad
<1>1. Followable => TargetCarriesLoad
  BY FollowableTarget DEF TargetCarriesLoad, Spellings
<1> QED
  BY <1>1, FollowableHolds, PTL
=============================================================================
