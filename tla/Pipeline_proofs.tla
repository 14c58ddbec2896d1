-------------------------- MODULE Pipeline_proofs ---------------------------
(***************************************************************************)
(* What Pipeline promises for any number of resource types, resources,     *)
(* metrics and any batch size.                                             *)
(*                                                                         *)
(* The sets a run counts are subsets of Resources, so they are finite and  *)
(* their cardinalities add up; every counting step below rests on that.    *)
(***************************************************************************)
EXTENDS Pipeline, FiniteSetTheorems, WellFoundedInduction, TLAPS

-----------------------------------------------------------------------------
(* Finite sets.                                                            *)

\* Every set of resources can be counted.
LEMMA ResourceSets ==
    \A S \in SUBSET Resources : IsFiniteSet(S) /\ Cardinality(S) \in Nat
<1> TAKE S \in SUBSET Resources
<1>1. IsFiniteSet(S)
  BY FS_Subset, ResourcesAssumption
<1> QED
  BY <1>1, FS_CardinalityType

\* Every set of rows can be counted.
LEMMA RowSets ==
    \A W \in SUBSET Row : IsFiniteSet(W) /\ Cardinality(W) \in Nat
<1> DEFINE Pairs == Resources \X Metrics
           f == [p \in Pairs |-> [resource |-> p[1], metric |-> p[2]]]
<1>1. IsFiniteSet(Pairs)
  BY FS_Product, ResourcesAssumption, MetricsAssumption
<1>2. f \in Surjection(Pairs, Row)
  <2>1. f \in [Pairs -> Row]
    BY DEF Row
  <2>2. ASSUME NEW w \in Row
        PROVE  \E p \in Pairs : f[p] = w
    <3>1. <<w.resource, w.metric>> \in Pairs
      BY DEF Row
    <3>2. f[<<w.resource, w.metric>>] = w
      BY <3>1 DEF Row
    <3> QED
      BY <3>1, <3>2
  <2> QED
    BY <2>1, <2>2 DEF Surjection
<1>3. IsFiniteSet(Row)
  BY <1>1, <1>2, FS_Surjection
<1> TAKE W \in SUBSET Row
<1>4. IsFiniteSet(W)
  BY <1>3, FS_Subset
<1> QED
  BY <1>4, FS_CardinalityType

\* The groups of a set of resources are no more than the resources.
LEMMA GroupSets ==
    ASSUME NEW S \in SUBSET Resources
    PROVE  Cardinality(RgsOf(S)) \in Nat
<1> DEFINE f == [r \in S |-> <<r.sub, r.rg>>]
<1>1. f \in Surjection(S, RgsOf(S))
  BY DEF Surjection, RgsOf
<1>2. IsFiniteSet(RgsOf(S))
  BY <1>1, ResourceSets, FS_Surjection
<1> QED
  BY <1>2, FS_CardinalityType

\* Two disjoint sets of resources are counted separately.
LEMMA CountDisjoint ==
    ASSUME NEW S \in SUBSET Resources, NEW T \in SUBSET Resources,
           S \cap T = {}
    PROVE  Cardinality(S \cup T) = Cardinality(S) + Cardinality(T)
<1>1. IsFiniteSet(S) /\ IsFiniteSet(T)
  BY ResourceSets
<1>2. Cardinality(S \cup T)
          = Cardinality(S) + Cardinality(T) - Cardinality(S \cap T)
  BY <1>1, FS_Union
<1>3. Cardinality(S) \in Nat /\ Cardinality(T) \in Nat
  BY ResourceSets
<1>4. Cardinality(S \cap T) = 0
  BY FS_EmptySet
<1> QED
  BY <1>2, <1>3, <1>4

\* filter_resources and finops_skip split what was listed: each resource is
\* dropped for exactly one reason or goes on.
LEMMA Partition ==
    ASSUME NEW S \in SUBSET Resources
    PROVE  LET going == Kept(S) \ Unsizeable(Kept(S))
           IN  Cardinality(S) = Cardinality(InIgnoredRg(S))
                   + Cardinality(ExcludedByTag(S))
                   + Cardinality(Inactive(S))
                   + Cardinality(Unsizeable(Kept(S)))
                   + Cardinality(going)
<1> DEFINE A == InIgnoredRg(S)
           B == ExcludedByTag(S)
           C == Inactive(S)
           D == Unsizeable(Kept(S))
           E == Kept(S) \ D
<1>1. /\ A \subseteq S /\ B \subseteq S /\ C \subseteq S
      /\ D \subseteq Kept(S) /\ Kept(S) = S \ (A \cup B \cup C)
  BY DEF InIgnoredRg, ExcludedByTag, Inactive, Kept, Unsizeable
<1>2. A \cap B = {} /\ (A \cup B) \cap C = {}
  BY DEF InIgnoredRg, ExcludedByTag, Inactive
<1> HIDE DEF A, B, C, D
<1>3. Cardinality(A \cup B) = Cardinality(A) + Cardinality(B)
  BY <1>1, <1>2, CountDisjoint
<1>4. Cardinality((A \cup B) \cup C) = Cardinality(A \cup B) + Cardinality(C)
  BY <1>1, <1>2, CountDisjoint
<1>5. Cardinality(Kept(S)) = Cardinality(D) + Cardinality(E)
  <2>1. Kept(S) = D \cup E /\ D \cap E = {} /\ Kept(S) \subseteq Resources
    BY <1>1
  <2> QED
    BY <2>1, CountDisjoint
<1>6. Cardinality(S) = Cardinality((A \cup B) \cup C) + Cardinality(Kept(S))
  <2>1. /\ S = ((A \cup B) \cup C) \cup Kept(S)
        /\ ((A \cup B) \cup C) \cap Kept(S) = {}
        /\ (A \cup B) \cup C \in SUBSET Resources
        /\ Kept(S) \in SUBSET Resources
    BY <1>1
  <2> QED
    BY <2>1, CountDisjoint
<1>7. /\ Cardinality(A) \in Nat /\ Cardinality(B) \in Nat
      /\ Cardinality(C) \in Nat /\ Cardinality(D) \in Nat
      /\ Cardinality(E) \in Nat
  BY <1>1, ResourceSets
<1>8. Cardinality(S) = Cardinality(A) + Cardinality(B) + Cardinality(C)
                           + Cardinality(D) + Cardinality(E)
  BY <1>3, <1>4, <1>5, <1>6, <1>7
<1> QED
  BY <1>8 DEF A, B, C, D, E

\* Lines of a reason are log lines.
LEMMA LinesType ==
    ASSUME NEW x \in Reasons, NEW S \in SUBSET Resources
    PROVE  Lines(x, S) \subseteq LogLine
<1> SUFFICES ASSUME NEW r \in S
             PROVE  [reason |-> x, resource |-> r, metric |-> ""] \in LogLine
  BY DEF Lines
<1>1. r \in Resources /\ "" \in Metrics \cup {""}
  OBVIOUS
<1> QED
  BY <1>1 DEF LogLine

\* The type the loop stands at is a configured one.
LEMMA KindType ==
    ASSUME NEW i \in DOMAIN Configured
    PROVE  Configured[i] \in Kinds
  BY DEF Kinds

\* Where the type loop goes next.
LEMMA AdvanceType ==
    ASSUME Advance
    PROVE  /\ at' \in 1..(NTypes + 1)
           /\ pc' \in {"list", "write"}
           /\ pc' = "list" => at' \in DOMAIN Configured
<1>1. /\ Configured \in Seq(STRING)
      /\ DOMAIN Configured = 1..NTypes
      /\ NTypes \in Nat
  BY ConfiguredAssumption DEF NTypes
<1> QED
  BY <1>1 DEF Advance
-----------------------------------------------------------------------------
(* The totals, one `+=` after the other.                                   *)

\* The totals s after x resources, y ignored groups and z failures more.
ListedTotals(s, x, y, z) ==
    [s EXCEPT !.inventory_total = @ + x,
              !.ignored_rg_count = @ + y,
              !.type_failures = @ + z]

\* The totals s after a resource whose evaluation raised.
RaisedTotals(s) == [s EXCEPT !.evaluated = @ + 1, !.type_failures = @ + 1]

\* What counting a listing does to the totals the properties are about.
LEMMA ListedSummary ==
    ASSUME NEW s \in RunSummary, NEW t,
           NEW x \in Nat, NEW y \in Nat, NEW z \in Nat,
           t = ListedTotals(s, x, y, z)
    PROVE  /\ t \in RunSummary
           /\ t.inventory_total = s.inventory_total + x
           /\ t.type_failures = s.type_failures + z
           /\ t.evaluated = s.evaluated
           /\ t.findings = s.findings
           /\ t.rows_written = s.rows_written
           /\ t.write_failures = s.write_failures
           /\ t.chunk_failures = s.chunk_failures
<1> DEFINE a == s.inventory_total + x
           b == s.ignored_rg_count + y
           c == s.type_failures + z
           s1 == [s EXCEPT !.inventory_total = a]
           s2 == [s1 EXCEPT !.ignored_rg_count = b]
           s3 == [s2 EXCEPT !.type_failures = c]
<1>1. a \in Nat /\ b \in Nat /\ c \in Nat
  BY DEF RunSummary
<1>2. s3 = t
  BY Zenon DEF ListedTotals
<1> HIDE DEF a, b, c
<1>3. /\ s1 \in RunSummary
      /\ s1.inventory_total = a
      /\ s1.type_failures = s.type_failures
      /\ s1.evaluated = s.evaluated
      /\ s1.findings = s.findings
      /\ s1.rows_written = s.rows_written
      /\ s1.write_failures = s.write_failures
      /\ s1.chunk_failures = s.chunk_failures
  BY <1>1 DEF RunSummary
<1> HIDE DEF s1
<1>4. /\ s2 \in RunSummary
      /\ s2.inventory_total = a
      /\ s2.type_failures = s.type_failures
      /\ s2.evaluated = s.evaluated
      /\ s2.findings = s.findings
      /\ s2.rows_written = s.rows_written
      /\ s2.write_failures = s.write_failures
      /\ s2.chunk_failures = s.chunk_failures
  BY <1>1, <1>3 DEF RunSummary
<1> HIDE DEF s2
<1>5. /\ s3 \in RunSummary
      /\ s3.inventory_total = a
      /\ s3.type_failures = c
      /\ s3.evaluated = s.evaluated
      /\ s3.findings = s.findings
      /\ s3.rows_written = s.rows_written
      /\ s3.write_failures = s.write_failures
      /\ s3.chunk_failures = s.chunk_failures
  BY <1>1, <1>4 DEF RunSummary
<1> HIDE DEF s3
<1> QED
  BY <1>2, <1>5, Zenon DEF a, c

\* What an error half-way through a type does to them.
LEMMA RaisedSummary ==
    ASSUME NEW s \in RunSummary, NEW t,
           t = RaisedTotals(s)
    PROVE  /\ t \in RunSummary
           /\ t.inventory_total = s.inventory_total
           /\ t.type_failures = s.type_failures + 1
           /\ t.evaluated = s.evaluated + 1
           /\ t.findings = s.findings
           /\ t.rows_written = s.rows_written
           /\ t.write_failures = s.write_failures
           /\ t.chunk_failures = s.chunk_failures
<1> DEFINE a == s.evaluated + 1
           b == s.type_failures + 1
           s1 == [s EXCEPT !.evaluated = a]
           s2 == [s1 EXCEPT !.type_failures = b]
<1>1. a \in Nat /\ b \in Nat
  BY DEF RunSummary
<1>2. s2 = t
  BY Zenon DEF RaisedTotals
<1> HIDE DEF a, b
<1>3. /\ s1 \in RunSummary
      /\ s1.inventory_total = s.inventory_total
      /\ s1.type_failures = s.type_failures
      /\ s1.evaluated = a
      /\ s1.findings = s.findings
      /\ s1.rows_written = s.rows_written
      /\ s1.write_failures = s.write_failures
      /\ s1.chunk_failures = s.chunk_failures
  BY <1>1 DEF RunSummary
<1> HIDE DEF s1
<1>4. /\ s2 \in RunSummary
      /\ s2.inventory_total = s.inventory_total
      /\ s2.type_failures = b
      /\ s2.evaluated = a
      /\ s2.findings = s.findings
      /\ s2.rows_written = s.rows_written
      /\ s2.write_failures = s.write_failures
      /\ s2.chunk_failures = s.chunk_failures
  BY <1>1, <1>3 DEF RunSummary
<1> HIDE DEF s2
<1> QED
  BY <1>2, <1>4, Zenon DEF a, b
-----------------------------------------------------------------------------
(* Types.                                                                  *)

\* TypeOK alone is not inductive: a step that counts for the current type
\* needs to know that there is one.
AtType == pc \in {"list", "fetch", "evaluate"} => at \in DOMAIN Configured

Typed == TypeOK /\ AtType

\* A run starts well typed.
LEMMA TypedInit == Init => Typed
<1> SUFFICES ASSUME Init PROVE Typed
  OBVIOUS
<1>1. NTypes \in Nat
  BY ConfiguredAssumption DEF NTypes
<1>2. by_type \in [Kinds -> TypeSummary]
  BY DEF Init, TypeSummary
<1>3. summary \in RunSummary
  BY DEF Init, RunSummary
<1>4. skips \in [Reasons -> Nat]
  BY DEF Init
<1> QED
  BY <1>1, <1>2, <1>3, <1>4 DEF Init, Typed, TypeOK, AtType, Phases

\* Counting what was listed keeps the counters and the log well typed.
LEMMA CountListedType ==
    ASSUME Typed, pc = "list",
           NEW S \in SUBSET Resources, NEW n \in Nat, CountListed(S, n)
    PROVE  /\ summary' \in RunSummary
           /\ by_type' \in [Kinds -> TypeSummary]
           /\ skips' \in [Reasons -> Nat]
           /\ skipLog' \subseteq LogLine
<1> DEFINE A == InIgnoredRg(S)
           B == ExcludedByTag(S)
           C == Inactive(S)
           K == Kept(S)
           D == Unsizeable(K)
<1>1. /\ A \in SUBSET Resources /\ B \in SUBSET Resources
      /\ C \in SUBSET Resources /\ K \in SUBSET Resources
      /\ D \in SUBSET Resources
  BY DEF InIgnoredRg, ExcludedByTag, Inactive, Kept, Unsizeable
<1>2. /\ Cardinality(A) \in Nat /\ Cardinality(B) \in Nat
      /\ Cardinality(C) \in Nat /\ Cardinality(D) \in Nat
      /\ Cardinality(S) \in Nat /\ Cardinality(K) \in Nat
  BY <1>1, ResourceSets
<1>3. Cardinality(RgsOf(A)) \in Nat
  BY <1>1, GroupSets
<1>4. /\ summary' = ListedTotals(summary, Cardinality(S),
                                  Cardinality(RgsOf(A)), n)
      /\ by_type' = [by_type EXCEPT ![Kind].inventory_total = Cardinality(S),
                                    ![Kind].kept = Cardinality(K)]
      /\ skips' = [skips EXCEPT
             !["ignored_rg"]      = @ + Cardinality(A),
             !["excluded_by_tag"] = @ + Cardinality(B),
             !["inactive"]        = @ + Cardinality(C),
             !["unsizeable"]      = @ + Cardinality(D)]
      /\ skipLog' = skipLog \cup Lines("ignored_rg", A)
                            \cup Lines("excluded_by_tag", B)
                            \cup Lines("inactive", C)
                            \cup Lines("unsizeable", D)
  BY Zenon DEF CountListed, ListedTotals
<1> HIDE DEF A, B, C, D, K
<1>5. summary \in RunSummary /\ by_type \in [Kinds -> TypeSummary]
      /\ skips \in [Reasons -> Nat] /\ skipLog \subseteq LogLine
  BY DEF Typed, TypeOK
<1>6. summary' \in RunSummary
  BY <1>2, <1>3, <1>4, <1>5, ListedSummary
<1>7. Kind \in Kinds
  BY KindType DEF Typed, AtType, Kind
<1>8. by_type' \in [Kinds -> TypeSummary]
  BY <1>2, <1>4, <1>5, <1>7 DEF TypeSummary
<1>9. skips' \in [Reasons -> Nat]
  BY <1>2, <1>4, <1>5 DEF Reasons, FilterReasons
<1>10. skipLog' \subseteq LogLine
  BY <1>1, <1>4, <1>5, LinesType DEF Reasons, FilterReasons
<1> QED
  BY <1>6, <1>8, <1>9, <1>10

\* Dropping a type that raised goes on with the next one.
LEMMA DropTypeType ==
    ASSUME Typed, DropType
    PROVE  /\ at' \in 0..(NTypes + 1)
           /\ pc' \in Phases
           /\ AtType'
           /\ UNCHANGED <<mode, wanted, rows, table, denied>>
           /\ todo' = {} /\ typeRows' = {}
<1>1. NTypes \in Nat
  BY ConfiguredAssumption DEF NTypes
<1> QED
  BY <1>1, AdvanceType DEF DropType, AtType, Phases, settings, found

\* Every step keeps the run well typed.
LEMMA TypedNext == Typed /\ [Next]_vars => Typed'
<1> SUFFICES ASSUME Typed, [Next]_vars PROVE Typed'
  OBVIOUS
<1> USE DEF Typed
<1>0. NTypes \in Nat
  BY ConfiguredAssumption DEF NTypes
<1>1. CASE StartRun
  <2>1. /\ Advance
        /\ UNCHANGED <<mode, wanted, rows, table, summary, skips, by_type,
                       skipLog, todo, typeRows, denied>>
    BY <1>1 DEF StartRun, settings, found, counts
  <2> QED
    BY <1>0, <2>1, AdvanceType DEF TypeOK, AtType, Phases
<1>2. CASE RefuseSettings
  BY <1>2 DEF RefuseSettings, TypeOK, AtType, Ended, settings, loop, found,
              counts
<1>3. ASSUME NEW need \in {"inventory", "findings_ingest"}, Forbid(need)
      PROVE  Typed'
  BY <1>3 DEF Forbid, TypeOK, AtType, Ended, settings, loop, found, counts
<1>4. CASE ListFails
  <2>1. summary' \in RunSummary
    BY <1>4 DEF ListFails, TypeOK, RunSummary
  <2> QED
    BY <1>4, <2>1, DropTypeType DEF ListFails, TypeOK
<1>5. CASE List
  <2>1. PICK S \in SUBSET OfKind(Kind) : Listed(S)
    BY <1>5 DEF List
  <2>2. S \in SUBSET Resources /\ pc = "list" /\ CountListed(S, 0)
    BY <1>5, <2>1 DEF OfKind, List, Listed
  <2>3. /\ summary' \in RunSummary
        /\ by_type' \in [Kinds -> TypeSummary]
        /\ skips' \in [Reasons -> Nat]
        /\ skipLog' \subseteq LogLine
    BY <2>2, CountListedType
  <2>4. /\ todo' \subseteq Resources
        /\ pc' \in {"fetch", "evaluate"}
        /\ UNCHANGED <<mode, wanted, rows, table, at, typeRows, denied>>
    BY <2>1, <2>2 DEF Listed, Kept, settings, found
  <2> QED
    BY <2>2, <2>3, <2>4 DEF TypeOK, AtType, Phases
<1>6. CASE WindowRaises
  <2>1. PICK S \in SUBSET OfKind(Kind) : CountListed(S, 1)
    BY <1>6 DEF WindowRaises
  <2>2. S \in SUBSET Resources /\ pc = "list"
    BY <1>6 DEF OfKind, WindowRaises
  <2>3. /\ summary' \in RunSummary
        /\ by_type' \in [Kinds -> TypeSummary]
        /\ skips' \in [Reasons -> Nat]
        /\ skipLog' \subseteq LogLine
    BY <2>1, <2>2, CountListedType
  <2> QED
    BY <1>6, <2>3, DropTypeType DEF WindowRaises, TypeOK
<1>7. CASE Fetch
  <2>1. PICK batches \in Batchings(todo, BatchSize) :
             \E failed \in SUBSET batches :
                 \E forbidden \in BOOLEAN : Fetched(failed, forbidden)
    BY <1>7 DEF Fetch
  <2>2. PICK failed \in SUBSET batches :
             \E forbidden \in BOOLEAN : Fetched(failed, forbidden)
    BY <2>1
  <2>3. PICK forbidden \in BOOLEAN : Fetched(failed, forbidden)
    BY <2>2
  <2>4. todo \in SUBSET Resources
    BY DEF TypeOK
  <2>5. failed \in SUBSET SUBSET todo
    BY <2>1 DEF Batchings
  <2>6. UNION failed \in SUBSET Resources
    BY <2>4, <2>5
  <2>7. Cardinality(failed) \in Nat
    <3>1. IsFiniteSet(SUBSET todo)
      BY <2>4, ResourceSets, FS_SUBSET
    <3>2. IsFiniteSet(failed)
      BY <2>5, <3>1, FS_Subset
    <3> QED
      BY <3>2, FS_CardinalityType
  <2>8. Cardinality(UNION failed) \in Nat
    BY <2>6, ResourceSets
  <2>9. Kind \in Kinds
    BY <1>7, KindType DEF AtType, Kind, Fetch
  <2>10. summary' \in RunSummary
    BY <2>3, <2>7 DEF Fetched, TypeOK, RunSummary
  <2>11. by_type' \in [Kinds -> TypeSummary]
    BY <2>3, <2>7, <2>9 DEF Fetched, TypeOK, TypeSummary
  <2>12. skips' \in [Reasons -> Nat]
    BY <2>3, <2>8 DEF Fetched, TypeOK, Reasons
  <2>13. skipLog' \subseteq LogLine
    BY <2>3, <2>6, LinesType DEF Fetched, TypeOK, Reasons
  <2>14. /\ todo' \subseteq Resources
         /\ pc' = "evaluate"
         /\ denied' \subseteq {"inventory", "metrics", "findings_ingest"}
         /\ UNCHANGED <<mode, wanted, rows, table, at, typeRows>>
    BY <2>3, <2>4 DEF Fetched, Survivors, TypeOK, settings, found
  <2> QED
    BY <1>7, <2>10, <2>11, <2>12, <2>13, <2>14
       DEF TypeOK, AtType, Phases, Fetch
<1>8. CASE Evaluate
  <2>1. PICK r \in todo : Evaluating(r) /\
               \/ \E nodata, hot \in SUBSET OpsMetrics[Kind] :
                      EvaluateHot(r, nodata, hot)
               \/ NotCold(r)
               \/ NoCoverage(r)
               \/ \E m \in FinopsMetrics[Kind] : Cold(r, m)
    BY <1>8 DEF Evaluate, EvaluateHot, NotCold, NoCoverage, Cold
  <2>2. /\ pc = "evaluate" /\ Kind \in Kinds /\ r \in Resources
        /\ OpsMetrics[Kind] \subseteq Metrics
        /\ FinopsMetrics[Kind] \subseteq Metrics
    <3>1. pc = "evaluate" /\ Kind \in Kinds
      BY <2>1, KindType DEF AtType, Kind, Evaluating
    <3> QED
      BY <2>1, <3>1 DEF TypeOK, Metrics
  <2>3. /\ summary' \in RunSummary
        /\ todo' \subseteq Resources
        /\ UNCHANGED <<mode, wanted, rows, table, at, pc, denied>>
    BY <2>1 DEF Evaluating, CountEvaluated, TypeOK, RunSummary, settings,
                found
  <2>4. by_type' \in [Kinds -> TypeSummary]
    BY <2>1, <2>2 DEF Evaluating, CountEvaluated, TypeOK, TypeSummary
  <2>5. /\ skips' \in [Reasons -> Nat]
        /\ skipLog' \subseteq LogLine
        /\ typeRows' \subseteq Row
    <3>1. ASSUME NEW nodata \in SUBSET OpsMetrics[Kind],
                 NEW hot \in SUBSET OpsMetrics[Kind],
                 EvaluateHot(r, nodata, hot)
          PROVE  /\ skips' \in [Reasons -> Nat]
                 /\ skipLog' \subseteq LogLine
                 /\ typeRows' \subseteq Row
      <4>1. nodata \subseteq Metrics /\ hot \subseteq Metrics
        BY <2>2
      <4>2. Cardinality(nodata) \in Nat
        BY <4>1, MetricsAssumption, FS_Subset, FS_CardinalityType
      <4>3. skips' \in [Reasons -> Nat]
        BY <3>1, <4>2 DEF EvaluateHot, TypeOK, Reasons
      <4>4. {[reason |-> "no_ops_data", resource |-> r, metric |-> m] :
                 m \in nodata} \subseteq LogLine
        <5> SUFFICES ASSUME NEW m \in nodata
                     PROVE  [reason |-> "no_ops_data", resource |-> r,
                             metric |-> m] \in LogLine
          OBVIOUS
        <5>1. m \in Metrics \cup {""} /\ "no_ops_data" \in Reasons
          BY <4>1 DEF Reasons
        <5> QED
          BY <2>2, <5>1 DEF LogLine
      <4>5. skipLog' \subseteq LogLine
        BY <3>1, <4>4 DEF EvaluateHot, TypeOK
      <4>6. typeRows' \subseteq Row
        BY <3>1, <2>2, <4>1 DEF EvaluateHot, TypeOK, Row
      <4> QED
        BY <4>3, <4>5, <4>6
    <3>2. CASE NotCold(r)
      BY <3>2 DEF NotCold, TypeOK
    <3>3. CASE NoCoverage(r)
      <4>1. Lines("insufficient_finops_data", {r}) \subseteq LogLine
        BY <2>2, LinesType DEF Reasons
      <4>2. skips' \in [Reasons -> Nat]
        BY <3>3 DEF NoCoverage, TypeOK, Reasons
      <4> QED
        BY <3>3, <4>1, <4>2 DEF NoCoverage, TypeOK
    <3>4. ASSUME NEW m \in FinopsMetrics[Kind], Cold(r, m)
          PROVE  /\ skips' \in [Reasons -> Nat]
                 /\ skipLog' \subseteq LogLine
                 /\ typeRows' \subseteq Row
      BY <3>4, <2>2 DEF Cold, TypeOK, Row
    <3> QED
      BY <2>1, <3>1, <3>2, <3>3, <3>4
  <2> QED
    BY <2>2, <2>3, <2>4, <2>5 DEF TypeOK, AtType
<1>9. CASE EvaluationRaises
  <2>1. Kind \in Kinds /\ summary \in RunSummary
    BY <1>9, KindType DEF AtType, Kind, EvaluationRaises, TypeOK
  <2>2. summary' \in RunSummary
    <3>1. summary' = RaisedTotals(summary)
      BY <1>9, Zenon DEF EvaluationRaises, RaisedTotals
    <3> QED
      BY <2>1, <3>1, RaisedSummary
  <2>3. by_type' \in [Kinds -> TypeSummary]
    BY <1>9, <2>1 DEF EvaluationRaises, TypeOK, TypeSummary
  <2> QED
    BY <1>9, <2>2, <2>3, DropTypeType DEF EvaluationRaises, TypeOK
<1>10. CASE FinishType
  <2>1. Kind \in Kinds
    BY <1>10, KindType DEF AtType, Kind, FinishType
  <2>2. Cardinality(typeRows) \in Nat
    BY RowSets DEF TypeOK
  <2>3. by_type' \in [Kinds -> TypeSummary]
    BY <1>10, <2>1, <2>2 DEF FinishType, TypeOK, TypeSummary
  <2>4. /\ Advance
        /\ rows' \subseteq Row /\ typeRows' \subseteq Row
        /\ UNCHANGED <<mode, wanted, todo, table, summary, skips, skipLog,
                       denied>>
    BY <1>10 DEF FinishType, TypeOK, settings
  <2> QED
    BY <1>0, <2>3, <2>4, AdvanceType DEF TypeOK, AtType, Phases
<1>11. CASE BeginWrite
  <2>1. Cardinality(rows) \in Nat
    BY RowSets DEF TypeOK
  <2>2. summary' \in RunSummary
    BY <1>11, <2>1 DEF BeginWrite, TypeOK, RunSummary
  <2> QED
    BY <1>11, <2>2 DEF BeginWrite, TypeOK, AtType, Phases, settings, loop,
                       found
<1>12. ASSUME NEW S \in SUBSET rows, UploadPart(S)
       PROVE  Typed'
  BY <1>12 DEF UploadPart, TypeOK, AtType, settings, loop, counts
<1>13. CASE UploadDone
  <2>1. Cardinality(rows) \in Nat
    BY RowSets DEF TypeOK
  <2>2. summary' \in RunSummary
    BY <1>13, <2>1 DEF UploadDone, TypeOK, RunSummary
  <2> QED
    BY <1>13, <2>2 DEF UploadDone, TypeOK, AtType, Phases, settings, loop,
                       found
<1>14. CASE UploadFails
  <2>1. summary' \in RunSummary
    BY <1>14 DEF UploadFails, TypeOK, RunSummary
  <2> QED
    BY <1>14, <2>1 DEF UploadFails, TypeOK, AtType, Phases, settings, loop,
                       found
<1>15. CASE Report
  BY <1>15 DEF Report, TypeOK, AtType, Ended, settings, loop, found, counts
<1>16. CASE Kill
  BY <1>16 DEF Kill, TypeOK, AtType, Ended, settings, loop, found, counts
<1>17. CASE UNCHANGED vars
  BY <1>17 DEF vars, TypeOK, AtType, settings, loop, found, counts
<1> QED
  BY <1>1, <1>2, <1>3, <1>4, <1>5, <1>6, <1>7, <1>8, <1>9, <1>10, <1>11,
     <1>12, <1>13, <1>14, <1>15, <1>16, <1>17
     DEF Next, Progress, Stopped, ListForbidden, Upload, UploadForbidden

\* Type correctness: the counters stay natural numbers, the log and the rows
\* hold only known resources, reasons and metrics, and the loop index stays in
\* the configured types, for any configuration.
THEOREM TypeCorrect == Spec => []TypeOK
<1>1. Typed => TypeOK
  BY DEF Typed
<1> QED
  BY <1>1, TypedInit, TypedNext, PTL DEF Spec
-----------------------------------------------------------------------------
(* Accounting.                                                             *)

\* Accounting says nothing of the resources a type still works on; counted in,
\* every step keeps the books balanced.
Settled == DroppedCount + summary.evaluated + Cardinality(todo)

Balanced ==
    /\ summary.inventory_total >= Settled
    /\ summary.type_failures = 0 => summary.inventory_total = Settled

\* Between two types nothing is left to do; only a kill leaves work behind.
NothingLeft == pc \notin {"fetch", "evaluate", "killed"} => todo = {}

Accounted == Balanced /\ NothingLeft

\* A run starts with empty books.
LEMMA AccountedInit == Init => Accounted
  BY FS_EmptySet DEF Init, Accounted, Balanced, Settled, NothingLeft,
                     DroppedCount, Reasons, FilterReasons

\* The numbers the books are made of are natural.
LEMMA SettledType ==
    ASSUME Typed
    PROVE  /\ DroppedCount \in Nat
           /\ summary.evaluated \in Nat
           /\ summary.inventory_total \in Nat
           /\ summary.type_failures \in Nat
           /\ Cardinality(todo) \in Nat
<1>1. DroppedCount \in Nat
  BY DEF Typed, TypeOK, DroppedCount, Reasons, FilterReasons
<1>2. /\ summary.evaluated \in Nat
      /\ summary.inventory_total \in Nat
      /\ summary.type_failures \in Nat
  BY DEF Typed, TypeOK, RunSummary
<1> QED
  BY <1>1, <1>2, ResourceSets DEF Typed, TypeOK

\* A listing enters the books with all it dropped.
LEMMA CountListedBooks ==
    ASSUME Typed, NEW S \in SUBSET Resources, NEW n \in Nat, CountListed(S, n)
    PROVE  LET going == Kept(S) \ Unsizeable(Kept(S))
           IN  /\ summary'.inventory_total
                      = summary.inventory_total + Cardinality(S)
               /\ summary'.evaluated = summary.evaluated
               /\ summary'.type_failures = summary.type_failures + n
               /\ DroppedCount' + Cardinality(going)
                      = DroppedCount + Cardinality(S)
               /\ DroppedCount' \in Nat
               /\ Cardinality(going) \in Nat
<1> DEFINE A == InIgnoredRg(S)
           B == ExcludedByTag(S)
           C == Inactive(S)
           D == Unsizeable(Kept(S))
           E == Kept(S) \ D
<1>1. /\ A \in SUBSET Resources /\ B \in SUBSET Resources
      /\ C \in SUBSET Resources /\ D \in SUBSET Resources
      /\ E \in SUBSET Resources
  BY DEF InIgnoredRg, ExcludedByTag, Inactive, Kept, Unsizeable
<1>2. /\ Cardinality(A) \in Nat /\ Cardinality(B) \in Nat
      /\ Cardinality(C) \in Nat /\ Cardinality(D) \in Nat
      /\ Cardinality(E) \in Nat /\ Cardinality(S) \in Nat
      /\ Cardinality(RgsOf(A)) \in Nat
  BY <1>1, ResourceSets, GroupSets
<1>3. Cardinality(S) = Cardinality(A) + Cardinality(B) + Cardinality(C)
                           + Cardinality(D) + Cardinality(E)
  BY Partition
<1>4. skips' = [skips EXCEPT
             !["ignored_rg"]      = @ + Cardinality(A),
             !["excluded_by_tag"] = @ + Cardinality(B),
             !["inactive"]        = @ + Cardinality(C),
             !["unsizeable"]      = @ + Cardinality(D)]
  BY DEF CountListed
<1>5. summary' = ListedTotals(summary, Cardinality(S),
                              Cardinality(RgsOf(A)), n)
  BY Zenon DEF CountListed, ListedTotals
<1> HIDE DEF A, B, C, D, E
<1>6. /\ summary'.inventory_total = summary.inventory_total + Cardinality(S)
      /\ summary'.evaluated = summary.evaluated
      /\ summary'.type_failures = summary.type_failures + n
  <2>1. summary \in RunSummary
    BY DEF Typed, TypeOK
  <2> QED
    BY <1>2, <1>5, <2>1, ListedSummary
<1>7. skips \in [Reasons -> Nat]
  BY DEF Typed, TypeOK
<1>8. /\ skips'["ignored_rg"] = skips["ignored_rg"] + Cardinality(A)
      /\ skips'["excluded_by_tag"] = skips["excluded_by_tag"] + Cardinality(B)
      /\ skips'["inactive"] = skips["inactive"] + Cardinality(C)
      /\ skips'["unsizeable"] = skips["unsizeable"] + Cardinality(D)
      /\ skips'["chunk_failed"] = skips["chunk_failed"]
  BY <1>4, <1>7 DEF Reasons, FilterReasons
<1>9. /\ skips["ignored_rg"] \in Nat /\ skips["excluded_by_tag"] \in Nat
      /\ skips["inactive"] \in Nat /\ skips["unsizeable"] \in Nat
      /\ skips["chunk_failed"] \in Nat
  BY <1>7 DEF Reasons, FilterReasons
<1>10. /\ DroppedCount' = DroppedCount + Cardinality(A) + Cardinality(B)
                              + Cardinality(C) + Cardinality(D)
       /\ DroppedCount \in Nat
  BY <1>2, <1>8, <1>9 DEF DroppedCount
<1>11. /\ DroppedCount' + Cardinality(E) = DroppedCount + Cardinality(S)
       /\ DroppedCount' \in Nat
  BY <1>2, <1>3, <1>10
<1> QED
  BY <1>2, <1>6, <1>11 DEF D, E

\* A step that touches neither the books nor the work left keeps the balance.
LEMMA BooksUntouched ==
    ASSUME Accounted,
           UNCHANGED <<todo, skips>>,
           summary'.inventory_total = summary.inventory_total,
           summary'.evaluated = summary.evaluated,
           summary'.type_failures = summary.type_failures
    PROVE  Balanced'
  BY DEF Accounted, Balanced, Settled, DroppedCount

\* Every step keeps the books balanced.
LEMMA AccountedNext == Typed /\ Accounted /\ [Next]_vars => Accounted'
<1> SUFFICES ASSUME Typed, Accounted, [Next]_vars PROVE Accounted'
  OBVIOUS
<1>0. /\ DroppedCount \in Nat
      /\ summary.evaluated \in Nat
      /\ summary.inventory_total \in Nat
      /\ summary.type_failures \in Nat
      /\ Cardinality(todo) \in Nat
      /\ todo \in SUBSET Resources
      /\ summary \in RunSummary
      /\ skips \in [Reasons -> Nat]
  BY SettledType DEF Typed, TypeOK
<1>e. Cardinality({}) = 0
  BY FS_EmptySet
<1>1. CASE StartRun
  <2>1. Balanced'
    BY <1>1, BooksUntouched DEF StartRun, counts
  <2>2. todo' = {}
    BY <1>1 DEF StartRun, Accounted, NothingLeft
  <2> QED
    BY <2>1, <2>2 DEF Accounted, NothingLeft
<1>2. CASE RefuseSettings
  <2>1. Balanced'
    BY <1>2, BooksUntouched DEF RefuseSettings, loop, counts
  <2> QED
    BY <1>2, <2>1 DEF RefuseSettings, loop, Accounted, NothingLeft
<1>3. CASE ListForbidden
  <2>1. Balanced'
    BY <1>3, BooksUntouched DEF ListForbidden, Forbid, loop, counts
  <2> QED
    BY <1>3, <2>1 DEF ListForbidden, Forbid, loop, Accounted, NothingLeft
<1>4. CASE ListFails
  <2>1. /\ summary'.inventory_total = summary.inventory_total
        /\ summary'.evaluated = summary.evaluated
        /\ summary'.type_failures = summary.type_failures + 1
    BY <1>0, <1>4 DEF ListFails, RunSummary
  <2>2. UNCHANGED skips /\ todo' = {} /\ todo = {}
    BY <1>4 DEF ListFails, DropType, Accounted, NothingLeft
  <2> QED
    BY <1>0, <2>1, <2>2
       DEF Accounted, Balanced, Settled, NothingLeft, DroppedCount
<1>5. CASE List
  <2>1. PICK S \in SUBSET OfKind(Kind) : Listed(S)
    BY <1>5 DEF List
  <2>2. /\ S \in SUBSET Resources
        /\ CountListed(S, 0)
        /\ todo' = Kept(S) \ Unsizeable(Kept(S))
        /\ pc' \in {"fetch", "evaluate"}
        /\ todo = {}
    BY <1>5, <2>1 DEF OfKind, List, Listed, Accounted, NothingLeft
  <2>3. /\ summary'.inventory_total
               = summary.inventory_total + Cardinality(S)
        /\ summary'.evaluated = summary.evaluated
        /\ summary'.type_failures = summary.type_failures + 0
        /\ DroppedCount' + Cardinality(todo') = DroppedCount + Cardinality(S)
        /\ DroppedCount' \in Nat
        /\ Cardinality(todo') \in Nat
    BY <2>2, CountListedBooks
  <2>4. Cardinality(S) \in Nat
    BY <2>2, ResourceSets
  <2>5. Settled = DroppedCount + summary.evaluated
    BY <1>0, <1>e, <2>2 DEF Settled
  <2>6. Settled' = Settled + Cardinality(S)
    BY <1>0, <2>3, <2>4, <2>5 DEF Settled
  <2>7. Settled \in Nat
    BY <1>0, <2>5
  <2>8. Balanced'
    BY <1>0, <2>3, <2>4, <2>6, <2>7 DEF Accounted, Balanced
  <2> QED
    BY <2>2, <2>8 DEF Accounted, NothingLeft
<1>6. CASE WindowRaises
  <2>1. PICK S \in SUBSET OfKind(Kind) : CountListed(S, 1)
    BY <1>6 DEF WindowRaises
  <2>2. /\ S \in SUBSET Resources
        /\ todo' = {}
        /\ todo = {}
    BY <1>6, <2>1
       DEF OfKind, WindowRaises, DropType, Accounted, NothingLeft
  <2> DEFINE going == Kept(S) \ Unsizeable(Kept(S))
  <2>3. /\ summary'.inventory_total
               = summary.inventory_total + Cardinality(S)
        /\ summary'.evaluated = summary.evaluated
        /\ summary'.type_failures = summary.type_failures + 1
        /\ DroppedCount' + Cardinality(going) = DroppedCount + Cardinality(S)
        /\ DroppedCount' \in Nat
        /\ Cardinality(going) \in Nat
    BY <2>1, <2>2, CountListedBooks
  <2> HIDE DEF going
  <2>4. Cardinality(S) \in Nat
    BY <2>2, ResourceSets
  <2>5. summary.inventory_total >= DroppedCount + summary.evaluated
    BY <1>0, <1>e, <2>2 DEF Accounted, Balanced, Settled
  <2>6. Settled' = DroppedCount' + summary.evaluated
    BY <1>0, <1>e, <2>2, <2>3 DEF Settled
  <2>7. summary'.inventory_total >= Settled' /\ summary'.type_failures # 0
    BY <1>0, <2>3, <2>4, <2>5, <2>6
  <2> QED
    BY <2>2, <2>7 DEF Accounted, Balanced, NothingLeft
<1>7. CASE Fetch
  <2>1. PICK batches \in Batchings(todo, BatchSize) :
             \E failed \in SUBSET batches :
                 \E forbidden \in BOOLEAN : Fetched(failed, forbidden)
    BY <1>7 DEF Fetch
  <2>2. PICK failed \in SUBSET batches :
             \E forbidden \in BOOLEAN : Fetched(failed, forbidden)
    BY <2>1
  <2>3. PICK forbidden \in BOOLEAN : Fetched(failed, forbidden)
    BY <2>2
  <2> DEFINE lost == UNION failed
  <2>4. lost \subseteq todo
    BY <2>1 DEF Batchings
  <2>5. /\ skips' = [skips EXCEPT !["chunk_failed"] = @ + Cardinality(lost)]
        /\ todo' = todo \ lost
        /\ pc' = "evaluate"
    BY <2>3 DEF Fetched, Survivors
  <2>6. /\ summary'.inventory_total = summary.inventory_total
        /\ summary'.evaluated = summary.evaluated
        /\ summary'.type_failures = summary.type_failures
    BY <1>0, <2>3 DEF Fetched, RunSummary
  <2> HIDE DEF lost
  <2>7. Cardinality(todo) = Cardinality(lost) + Cardinality(todo')
    <3>1. /\ lost \in SUBSET Resources /\ todo' \in SUBSET Resources
          /\ lost \cap todo' = {} /\ lost \cup todo' = todo
      BY <1>0, <2>4, <2>5
    <3> QED
      BY <3>1, CountDisjoint
  <2>8. Cardinality(lost) \in Nat /\ Cardinality(todo') \in Nat
    BY <1>0, <2>4, <2>5, ResourceSets
  <2>9. DroppedCount' = DroppedCount + Cardinality(lost)
    BY <1>0, <2>5, <2>8 DEF DroppedCount, Reasons, FilterReasons
  <2>10. Settled' = Settled
    BY <1>0, <2>6, <2>7, <2>8, <2>9 DEF Settled
  <2> QED
    BY <2>5, <2>6, <2>10 DEF Accounted, Balanced, NothingLeft
<1>8. CASE Evaluate
  <2>1. PICK r \in todo :
           /\ Evaluating(r)
           /\ \/ \E nodata, hot \in SUBSET OpsMetrics[Kind] :
                     EvaluateHot(r, nodata, hot)
              \/ NotCold(r)
              \/ NoCoverage(r)
              \/ \E m \in FinopsMetrics[Kind] : Cold(r, m)
    BY <1>8 DEF Evaluate, EvaluateHot, NotCold, NoCoverage, Cold
  <2>2. /\ summary'.inventory_total = summary.inventory_total
        /\ summary'.evaluated = summary.evaluated + 1
        /\ summary'.type_failures = summary.type_failures
    BY <1>0, <2>1 DEF Evaluating, CountEvaluated, RunSummary
  <2>3. todo' = todo \ {r} /\ pc' = "evaluate"
    BY <2>1 DEF Evaluating
  <2>4. Cardinality(todo') = Cardinality(todo) - 1
    <3>1. IsFiniteSet(todo)
      BY <1>0, ResourceSets
    <3> QED
      BY <2>1, <2>3, <3>1, FS_RemoveElement
  <2>5. DroppedCount' = DroppedCount
    <3>1. \A x \in Reasons \ {"no_ops_data", "insufficient_finops_data"} :
              skips'[x] = skips[x]
      BY <1>0, <2>1 DEF EvaluateHot, NotCold, NoCoverage, Cold
    <3> QED
      BY <3>1 DEF DroppedCount, Reasons, FilterReasons
  <2>6. Settled' = Settled
    BY <1>0, <2>2, <2>4, <2>5 DEF Settled
  <2> QED
    BY <2>2, <2>3, <2>6 DEF Accounted, Balanced, NothingLeft
<1>9. CASE EvaluationRaises
  <2>1. /\ summary'.inventory_total = summary.inventory_total
        /\ summary'.evaluated = summary.evaluated + 1
        /\ summary'.type_failures = summary.type_failures + 1
    <3>1. summary' = RaisedTotals(summary)
      BY <1>9, Zenon DEF EvaluationRaises, RaisedTotals
    <3> QED
      BY <1>0, <3>1, RaisedSummary
  <2>2. todo' = {} /\ UNCHANGED skips /\ todo # {}
    BY <1>9 DEF EvaluationRaises, DropType
  <2>3. Cardinality(todo) # 0
    BY <1>0, <2>2, ResourceSets, FS_EmptySet
  <2>4. DroppedCount' = DroppedCount
    BY <2>2 DEF DroppedCount
  <2>5. Settled' = DroppedCount + summary.evaluated + 1
    BY <1>0, <1>e, <2>1, <2>2, <2>4 DEF Settled
  <2>6. Settled' <= Settled
    BY <1>0, <2>3, <2>5 DEF Settled
  <2>7. Settled \in Nat /\ Settled' \in Nat
    BY <1>0, <2>5 DEF Settled
  <2> QED
    BY <1>0, <2>1, <2>2, <2>6, <2>7 DEF Accounted, Balanced, NothingLeft
<1>10. CASE FinishType
  <2>1. Balanced'
    BY <1>10, BooksUntouched DEF FinishType
  <2> QED
    BY <1>10, <2>1 DEF FinishType, Accounted, NothingLeft
<1>11. CASE BeginWrite
  <2>1. /\ summary'.inventory_total = summary.inventory_total
        /\ summary'.evaluated = summary.evaluated
        /\ summary'.type_failures = summary.type_failures
    BY <1>0, <1>11 DEF BeginWrite, RunSummary
  <2>2. UNCHANGED <<todo, skips>> /\ pc = "write"
    BY <1>11 DEF BeginWrite, loop
  <2> QED
    BY <2>1, <2>2, BooksUntouched DEF Accounted, NothingLeft
<1>12. CASE Upload
  <2>1. /\ summary'.inventory_total = summary.inventory_total
        /\ summary'.evaluated = summary.evaluated
        /\ summary'.type_failures = summary.type_failures
    BY <1>0, <1>12 DEF Upload, UploadPart, UploadDone, UploadFails,
                       UploadForbidden, Forbid, counts, RunSummary
  <2>2. UNCHANGED <<todo, skips>> /\ pc = "upload"
    BY <1>12 DEF Upload, UploadPart, UploadDone, UploadFails,
                 UploadForbidden, Forbid, loop, counts
  <2> QED
    BY <2>1, <2>2, BooksUntouched DEF Accounted, NothingLeft
<1>13. CASE Report
  <2>1. Balanced'
    BY <1>13, BooksUntouched DEF Report, loop, counts
  <2> QED
    BY <1>13, <2>1 DEF Report, loop, Accounted, NothingLeft
<1>14. CASE Kill
  <2>1. Balanced'
    BY <1>14, BooksUntouched DEF Kill, loop, counts
  <2> QED
    BY <1>14, <2>1 DEF Kill, Accounted, NothingLeft
<1>15. CASE UNCHANGED vars
  <2>1. Balanced'
    BY <1>15, BooksUntouched DEF vars, loop, counts
  <2> QED
    BY <1>15, <2>1 DEF vars, loop, Accounted, NothingLeft
<1> QED
  BY <1>1, <1>2, <1>3, <1>4, <1>5, <1>6, <1>7, <1>8, <1>9, <1>10, <1>11,
     <1>12, <1>13, <1>14, <1>15 DEF Next, Progress, Stopped

\* Whatever fails, the "run complete" line accounts for every resource listed
\* (_run_type's counters, filter_resources and the chunk_failed skips).
THEOREM AccountsForAll == Spec => []Accounting
<1>1. Typed /\ Accounted => Accounting
  <2> SUFFICES ASSUME Typed, Accounted PROVE Accounting
    OBVIOUS
  <2>1. /\ DroppedCount \in Nat /\ summary.evaluated \in Nat
        /\ Cardinality(todo) \in Nat /\ summary.inventory_total \in Nat
    BY SettledType
  <2>2. LoopDone => Cardinality(todo) = 0
    BY FS_EmptySet DEF Accounted, NothingLeft, LoopDone
  <2> QED
    BY <2>1, <2>2 DEF Accounted, Balanced, Settled, Accounting
<1> QED
  BY <1>1, TypedInit, TypedNext, AccountedInit, AccountedNext, PTL DEF Spec
-----------------------------------------------------------------------------
(* The write.                                                              *)

\* What TableOutcome needs of the steps before the run ends: nothing is in the
\* table before the upload and nothing but this run's rows after, and the
\* counters of the write say how it went.
Written ==
    /\ table \subseteq rows
    /\ pc \in {"start", "list", "fetch", "evaluate", "write"} => table = {}
    /\ pc \in {"start", "list", "fetch", "evaluate", "write", "upload"} =>
           summary.rows_written = 0 /\ summary.write_failures = 0
    /\ pc \in {"upload", "report"} => summary.findings = Cardinality(rows)
    /\ pc = "upload" => rows # {}
    /\ pc = "report" /\ summary.write_failures = 0 =>
           table = rows /\ summary.rows_written = Cardinality(rows)
    /\ pc = "report" /\ summary.write_failures > 0 =>
           rows # {} /\ summary.rows_written = 0
    /\ TableOutcome

\* A run starts with nothing written.
LEMMA WrittenInit == Init => Written
  BY DEF Init, Written, TableOutcome

\* A step of the type loop writes nothing.
LEMMA NothingWritten ==
    ASSUME Written,
           pc \in {"start", "list", "fetch", "evaluate"},
           pc' \in {"start", "list", "fetch", "evaluate", "write"},
           table' = table,
           summary'.rows_written = summary.rows_written,
           summary'.write_failures = summary.write_failures
    PROVE  Written'
  BY DEF Written, TableOutcome

\* Every step keeps the write's books.
LEMMA WrittenNext == Typed /\ Written /\ [Next]_vars => Written'
<1> SUFFICES ASSUME Typed, Written, [Next]_vars PROVE Written'
  OBVIOUS
<1>0. /\ summary \in RunSummary
      /\ rows \in SUBSET Row
      /\ Cardinality(rows) \in Nat
      /\ summary.write_failures \in Nat
  BY RowSets DEF Typed, TypeOK, RunSummary
<1>1. CASE StartRun
  BY <1>1, NothingWritten, AdvanceType DEF StartRun, found, counts
<1>2. CASE RefuseSettings
  BY <1>2 DEF RefuseSettings, found, counts, Written, TableOutcome
<1>3. CASE ListForbidden
  BY <1>3 DEF ListForbidden, Forbid, found, counts, Written, TableOutcome
<1>4. CASE ListFails
  <2>1. /\ summary'.rows_written = summary.rows_written
        /\ summary'.write_failures = summary.write_failures
    BY <1>0, <1>4 DEF ListFails, RunSummary
  <2> QED
    BY <1>4, <2>1, NothingWritten, AdvanceType DEF ListFails, DropType, found
<1>5. ASSUME NEW S \in SUBSET OfKind(Kind), NEW n \in Nat, CountListed(S, n)
      PROVE  /\ summary'.rows_written = summary.rows_written
             /\ summary'.write_failures = summary.write_failures
  <2>1. /\ S \in SUBSET Resources
        /\ InIgnoredRg(S) \in SUBSET Resources
    BY DEF OfKind, InIgnoredRg
  <2>2. /\ Cardinality(S) \in Nat
        /\ Cardinality(RgsOf(InIgnoredRg(S))) \in Nat
    BY <2>1, ResourceSets, GroupSets
  <2>3. summary' = ListedTotals(summary, Cardinality(S),
                                Cardinality(RgsOf(InIgnoredRg(S))), n)
    BY <1>5, Zenon DEF CountListed, ListedTotals
  <2> QED
    BY <1>0, <2>2, <2>3, ListedSummary
<1>6. CASE List
  <2>1. PICK S \in SUBSET OfKind(Kind) : Listed(S)
    BY <1>6 DEF List
  <2>2. /\ CountListed(S, 0) /\ pc = "list" /\ pc' \in {"fetch", "evaluate"}
        /\ table' = table
    BY <1>6, <2>1 DEF List, Listed, found
  <2>3. /\ summary'.rows_written = summary.rows_written
        /\ summary'.write_failures = summary.write_failures
    BY <2>2, <1>5
  <2> QED
    BY <2>2, <2>3, NothingWritten
<1>7. CASE WindowRaises
  <2>1. PICK S \in SUBSET OfKind(Kind) : CountListed(S, 1)
    BY <1>7 DEF WindowRaises
  <2>2. /\ summary'.rows_written = summary.rows_written
        /\ summary'.write_failures = summary.write_failures
    BY <2>1, <1>5
  <2>3. pc = "list" /\ pc' \in {"list", "write"} /\ table' = table
    BY <1>7, AdvanceType DEF WindowRaises, DropType, found
  <2> QED
    BY <2>2, <2>3, NothingWritten
<1>8. CASE Fetch
  <2>1. PICK failed, forbidden : Fetched(failed, forbidden)
    BY <1>8 DEF Fetch
  <2>2. /\ summary'.rows_written = summary.rows_written
        /\ summary'.write_failures = summary.write_failures
    BY <1>0, <2>1 DEF Fetched, RunSummary
  <2> QED
    BY <1>8, <2>1, <2>2, NothingWritten DEF Fetch, Fetched, found
<1>9. CASE Evaluate
  <2>1. PICK r \in todo : Evaluating(r)
    BY <1>9 DEF Evaluate, EvaluateHot, NotCold, NoCoverage, Cold
  <2>2. /\ summary'.rows_written = summary.rows_written
        /\ summary'.write_failures = summary.write_failures
    BY <1>0, <2>1 DEF Evaluating, CountEvaluated, RunSummary
  <2> QED
    BY <2>1, <2>2, NothingWritten DEF Evaluating, found
<1>10. CASE EvaluationRaises
  <2>1. /\ summary'.rows_written = summary.rows_written
        /\ summary'.write_failures = summary.write_failures
    <3>1. summary' = RaisedTotals(summary)
      BY <1>10, Zenon DEF EvaluationRaises, RaisedTotals
    <3> QED
      BY <1>0, <3>1, RaisedSummary
  <2>2. pc = "evaluate" /\ pc' \in {"list", "write"} /\ table' = table
    BY <1>10, AdvanceType DEF EvaluationRaises, DropType, found
  <2> QED
    BY <2>1, <2>2, NothingWritten
<1>11. CASE FinishType
  BY <1>11, NothingWritten, AdvanceType DEF FinishType
<1>12. CASE BeginWrite
  <2>1. /\ summary'.rows_written = summary.rows_written
        /\ summary'.write_failures = summary.write_failures
        /\ summary'.findings = Cardinality(rows)
    BY <1>0, <1>12 DEF BeginWrite, RunSummary
  <2>2. Cardinality({}) = 0
    BY FS_EmptySet
  <2>3. /\ table = {} /\ table' = table /\ rows' = rows
        /\ summary.rows_written = 0 /\ summary.write_failures = 0
    BY <1>12 DEF BeginWrite, found, Written
  <2>4. CASE rows = {}
    <3>1. pc' = "report"
      BY <1>12, <2>4 DEF BeginWrite
    <3> QED
      BY <2>1, <2>2, <2>3, <2>4, <3>1 DEF Written, TableOutcome
  <2>5. CASE rows # {}
    <3>1. pc' = "upload"
      BY <1>12, <2>5 DEF BeginWrite
    <3> QED
      BY <2>1, <2>3, <2>5, <3>1 DEF Written, TableOutcome
  <2> QED
    BY <2>3, <2>4, <2>5
<1>13. ASSUME NEW S \in SUBSET rows, UploadPart(S)
       PROVE  Written'
  BY <1>13 DEF UploadPart, counts, Written, TableOutcome
<1>14. CASE UploadDone
  <2>1. /\ summary'.rows_written = Cardinality(rows)
        /\ summary'.write_failures = summary.write_failures
        /\ summary'.findings = summary.findings
    BY <1>0, <1>14 DEF UploadDone, RunSummary
  <2> QED
    BY <1>14, <2>1 DEF UploadDone, found, Written, TableOutcome
<1>15. CASE UploadFails
  <2>1. /\ summary'.rows_written = summary.rows_written
        /\ summary'.write_failures = summary.write_failures + 1
        /\ summary'.findings = summary.findings
    BY <1>0, <1>15 DEF UploadFails, RunSummary
  <2> QED
    BY <1>0, <1>15, <2>1 DEF UploadFails, found, Written, TableOutcome
<1>16. CASE UploadForbidden
  BY <1>16 DEF UploadForbidden, Forbid, found, counts, Written, TableOutcome
<1>17. CASE Report
  BY <1>0, <1>17 DEF Report, found, counts, Written, TableOutcome
<1>18. CASE Kill
  BY <1>18 DEF Kill, found, counts, Written, TableOutcome
<1>19. CASE UNCHANGED vars
  BY <1>19 DEF vars, found, counts, Written, TableOutcome
<1> QED
  BY <1>1, <1>2, <1>3, <1>4, <1>6, <1>7, <1>8, <1>9, <1>10, <1>11, <1>12,
     <1>13, <1>14, <1>15, <1>16, <1>17, <1>18, <1>19
     DEF Next, Progress, Stopped, Upload

\* A permission other than the one for metrics ends the run where it is
\* missed; a missing one for metrics has failed batches by then.
Heeded ==
    /\ pc # "forbidden" => denied \subseteq {"metrics"}
    /\ "metrics" \in denied => summary.chunk_failures > 0

\* A run starts with all it needs.
LEMMA HeededInit == Init => Heeded
  BY DEF Init, Heeded

\* No step of the type loop takes a failed batch back.
LEMMA NothingDenied ==
    ASSUME Typed, Heeded, pc \notin Ended, UNCHANGED denied,
           summary'.chunk_failures = summary.chunk_failures
    PROVE  Heeded'
  BY DEF Typed, TypeOK, RunSummary, Heeded, Ended

\* Every step heeds a missing permission.
LEMMA HeededNext == Typed /\ Heeded /\ [Next]_vars => Heeded'
<1> SUFFICES ASSUME Typed, Heeded, [Next]_vars PROVE Heeded'
  OBVIOUS
<1>0. summary \in RunSummary /\ summary.chunk_failures \in Nat
  BY DEF Typed, TypeOK, RunSummary
<1>1. CASE StartRun
  BY <1>1, NothingDenied DEF StartRun, counts, Ended
<1>2. CASE RefuseSettings
  BY <1>2, NothingDenied DEF RefuseSettings, counts, Ended
<1>3. ASSUME NEW need \in {"inventory", "findings_ingest"}, Forbid(need),
             pc \notin Ended
      PROVE  Heeded'
  BY <1>3 DEF Forbid, counts, Heeded, Ended
<1>4. CASE ListForbidden
  BY <1>3, <1>4 DEF ListForbidden, Ended
<1>5. CASE ListFails
  <2>1. summary'.chunk_failures = summary.chunk_failures
    BY <1>0, <1>5 DEF ListFails, RunSummary
  <2> QED
    BY <1>5, <2>1, NothingDenied DEF ListFails, DropType, Ended
<1>6. ASSUME NEW S \in SUBSET OfKind(Kind), NEW n \in Nat, CountListed(S, n)
      PROVE  summary'.chunk_failures = summary.chunk_failures
  <2>1. /\ S \in SUBSET Resources
        /\ InIgnoredRg(S) \in SUBSET Resources
    BY DEF OfKind, InIgnoredRg
  <2>2. /\ Cardinality(S) \in Nat
        /\ Cardinality(RgsOf(InIgnoredRg(S))) \in Nat
    BY <2>1, ResourceSets, GroupSets
  <2>3. summary' = ListedTotals(summary, Cardinality(S),
                                Cardinality(RgsOf(InIgnoredRg(S))), n)
    BY <1>6, Zenon DEF CountListed, ListedTotals
  <2> QED
    BY <1>0, <2>2, <2>3, ListedSummary
<1>7. CASE List
  <2>1. PICK S \in SUBSET OfKind(Kind) : Listed(S)
    BY <1>7 DEF List
  <2>2. /\ CountListed(S, 0) /\ pc = "list" /\ UNCHANGED denied
    BY <1>7, <2>1 DEF List, Listed
  <2> QED
    BY <1>6, <2>2, NothingDenied DEF Ended
<1>8. CASE WindowRaises
  <2>1. PICK S \in SUBSET OfKind(Kind) : CountListed(S, 1)
    BY <1>8 DEF WindowRaises
  <2>2. pc = "list" /\ UNCHANGED denied
    BY <1>8 DEF WindowRaises, DropType
  <2> QED
    BY <1>6, <2>1, <2>2, NothingDenied DEF Ended
<1>9. CASE Fetch
  <2>1. PICK batches \in Batchings(todo, BatchSize) :
             \E failed \in SUBSET batches :
                 \E forbidden \in BOOLEAN :
                     (forbidden => failed # {}) /\ Fetched(failed, forbidden)
    BY <1>9 DEF Fetch
  <2>2. PICK failed \in SUBSET batches :
             \E forbidden \in BOOLEAN :
                 (forbidden => failed # {}) /\ Fetched(failed, forbidden)
    BY <2>1
  <2>3. PICK forbidden \in BOOLEAN :
             (forbidden => failed # {}) /\ Fetched(failed, forbidden)
    BY <2>2
  <2>4. IsFiniteSet(failed) /\ Cardinality(failed) \in Nat
    <3>1. todo \in SUBSET Resources /\ failed \in SUBSET SUBSET todo
      BY <2>1 DEF Typed, TypeOK, Batchings
    <3>2. IsFiniteSet(SUBSET todo)
      BY <3>1, ResourceSets, FS_SUBSET
    <3> QED
      BY <3>1, <3>2, FS_Subset, FS_CardinalityType
  <2>5. forbidden => Cardinality(failed) > 0
    BY <2>3, <2>4, FS_EmptySet
  <2>6. summary'.chunk_failures
            = summary.chunk_failures + Cardinality(failed)
    BY <1>0, <2>3 DEF Fetched, RunSummary
  <2>7. denied' = IF forbidden THEN denied \cup {"metrics"} ELSE denied
    BY <2>3 DEF Fetched
  <2>8. pc = "fetch" /\ pc' = "evaluate"
    BY <1>9, <2>3 DEF Fetch, Fetched
  <2> QED
    BY <1>0, <2>4, <2>5, <2>6, <2>7, <2>8 DEF Heeded
<1>10. CASE Evaluate
  <2>1. PICK r \in todo : Evaluating(r)
    BY <1>10 DEF Evaluate, EvaluateHot, NotCold, NoCoverage, Cold
  <2>2. summary'.chunk_failures = summary.chunk_failures
    BY <1>0, <2>1 DEF Evaluating, CountEvaluated, RunSummary
  <2> QED
    BY <2>1, <2>2, NothingDenied DEF Evaluating, Ended
<1>11. CASE EvaluationRaises
  <2>1. summary' = RaisedTotals(summary)
    BY <1>11, Zenon DEF EvaluationRaises, RaisedTotals
  <2>2. summary'.chunk_failures = summary.chunk_failures
    BY <1>0, <2>1, RaisedSummary
  <2> QED
    BY <1>11, <2>2, NothingDenied DEF EvaluationRaises, DropType, Ended
<1>12. CASE FinishType
  BY <1>12, NothingDenied DEF FinishType, Ended
<1>13. CASE BeginWrite
  <2>1. summary'.chunk_failures = summary.chunk_failures
    BY <1>0, <1>13 DEF BeginWrite, RunSummary
  <2> QED
    BY <1>13, <2>1, NothingDenied DEF BeginWrite, Ended
<1>14. ASSUME NEW S \in SUBSET rows, UploadPart(S)
       PROVE  Heeded'
  BY <1>14, NothingDenied DEF UploadPart, counts, Ended
<1>15. CASE UploadDone
  <2>1. summary'.chunk_failures = summary.chunk_failures
    BY <1>0, <1>15 DEF UploadDone, RunSummary
  <2> QED
    BY <1>15, <2>1, NothingDenied DEF UploadDone, Ended
<1>16. CASE UploadFails
  <2>1. summary'.chunk_failures = summary.chunk_failures
    BY <1>0, <1>16 DEF UploadFails, RunSummary
  <2> QED
    BY <1>16, <2>1, NothingDenied DEF UploadFails, Ended
<1>17. CASE UploadForbidden
  BY <1>3, <1>17 DEF UploadForbidden, Ended
<1>18. CASE Report
  BY <1>18, NothingDenied DEF Report, counts, Ended
<1>19. CASE Kill
  BY <1>19, NothingDenied DEF Kill, counts
<1>20. CASE UNCHANGED vars
  BY <1>20 DEF vars, counts, Heeded
<1> QED
  BY <1>1, <1>2, <1>4, <1>5, <1>7, <1>8, <1>9, <1>10, <1>11, <1>12, <1>13,
     <1>14, <1>15, <1>16, <1>17, <1>18, <1>19, <1>20
     DEF Next, Progress, Stopped, Upload

\* How a run ended tells what it left in the findings table, and that it had
\* the permissions it needed (_write, PermissionMissing and the end of run).
THEOREM WriteOutcomeHolds == Spec => []WriteOutcome
<1>1. Written /\ Heeded => WriteOutcome
  BY DEF Written, Heeded, WriteOutcome, DenialShown
<1> QED
  BY <1>1, TypedInit, TypedNext, WrittenInit, WrittenNext, HeededInit,
     HeededNext, PTL DEF Spec
-----------------------------------------------------------------------------
(* Refinement.                                                             *)

\* What the stage of a run is, phase by phase.
LEMMA StageOf ==
    /\ pc \in {"start", "list", "fetch", "evaluate", "write"} =>
           Stage = "collecting"
    /\ pc \in {"upload", "report"} => Stage = "delivering"
    /\ pc = "returned" => Stage = "success"
    /\ pc = "killed" => Stage = "lost"
    /\ pc \in {"refused", "forbidden", "write_failed"} => Stage = "failed"
  BY DEF Stage

\* Every step of a run is a step of the contract, or none of its business.
LEMMA ContractNext ==
    Typed /\ Written /\ [Next]_vars => [Contract!Next]_(Contract!vars)
<1> SUFFICES ASSUME Typed, Written, [Next]_vars
             PROVE  Contract!Next \/ UNCHANGED <<Stage, rows, table>>
  BY DEF Contract!vars
<1> USE DEF Contract!Next
<1>0. rows \subseteq Row /\ summary.write_failures \in Nat
  BY DEF Typed, TypeOK, RunSummary
<1>s. pc' \in {"start", "list", "fetch", "evaluate", "write"} =>
          Stage' = "collecting"
  BY DEF Stage
<1>u. pc' \in {"upload", "report"} => Stage' = "delivering"
  BY DEF Stage
<1>f. pc' \in {"refused", "forbidden", "write_failed"} => Stage' = "failed"
  BY DEF Stage
<1>r. pc' = "returned" => Stage' = "success"
  BY DEF Stage
<1>k. pc' = "killed" => Stage' = "lost"
  BY DEF Stage
<1>1. CASE \/ StartRun \/ ListFails \/ List \/ WindowRaises \/ Fetch
           \/ Evaluate \/ EvaluationRaises
  <2>1. /\ pc \in {"start", "list", "fetch", "evaluate"}
        /\ pc' \in {"list", "fetch", "evaluate", "write"}
        /\ UNCHANGED <<rows, table>>
    BY <1>1, AdvanceType
       DEF StartRun, ListFails, List, Listed, WindowRaises, Fetch, Fetched,
           Evaluate, EvaluateHot, NotCold, NoCoverage, Cold, Evaluating,
           EvaluationRaises, DropType, found
  <2> QED
    BY <2>1, <1>s, StageOf
<1>2. CASE FinishType
  <2>1. /\ pc = "evaluate" /\ pc' \in {"list", "write"}
        /\ rows' = rows \cup typeRows /\ table' = table
    BY <1>2, AdvanceType DEF FinishType
  <2>2. rows' \in SUBSET Row
    BY <1>0, <2>1 DEF Typed, TypeOK
  <2>3. Contract!Collect
    BY <2>1, <2>2, <1>s, StageOf DEF Contract!Collect
  <2> QED
    BY <2>3
<1>3. CASE BeginWrite
  <2>1. /\ pc = "write" /\ pc' \in {"upload", "report"}
        /\ UNCHANGED <<rows, table>>
    BY <1>3 DEF BeginWrite, found
  <2>2. Contract!StopCollecting
    BY <2>1, <1>u, StageOf DEF Contract!StopCollecting
  <2> QED
    BY <2>2
<1>4. ASSUME NEW S \in SUBSET rows, UploadPart(S)
      PROVE  Contract!Deliver
  <2>1. /\ pc = "upload" /\ pc' = "upload" /\ rows' = rows
        /\ table' = table \cup S
    BY <1>4 DEF UploadPart
  <2>2. table' \in SUBSET rows
    BY <2>1 DEF Written
  <2> QED
    BY <2>1, <2>2, <1>u, StageOf DEF Contract!Deliver
<1>5. CASE UploadDone \/ UploadFails
  <2>1. /\ pc = "upload" /\ pc' = "report" /\ UNCHANGED <<rows, table>>
    BY <1>5 DEF UploadDone, UploadFails, found
  <2> QED
    BY <2>1, <1>u, StageOf
<1>6. CASE RefuseSettings \/ ListForbidden \/ UploadForbidden
  <2>1. /\ pc \in {"start", "list", "upload"}
        /\ pc' \in {"refused", "forbidden"}
        /\ UNCHANGED <<rows, table>>
    BY <1>6 DEF RefuseSettings, ListForbidden, UploadForbidden, Forbid, found
  <2>2. Contract!Fail
    BY <2>1, <1>f, StageOf DEF Contract!Fail, Contract!Ended
  <2> QED
    BY <2>2
<1>7. CASE Report
  <2>1. pc = "report" /\ UNCHANGED <<rows, table>>
    BY <1>7 DEF Report, found
  <2>2. CASE summary.write_failures > 0
    <3>1. pc' = "write_failed"
      BY <1>7, <2>2 DEF Report
    <3>2. Contract!Fail
      BY <2>1, <3>1, <1>f, StageOf DEF Contract!Fail, Contract!Ended
    <3> QED
      BY <3>2
  <2>3. CASE ~(summary.write_failures > 0)
    <3>1. pc' = "returned"
      BY <1>7, <2>3 DEF Report
    <3>2. table = rows
      BY <1>0, <2>1, <2>3 DEF Written
    <3>3. Contract!Succeed
      BY <2>1, <3>1, <3>2, <1>r, StageOf DEF Contract!Succeed
    <3> QED
      BY <3>3
  <2> QED
    BY <2>2, <2>3
<1>8. CASE Kill
  <2>1. pc \in Phases /\ pc' = "killed" /\ UNCHANGED <<rows, table>>
    BY <1>8 DEF Kill, found, Typed, TypeOK
  <2>2. Contract!Fail
    BY <2>1, <1>k, StageOf DEF Contract!Fail, Contract!Ended, Phases
  <2> QED
    BY <2>2
<1>9. CASE UNCHANGED vars
  BY <1>9 DEF vars, found, Stage
<1> QED
  BY <1>1, <1>2, <1>3, <1>4, <1>5, <1>6, <1>7, <1>8, <1>9
     DEF Next, Progress, Stopped, Upload

\* A run is an implementation of RunContract: findings are collected a whole
\* type at a time, delivered only after the type loop, and a run that returns
\* has delivered all of them.
THEOREM ContractHolds == Spec => ImplementsContract
<1>1. Init => Contract!Init
  BY StageOf DEF Init, Contract!Init
<1> QED
  BY <1>1, TypedInit, TypedNext, WrittenInit, WrittenNext, ContractNext, PTL
     DEF Spec, ImplementsContract, Contract!Spec
-----------------------------------------------------------------------------
(* Findings per type.                                                      *)

\* Type k stands before the i-th in the loop's order.
Passed(k, i) == \A j \in DOMAIN Configured : Configured[j] = k => j < i

\* Whose resources and rows a run holds: those it works on are of the type the
\* loop is at, those it has finished of types the loop has passed.
Placed ==
    /\ pc \notin {"evaluate", "killed"} => typeRows = {}
    /\ pc \in {"fetch", "evaluate"} => \A r \in todo : r.kind = Kind
    /\ pc = "evaluate" => \A w \in typeRows : w.resource.kind = Kind
    /\ \A w \in rows : Passed(w.resource.kind, at)

\* The loop goes on, past the types it had passed and past the one it was at.
LEMMA AdvancePast ==
    ASSUME Typed, Advance
    PROVE  /\ \A k : Passed(k, at) => Passed(k, at')
           /\ \A k : Passed(k, at + 1) => Passed(k, at')
           /\ pc' \in {"list", "write"}
<1>1. /\ NTypes \in Nat /\ at \in Nat
      /\ DOMAIN Configured = 1..NTypes
  BY ConfiguredAssumption DEF NTypes, Typed, TypeOK
<1>2. at' \in Nat /\ at' >= at + 1 /\ pc' \in {"list", "write"}
  BY <1>1 DEF Advance, IsNext
<1> QED
  BY <1>1, <1>2 DEF Passed

\* Each type is configured once.
LEMMA KindPassed ==
    ASSUME Typed, pc \in {"list", "fetch", "evaluate"}
    PROVE  Passed(Kind, at + 1) /\ ~Passed(Kind, at)
<1>1. /\ at \in DOMAIN Configured /\ at \in Nat
      /\ \A j \in DOMAIN Configured : Configured[j] = Kind => j = at
  BY ConfiguredAssumption DEF Typed, TypeOK, AtType, Kind, NTypes
<1> QED
  BY <1>1 DEF Passed, Kind

\* A run starts with no rows.
LEMMA PlacedInit == Init => Placed
  BY DEF Init, Placed

\* Dropping a type leaves only rows of types the loop has passed.
LEMMA PlacedDrop ==
    ASSUME Typed, Placed, DropType
    PROVE  Placed'
<1>1. /\ Advance /\ todo' = {} /\ typeRows' = {} /\ rows' = rows
  BY DEF DropType, found
<1>2. \A w \in rows : Passed(w.resource.kind, at')
  BY <1>1, AdvancePast DEF Placed
<1>3. pc' \in {"list", "write"}
  BY <1>1, AdvancePast
<1> QED
  BY <1>1, <1>2, <1>3 DEF Placed

\* Every step keeps rows and work with their types.
LEMMA PlacedNext == Typed /\ Placed /\ [Next]_vars => Placed'
<1> SUFFICES ASSUME Typed, Placed, [Next]_vars PROVE Placed'
  OBVIOUS
<1>1. CASE StartRun
  <2>1. /\ Advance /\ rows' = rows /\ typeRows' = {}
    BY <1>1 DEF StartRun, found, Placed
  <2>2. /\ \A w \in rows : Passed(w.resource.kind, at')
        /\ pc' \in {"list", "write"}
    BY <2>1, AdvancePast DEF Placed
  <2> QED
    BY <2>1, <2>2 DEF Placed
<1>2. CASE ListFails \/ WindowRaises \/ EvaluationRaises
  BY <1>2, PlacedDrop DEF ListFails, WindowRaises, EvaluationRaises
<1>3. CASE List
  <2>1. PICK S \in SUBSET OfKind(Kind) : Listed(S)
    BY <1>3 DEF List
  <2>2. /\ todo' \subseteq S /\ pc' \in {"fetch", "evaluate"}
        /\ UNCHANGED <<rows, at, typeRows>> /\ typeRows = {}
    BY <1>3, <2>1 DEF List, Listed, Kept, found, Placed
  <2>3. \A r \in todo' : r.kind = Kind
    BY <2>1, <2>2 DEF OfKind
  <2> QED
    BY <2>2, <2>3 DEF Placed, Kind
<1>4. CASE Fetch
  <2>1. /\ todo' \subseteq todo /\ pc' = "evaluate" /\ pc = "fetch"
        /\ UNCHANGED <<rows, at, typeRows>>
    BY <1>4 DEF Fetch, Fetched, Survivors, found
  <2> QED
    BY <2>1 DEF Placed, Kind
<1>5. CASE Evaluate
  <2>1. PICK r \in todo :
           /\ Evaluating(r)
           /\ \/ \E nodata, hot \in SUBSET OpsMetrics[Kind] :
                     EvaluateHot(r, nodata, hot)
              \/ NotCold(r)
              \/ NoCoverage(r)
              \/ \E m \in FinopsMetrics[Kind] : Cold(r, m)
    BY <1>5 DEF Evaluate, EvaluateHot, NotCold, NoCoverage, Cold
  <2>2. /\ todo' \subseteq todo /\ pc = "evaluate" /\ pc' = "evaluate"
        /\ UNCHANGED <<rows, at>> /\ r.kind = Kind
    BY <2>1 DEF Evaluating, found, Placed
  <2>3. \A w \in typeRows' : w \in typeRows \/ w.resource = r
    BY <2>1 DEF EvaluateHot, NotCold, NoCoverage, Cold
  <2> QED
    BY <2>2, <2>3 DEF Placed, Kind
<1>6. CASE FinishType
  <2>1. /\ Advance /\ rows' = rows \cup typeRows /\ typeRows' = {}
        /\ pc = "evaluate"
    BY <1>6 DEF FinishType
  <2>2. \A w \in rows' : Passed(w.resource.kind, at')
    <3>1. \A w \in typeRows : Passed(w.resource.kind, at + 1)
      BY <2>1, KindPassed DEF Placed
    <3> QED
      BY <2>1, <3>1, AdvancePast DEF Placed
  <2>3. pc' \in {"list", "write"}
    BY <2>1, AdvancePast
  <2> QED
    BY <2>1, <2>2, <2>3 DEF Placed
<1>7. CASE Kill
  BY <1>7 DEF Kill, loop, found, Placed
<1>8. CASE RefuseSettings \/ ListForbidden
  BY <1>8 DEF RefuseSettings, ListForbidden, Forbid, loop, found, Placed
<1>9. CASE BeginWrite \/ Upload \/ Report
  BY <1>9 DEF BeginWrite, Upload, UploadPart, UploadDone, UploadFails,
              UploadForbidden, Forbid, Report, loop, found, Placed
<1>10. CASE UNCHANGED vars
  BY <1>10 DEF vars, loop, found, Placed, Kind
<1> QED
  BY <1>1, <1>2, <1>3, <1>4, <1>5, <1>6, <1>7, <1>8, <1>9, <1>10
     DEF Next, Progress, Stopped

\* A run starts with no findings.
LEMMA PerTypeInit == Init => FindingsPerType
  BY FS_EmptySet DEF Init, FindingsPerType

\* Findings are counted when their rows are taken over, all of a type at once.
LEMMA PerTypeNext ==
    Typed /\ Placed /\ FindingsPerType /\ [Next]_vars => FindingsPerType'
<1> SUFFICES ASSUME Typed, Placed, FindingsPerType, [Next]_vars
             PROVE  FindingsPerType'
  OBVIOUS
<1>0. by_type \in [Kinds -> TypeSummary]
  BY DEF Typed, TypeOK
<1>1. ASSUME rows' = rows,
             \A k \in Kinds : by_type'[k].findings = by_type[k].findings
      PROVE  FindingsPerType'
  BY <1>1 DEF FindingsPerType
<1>2. CASE FinishType
  <2>1. /\ pc = "evaluate"
        /\ by_type' = [by_type EXCEPT ![Kind].findings
                                          = Cardinality(typeRows)]
        /\ rows' = rows \cup typeRows
    BY <1>2 DEF FinishType
  <2>2. Kind \in Kinds
    BY <2>1, KindType DEF Typed, AtType, Kind
  <2>3. \A w \in typeRows : w.resource.kind = Kind
    BY <2>1 DEF Placed
  <2>4. \A w \in rows : w.resource.kind # Kind
    BY <2>1, KindPassed DEF Placed
  <2>5. {w \in rows' : w.resource.kind = Kind} = typeRows
    BY <2>1, <2>3, <2>4
  <2>6. by_type'[Kind].findings = Cardinality(typeRows)
    BY <1>0, <2>1, <2>2 DEF TypeSummary
  <2>7. ASSUME NEW k \in Kinds, k # Kind
        PROVE  by_type'[k].findings
                   = Cardinality({w \in rows' : w.resource.kind = k})
    <3>1. {w \in rows' : w.resource.kind = k}
              = {w \in rows : w.resource.kind = k}
      BY <2>1, <2>3, <2>7
    <3>2. by_type'[k] = by_type[k]
      BY <1>0, <2>1, <2>7
    <3> QED
      BY <3>1, <3>2 DEF FindingsPerType
  <2> QED
    BY <2>5, <2>6, <2>7 DEF FindingsPerType
<1>3. CASE List \/ WindowRaises
  <2>1. PICK S, n : CountListed(S, n)
    BY <1>3 DEF List, Listed, WindowRaises
  <2>2. \A k \in Kinds : by_type'[k].findings = by_type[k].findings
    BY <1>0, <2>1 DEF CountListed, TypeSummary
  <2>3. rows' = rows
    BY <1>3 DEF List, Listed, WindowRaises, DropType, found
  <2> QED
    BY <1>1, <2>2, <2>3
<1>4. CASE Fetch
  <2>1. \A k \in Kinds : by_type'[k].findings = by_type[k].findings
    BY <1>0, <1>4 DEF Fetch, Fetched, TypeSummary
  <2>2. rows' = rows
    BY <1>4 DEF Fetch, Fetched, found
  <2> QED
    BY <1>1, <2>1, <2>2
<1>5. CASE Evaluate
  <2>1. PICK r \in todo : Evaluating(r)
    BY <1>5 DEF Evaluate, EvaluateHot, NotCold, NoCoverage, Cold
  <2>2. \A k \in Kinds : by_type'[k].findings = by_type[k].findings
    BY <1>0, <2>1 DEF Evaluating, CountEvaluated, TypeSummary
  <2>3. rows' = rows
    BY <2>1 DEF Evaluating, found
  <2> QED
    BY <1>1, <2>2, <2>3
<1>6. CASE EvaluationRaises
  <2>1. \A k \in Kinds : by_type'[k].findings = by_type[k].findings
    BY <1>0, <1>6 DEF EvaluationRaises, TypeSummary
  <2>2. rows' = rows
    BY <1>6 DEF EvaluationRaises, DropType, found
  <2> QED
    BY <1>1, <2>1, <2>2
<1>7. CASE ListFails
  BY <1>1, <1>7 DEF ListFails, DropType, found
<1>8. CASE StartRun \/ RefuseSettings \/ ListForbidden \/ Kill
  BY <1>1, <1>8 DEF StartRun, RefuseSettings, ListForbidden, Forbid, Kill,
                    found, counts
<1>9. CASE BeginWrite \/ Upload \/ Report
  BY <1>1, <1>9 DEF BeginWrite, Upload, UploadPart, UploadDone, UploadFails,
                    UploadForbidden, Forbid, Report, found, counts
<1>10. CASE UNCHANGED vars
  BY <1>1, <1>10 DEF vars, found, counts
<1> QED
  BY <1>2, <1>3, <1>4, <1>5, <1>6, <1>7, <1>8, <1>9, <1>10
     DEF Next, Progress, Stopped

\* A type contributes all the findings it counted or none, whatever raises
\* and wherever the run is stopped (run's `except Exception` and _run_type's
\* last line).
THEOREM TypesWhole == Spec => []FindingsPerType
  BY TypedInit, TypedNext, PlacedInit, PlacedNext, PerTypeInit, PerTypeNext,
     PTL DEF Spec
-----------------------------------------------------------------------------
(* Counters, log lines and rows.                                           *)

\* The three parts of CountedOnce, of any counters, lines and rows.
Honest(counters, lines) ==
    \A x \in Reasons :
        counters[x] = Cardinality({l \in lines : l.reason = x})

Single(lines) ==
    \A l, m \in lines :
        /\ l.resource = m.resource
        /\ "no_ops_data" \notin {l.reason, m.reason}
        => l = m

Unreported(lines, reported) ==
    \A l \in lines, w \in reported :
        l.resource = w.resource =>
            l.reason = "no_ops_data" /\ l.metric # w.metric

\* Resources no line or row is about yet: those of the types to come, and of
\* the type the loop is at those it still works on.
Logged ==
    /\ \A l \in skipLog : Passed(l.resource.kind, at + 1)
    /\ pc = "list" => \A l \in skipLog : Passed(l.resource.kind, at)
    /\ pc \in {"fetch", "evaluate"} =>
           \A l \in skipLog : l.resource \notin todo
    /\ pc = "evaluate" => \A w \in typeRows : w.resource \notin todo

\* Every set of log lines can be counted.
LEMMA LogSets ==
    \A L \in SUBSET LogLine : IsFiniteSet(L) /\ Cardinality(L) \in Nat
<1> DEFINE Names == Metrics \cup {""}
           Pairs == Resources \X Names
           Triples == Reasons \X Pairs
           f == [p \in Triples |-> [reason |-> p[1], resource |-> p[2][1],
                                    metric |-> p[2][2]]]
<1>1. IsFiniteSet(Reasons)
  <2>1. \A S, x : IsFiniteSet(S) => IsFiniteSet(S \cup {x})
    BY FS_AddElement
  <2>2. IsFiniteSet((({} \cup {"ignored_rg"}) \cup {"excluded_by_tag"})
                        \cup {"inactive"})
    BY <2>1, FS_EmptySet, Zenon
  <2>3. IsFiniteSet(FilterReasons)
    BY <2>2 DEF FilterReasons
  <2>4. IsFiniteSet((((FilterReasons \cup {"unsizeable"})
                          \cup {"chunk_failed"}) \cup {"no_ops_data"})
                        \cup {"insufficient_finops_data"})
    BY <2>1, <2>3, Zenon
  <2>5. Reasons = (((FilterReasons \cup {"unsizeable"})
                        \cup {"chunk_failed"}) \cup {"no_ops_data"})
                      \cup {"insufficient_finops_data"}
    BY DEF Reasons
  <2> QED
    BY <2>4, <2>5
<1>2. IsFiniteSet(Names)
  BY MetricsAssumption, FS_AddElement
<1>3. IsFiniteSet(Triples)
  BY <1>1, <1>2, FS_Product, ResourcesAssumption
<1>4. f \in Surjection(Triples, LogLine)
  <2>1. f \in [Triples -> LogLine]
    BY DEF LogLine
  <2>2. ASSUME NEW l \in LogLine
        PROVE  \E p \in Triples : f[p] = l
    <3>1. <<l.reason, <<l.resource, l.metric>>>> \in Triples
      BY DEF LogLine
    <3>2. f[<<l.reason, <<l.resource, l.metric>>>>] = l
      BY <3>1 DEF LogLine
    <3> QED
      BY <3>1, <3>2
  <2> QED
    BY <2>1, <2>2 DEF Surjection
<1>5. IsFiniteSet(LogLine)
  BY <1>3, <1>4, FS_Surjection
<1> TAKE L \in SUBSET LogLine
<1>6. IsFiniteSet(L)
  BY <1>5, FS_Subset
<1> QED
  BY <1>6, FS_CardinalityType

\* Two disjoint sets of lines are counted separately.
LEMMA LinesDisjoint ==
    ASSUME NEW L \in SUBSET LogLine, NEW M \in SUBSET LogLine, L \cap M = {}
    PROVE  Cardinality(L \cup M) = Cardinality(L) + Cardinality(M)
<1>1. IsFiniteSet(L) /\ IsFiniteSet(M)
  BY LogSets
<1>2. Cardinality(L \cup M)
          = Cardinality(L) + Cardinality(M) - Cardinality(L \cap M)
  BY <1>1, FS_Union
<1>3. Cardinality(L) \in Nat /\ Cardinality(M) \in Nat
  BY LogSets
<1>4. Cardinality(L \cap M) = 0
  BY FS_EmptySet
<1> QED
  BY <1>2, <1>3, <1>4

\* A line names its reason and its resource.
LEMMA LineOf ==
    ASSUME NEW x, NEW A, NEW l \in Lines(x, A)
    PROVE  /\ l.reason = x /\ l.resource \in A
           /\ l = [reason |-> x, resource |-> l.resource, metric |-> ""]
<1>1. PICK r \in A : l = [reason |-> x, resource |-> r, metric |-> ""]
  BY Zenon DEF Lines
<1> QED
  BY <1>1

\* A reason has as many lines as resources.
LEMMA LinesCount ==
    ASSUME NEW x \in Reasons, NEW A \in SUBSET Resources
    PROVE  Cardinality(Lines(x, A)) = Cardinality(A)
<1> DEFINE f == [r \in A |-> [reason |-> x, resource |-> r, metric |-> ""]]
<1>1. f \in Bijection(A, Lines(x, A))
  <2>0. f \in [A -> Lines(x, A)]
    BY DEF Lines
  <2>1. f \in Surjection(A, Lines(x, A))
    <3>1. ASSUME NEW l \in Lines(x, A)
          PROVE  \E r \in A : f[r] = l
      BY Zenon DEF Lines
    <3> QED
      BY <2>0, <3>1 DEF Surjection
  <2>2. f \in Injection(A, Lines(x, A))
    <3>1. ASSUME NEW r \in A, NEW s \in A, f[r] = f[s]
          PROVE  r = s
      <4>1. f[r].resource = r /\ f[s].resource = s
        OBVIOUS
      <4> QED
        BY <3>1, <4>1, Zenon
    <3> QED
      BY <2>0, <3>1 DEF Injection, IsInjective
  <2> QED
    BY <2>1, <2>2 DEF Bijection
<1>2. IsFiniteSet(A)
  BY ResourceSets
<1> QED
  BY <1>1, <1>2, FS_Bijection DEF ExistsBijection

\* A set of new lines of one reason, counted by adding their number.
LEMMA CountNew ==
    ASSUME NEW counters \in [Reasons -> Nat], NEW lines \in SUBSET LogLine,
           NEW new \in SUBSET LogLine, NEW x \in Reasons,
           Honest(counters, lines),
           \A l \in new : l.reason = x,
           lines \cap new = {}
    PROVE  LET after == [counters EXCEPT ![x] = @ + Cardinality(new)]
           IN  after \in [Reasons -> Nat] /\ Honest(after, lines \cup new)
<1> DEFINE n == Cardinality(new)
           after == [counters EXCEPT ![x] = @ + n]
           Of(y, L) == {l \in L : l.reason = y}
<1>1. n \in Nat
  BY LogSets
<1> HIDE DEF n
<1>2. after \in [Reasons -> Nat]
  BY <1>1
<1>3. ASSUME NEW y \in Reasons
      PROVE  after[y] = Cardinality(Of(y, lines \cup new))
  <2>1. CASE y = x
    <3>1. Of(y, lines \cup new) = Of(y, lines) \cup new
      BY <2>1
    <3>2. Cardinality(Of(y, lines) \cup new) = Cardinality(Of(y, lines)) + n
      BY LinesDisjoint DEF n
    <3>3. after[y] = counters[y] + n
      BY <2>1
    <3> QED
      BY <3>1, <3>2, <3>3 DEF Honest
  <2>2. CASE y # x
    <3>1. Of(y, lines \cup new) = Of(y, lines)
      BY <2>2
    <3>2. after[y] = counters[y]
      BY <2>2
    <3> QED
      BY <3>1, <3>2 DEF Honest
  <2> QED
    BY <2>1, <2>2
<1> QED
  BY <1>2, <1>3 DEF Honest, n

\* _log_skip of resources that have no line yet.
LEMMA SkipAll ==
    ASSUME NEW counters \in [Reasons -> Nat], NEW lines \in SUBSET LogLine,
           NEW x \in Reasons, NEW A \in SUBSET Resources,
           Honest(counters, lines), Single(lines),
           \A l \in lines : l.resource \notin A
    PROVE  LET after == [counters EXCEPT ![x] = @ + Cardinality(A)]
               all   == lines \cup Lines(x, A)
           IN  /\ after \in [Reasons -> Nat] /\ all \in SUBSET LogLine
               /\ Honest(after, all) /\ Single(all)
<1>1. Lines(x, A) \in SUBSET LogLine
  BY LinesType
<1>2. Cardinality(Lines(x, A)) = Cardinality(A)
  BY LinesCount
<1>3. \A l \in Lines(x, A) :
          /\ l.reason = x /\ l.resource \in A
          /\ l = [reason |-> x, resource |-> l.resource, metric |-> ""]
  BY LineOf
<1>4. lines \cap Lines(x, A) = {}
  BY <1>3
<1>5. LET after == [counters EXCEPT ![x] = @ + Cardinality(Lines(x, A))]
      IN  /\ after \in [Reasons -> Nat]
          /\ Honest(after, lines \cup Lines(x, A))
  BY <1>1, <1>3, <1>4, CountNew
<1>6. \A l, m \in Lines(x, A) : l.resource = m.resource => l = m
  BY <1>3, Zenon
<1>7. Single(lines \cup Lines(x, A))
  BY <1>3, <1>6 DEF Single
<1> QED
  BY <1>1, <1>2, <1>5, <1>7

\* What is kept goes on, each other resource gets its line, and nothing listed
\* had one before.
LEMMA ListedOnce ==
    ASSUME Typed, Placed, Logged, CountedOnce, pc = "list",
           NEW S \in SUBSET OfKind(Kind), NEW n, CountListed(S, n),
           rows' = rows, typeRows' = {}
    PROVE  /\ CountedOnce'
           /\ \A l \in skipLog' :
                  \/ l \in skipLog
                  \/ /\ l.resource \in S
                     /\ l.resource \notin Kept(S) \ Unsizeable(Kept(S))
<1> DEFINE A == InIgnoredRg(S)
           B == ExcludedByTag(S)
           C == Inactive(S)
           D == Unsizeable(Kept(S))
           E == Kept(S) \ D
           c1 == [skips EXCEPT !["ignored_rg"] = @ + Cardinality(A)]
           c2 == [c1 EXCEPT !["excluded_by_tag"] = @ + Cardinality(B)]
           c3 == [c2 EXCEPT !["inactive"] = @ + Cardinality(C)]
           c4 == [c3 EXCEPT !["unsizeable"] = @ + Cardinality(D)]
           l1 == skipLog \cup Lines("ignored_rg", A)
           l2 == l1 \cup Lines("excluded_by_tag", B)
           l3 == l2 \cup Lines("inactive", C)
           l4 == l3 \cup Lines("unsizeable", D)
<1>1. /\ A \subseteq S /\ B \subseteq S \ A /\ C \subseteq S \ (A \cup B)
      /\ D \subseteq S \ (A \cup B \cup C)
      /\ E \cap (A \cup B \cup C \cup D) = {}
      /\ S \subseteq Resources /\ \A r \in S : r.kind = Kind
  BY DEF InIgnoredRg, ExcludedByTag, Inactive, Kept, Unsizeable, OfKind
<1>2. \A l \in skipLog : l.resource \notin S
  BY <1>1, KindPassed DEF Logged
<1>3. /\ skips \in [Reasons -> Nat] /\ skipLog \in SUBSET LogLine
      /\ Honest(skips, skipLog) /\ Single(skipLog)
  BY DEF Typed, TypeOK, CountedOnce, Honest, Single
<1>4. /\ \A x \in Reasons : skips'[x] = c4[x]
      /\ skipLog' = l4
  <2>1. skipLog' = l4
    BY Zenon DEF CountListed
  <2>2. skips' = [skips EXCEPT
             !["ignored_rg"]      = @ + Cardinality(A),
             !["excluded_by_tag"] = @ + Cardinality(B),
             !["inactive"]        = @ + Cardinality(C),
             !["unsizeable"]      = @ + Cardinality(D)]
    BY DEF CountListed
  <2> HIDE DEF A, B, C, D, l4
  <2>3. \A x \in Reasons : skips'[x] = c4[x]
    BY <1>3, <2>2 DEF Reasons, FilterReasons
  <2> QED
    BY <2>1, <2>3
<1>5. {"ignored_rg", "excluded_by_tag", "inactive", "unsizeable"}
          \subseteq Reasons
  BY DEF Reasons, FilterReasons
<1> HIDE DEF A, B, C, D, E
<1>6. /\ c1 \in [Reasons -> Nat] /\ l1 \in SUBSET LogLine
      /\ Honest(c1, l1) /\ Single(l1)
  <2>1. A \in SUBSET Resources /\ \A l \in skipLog : l.resource \notin A
    BY <1>1, <1>2
  <2> QED
    BY <1>3, <1>5, <2>1, SkipAll
<1>7. \A l \in l1 : l \in skipLog \/ l.resource \in A
  BY LineOf
<1> HIDE DEF c1, l1
<1>8. /\ c2 \in [Reasons -> Nat] /\ l2 \in SUBSET LogLine
      /\ Honest(c2, l2) /\ Single(l2)
  <2>1. B \in SUBSET Resources /\ \A l \in l1 : l.resource \notin B
    BY <1>1, <1>2, <1>7
  <2> QED
    BY <1>5, <1>6, <2>1, SkipAll
<1>9. \A l \in l2 : l \in skipLog \/ l.resource \in A \cup B
  BY <1>7, LineOf
<1> HIDE DEF c2, l2
<1>10. /\ c3 \in [Reasons -> Nat] /\ l3 \in SUBSET LogLine
       /\ Honest(c3, l3) /\ Single(l3)
  <2>1. C \in SUBSET Resources /\ \A l \in l2 : l.resource \notin C
    BY <1>1, <1>2, <1>9
  <2> QED
    BY <1>5, <1>8, <2>1, SkipAll
<1>11. \A l \in l3 : l \in skipLog \/ l.resource \in A \cup B \cup C
  BY <1>9, LineOf
<1> HIDE DEF c3, l3
<1>12. Honest(c4, l4) /\ Single(l4)
  <2>1. D \in SUBSET Resources /\ \A l \in l3 : l.resource \notin D
    BY <1>1, <1>2, <1>11
  <2> QED
    BY <1>5, <1>10, <2>1, SkipAll
<1>13. \A l \in l4 : l \in skipLog \/ l.resource \in A \cup B \cup C \cup D
  BY <1>11, LineOf
<1> HIDE DEF c4, l4
<1>14. Unreported(skipLog', rows' \cup typeRows')
  <2>1. \A l \in l4 : l \in skipLog \/ l.resource \in S
    BY <1>1, <1>13
  <2>2. \A w \in rows : w.resource \notin S
    BY <1>1, KindPassed DEF Placed
  <2> QED
    BY <1>4, <2>1, <2>2 DEF Unreported, CountedOnce
<1>15. CountedOnce'
  BY <1>4, <1>12, <1>14 DEF CountedOnce, Honest, Single, Unreported
<1>16. \A l \in l4 :
           \/ l \in skipLog
           \/ l.resource \in S /\ l.resource \notin E
  BY <1>1, <1>13
<1> QED
  BY <1>4, <1>15, <1>16 DEF E, D

\* A resource whose evaluation begins has no line and no row.
LEMMA Unseen ==
    ASSUME Typed, Placed, Logged, NEW r \in todo, pc \in {"fetch", "evaluate"}
    PROVE  /\ \A l \in skipLog : l.resource # r
           /\ \A w \in rows \cup typeRows : w.resource # r
           /\ r.kind = Kind /\ Passed(r.kind, at + 1)
<1>1. r.kind = Kind /\ Passed(Kind, at + 1) /\ ~Passed(Kind, at)
  BY KindPassed DEF Placed
<1>2. \A w \in rows : w.resource # r
  BY <1>1 DEF Placed
<1>3. \A w \in typeRows : w.resource # r
  BY DEF Placed, Logged
<1> QED
  BY <1>1, <1>2, <1>3 DEF Logged

\* A run starts without lines.
LEMMA LoggedInit == Init => Logged /\ CountedOnce
  BY FS_EmptySet DEF Init, Logged, CountedOnce

\* Lines stay about types the loop has reached.
LEMMA LoggedAdvance ==
    ASSUME Typed, Advance,
           \A l \in skipLog' : Passed(l.resource.kind, at + 1)
    PROVE  Logged'
<1>1. \A l \in skipLog' : Passed(l.resource.kind, at')
  BY AdvancePast
<1>2. at' \in Nat
  BY ConfiguredAssumption DEF Advance, NTypes
<1>3. \A l \in skipLog' : Passed(l.resource.kind, at' + 1)
  <2> SUFFICES ASSUME NEW l \in skipLog', NEW j \in DOMAIN Configured,
                      Configured[j] = l.resource.kind
               PROVE  j < at' + 1
    BY DEF Passed
  <2>1. j < at' /\ j \in Nat
    BY <1>1, ConfiguredAssumption DEF Passed
  <2> QED
    BY <1>2, <2>1
<1> QED
  BY <1>1, <1>3, AdvancePast DEF Logged

\* Every step counts what it logs, once, and reports nothing it dropped.
LEMMA CountedNext ==
    /\ Typed /\ Placed /\ Logged /\ CountedOnce /\ [Next]_vars
    => Logged' /\ CountedOnce'
<1> SUFFICES ASSUME Typed, Placed, Logged, CountedOnce, [Next]_vars
             PROVE  Logged' /\ CountedOnce'
  OBVIOUS
<1>0. /\ skips \in [Reasons -> Nat] /\ skipLog \in SUBSET LogLine
      /\ Honest(skips, skipLog) /\ Single(skipLog)
      /\ Unreported(skipLog, rows \cup typeRows)
  BY DEF Typed, TypeOK, CountedOnce, Honest, Single, Unreported
<1>f. ASSUME Honest(skips', skipLog'), Single(skipLog'),
             Unreported(skipLog', rows' \cup typeRows')
      PROVE  CountedOnce'
  BY <1>f DEF CountedOnce, Honest, Single, Unreported
<1>1. ASSUME UNCHANGED <<skips, skipLog>>,
             rows' \cup typeRows' \subseteq rows \cup typeRows
      PROVE  CountedOnce'
  BY <1>0, <1>1, <1>f DEF Unreported
<1>2. CASE StartRun
  <2>1. /\ UNCHANGED <<skips, skipLog, rows, typeRows>> /\ Advance
    BY <1>2 DEF StartRun, found, counts
  <2> QED
    BY <1>1, <2>1, LoggedAdvance DEF Logged
<1>3. CASE ListFails \/ EvaluationRaises \/ FinishType
  <2>1. /\ UNCHANGED <<skips, skipLog>> /\ Advance
        /\ rows' \cup typeRows' \subseteq rows \cup typeRows
    BY <1>3 DEF ListFails, EvaluationRaises, FinishType, DropType, found
  <2> QED
    BY <1>1, <2>1, LoggedAdvance DEF Logged
<1>4. CASE List
  <2>1. PICK S \in SUBSET OfKind(Kind) : Listed(S)
    BY <1>4 DEF List
  <2>2. /\ pc = "list" /\ CountListed(S, 0) /\ rows' = rows /\ typeRows' = {}
        /\ todo' = Kept(S) \ Unsizeable(Kept(S))
        /\ pc' \in {"fetch", "evaluate"} /\ at' = at
    BY <1>4, <2>1 DEF List, Listed, found, Placed
  <2>3. /\ CountedOnce'
        /\ \A l \in skipLog' :
               \/ l \in skipLog
               \/ l.resource \in S /\ l.resource \notin todo'
    BY <2>2, ListedOnce
  <2>4. todo' \subseteq S /\ \A r \in S : r.kind = Kind
    BY <2>2 DEF Kept, OfKind
  <2>5. \A l \in skipLog : l.resource \notin S
    BY <2>2, <2>4, KindPassed DEF Logged
  <2>6. \A l \in skipLog' : Passed(l.resource.kind, at + 1)
    BY <2>2, <2>3, <2>4, KindPassed DEF Logged
  <2> QED
    BY <2>2, <2>3, <2>4, <2>5, <2>6 DEF Logged
<1>5. CASE WindowRaises
  <2>1. PICK S \in SUBSET OfKind(Kind) : CountListed(S, 1)
    BY <1>5 DEF WindowRaises
  <2>2. /\ pc = "list" /\ rows' = rows /\ typeRows' = {} /\ Advance
    BY <1>5 DEF WindowRaises, DropType, found
  <2>3. /\ CountedOnce'
        /\ \A l \in skipLog' : l \in skipLog \/ l.resource \in S
    BY <2>1, <2>2, ListedOnce
  <2>4. \A r \in S : r.kind = Kind
    BY DEF OfKind
  <2>5. \A l \in skipLog' : Passed(l.resource.kind, at + 1)
    BY <2>2, <2>3, <2>4, KindPassed DEF Logged
  <2> QED
    BY <2>2, <2>3, <2>5, LoggedAdvance
<1>6. CASE Fetch
  <2>1. PICK batches \in Batchings(todo, BatchSize) :
             \E failed \in SUBSET batches :
                 \E forbidden \in BOOLEAN : Fetched(failed, forbidden)
    BY <1>6 DEF Fetch
  <2>2. PICK failed \in SUBSET batches :
             \E forbidden \in BOOLEAN : Fetched(failed, forbidden)
    BY <2>1
  <2> DEFINE lost == UNION failed
  <2>3. /\ lost \subseteq todo /\ pc = "fetch"
    BY <1>6, <2>1 DEF Batchings, Fetch
  <2>4. /\ skips' = [skips EXCEPT !["chunk_failed"] = @ + Cardinality(lost)]
        /\ skipLog' = skipLog \cup Lines("chunk_failed", lost)
        /\ todo' = todo \ lost
        /\ pc' = "evaluate" /\ UNCHANGED <<rows, typeRows, at>>
    BY <2>2 DEF Fetched, Survivors, found
  <2> HIDE DEF lost
  <2>5. Honest(skips', skipLog') /\ Single(skipLog')
    <3>1. /\ lost \in SUBSET Resources /\ "chunk_failed" \in Reasons
          /\ \A l \in skipLog : l.resource \notin lost
      BY <2>3 DEF Typed, TypeOK, Reasons, Logged
    <3> QED
      BY <1>0, <2>4, <3>1, SkipAll
  <2>6. \A l \in skipLog' : l \in skipLog \/ l.resource \in lost
    BY <2>4, LineOf
  <2>7. \A w \in rows \cup typeRows : w.resource \notin lost
    BY <2>3, Unseen
  <2>8. Unreported(skipLog', rows' \cup typeRows')
    BY <1>0, <2>4, <2>6, <2>7 DEF Unreported
  <2>9. \A l \in skipLog' : Passed(l.resource.kind, at + 1)
    BY <2>3, <2>6, Unseen DEF Logged
  <2>10. Logged'
    BY <2>3, <2>4, <2>6, <2>9 DEF Logged, Placed
  <2> QED
    BY <1>f, <2>5, <2>8, <2>10
<1>7. CASE Evaluate
  <2>1. PICK r \in todo :
           \/ \E nodata, hot \in SUBSET OpsMetrics[Kind] :
                  nodata \cap hot = {} /\ EvaluateHot(r, nodata, hot)
           \/ NotCold(r)
           \/ NoCoverage(r)
           \/ \E m \in FinopsMetrics[Kind] : Cold(r, m)
    BY <1>7 DEF Evaluate
  <2>2. /\ Evaluating(r) /\ pc = "evaluate" /\ pc' = "evaluate"
        /\ todo' = todo \ {r} /\ UNCHANGED <<rows, at>>
        /\ r \in Resources
    BY <2>1 DEF EvaluateHot, NotCold, NoCoverage, Cold, Evaluating, found,
                Typed, TypeOK
  <2>3. /\ \A l \in skipLog : l.resource # r
        /\ \A w \in rows \cup typeRows : w.resource # r
        /\ Passed(r.kind, at + 1)
    BY <2>2, Unseen
  <2>4. ASSUME \A l \in skipLog' : l \in skipLog \/ l.resource = r,
               \A w \in typeRows' : w \in typeRows \/ w.resource = r
        PROVE  Logged'
    BY <2>2, <2>3, <2>4 DEF Logged
  <2>5. ASSUME NEW nodata \in SUBSET OpsMetrics[Kind],
               NEW hot \in SUBSET OpsMetrics[Kind],
               nodata \cap hot = {}, EvaluateHot(r, nodata, hot)
        PROVE  Logged' /\ CountedOnce'
    <3> DEFINE line == [m \in nodata |-> [reason |-> "no_ops_data",
                                          resource |-> r, metric |-> m]]
               new == {line[m] : m \in nodata}
    <3>1. /\ skips' = [skips EXCEPT !["no_ops_data"] = @ + Cardinality(nodata)]
          /\ skipLog' = skipLog \cup new
          /\ typeRows' = typeRows \cup {[resource |-> r, metric |-> m] :
                                           m \in hot}
      BY <2>5 DEF EvaluateHot
    <3>2. Kind \in Kinds
      BY <2>2, KindType DEF Typed, AtType, Kind
    <3>3. nodata \in SUBSET Metrics
      BY <3>2 DEF Metrics
    <3>4. ASSUME NEW l \in new
          PROVE  /\ l \in LogLine /\ l.reason = "no_ops_data"
                 /\ l.resource = r /\ l.metric \in nodata
      <4>1. PICK m \in nodata : l = [reason |-> "no_ops_data",
                                     resource |-> r, metric |-> m]
        OBVIOUS
      <4>2. m \in Metrics \cup {""} /\ "no_ops_data" \in Reasons
        BY <3>3 DEF Reasons
      <4> QED
        BY <2>2, <4>1, <4>2 DEF LogLine
    <3>5. Cardinality(new) = Cardinality(nodata)
      <4>1. line \in Bijection(nodata, new)
        <5>1. ASSUME NEW m \in nodata, NEW k \in nodata, line[m] = line[k]
              PROVE  m = k
          <6>1. line[m].metric = m /\ line[k].metric = k
            OBVIOUS
          <6> QED
            BY <5>1, <6>1, Zenon
        <5>2. line \in [nodata -> new]
          OBVIOUS
        <5>3. \A l \in new : \E m \in nodata : line[m] = l
          OBVIOUS
        <5> HIDE DEF line, new
        <5> QED
          BY <5>1, <5>2, <5>3 DEF Bijection, Injection, Surjection,
                                  IsInjective
      <4>2. IsFiniteSet(nodata)
        BY <3>3, MetricsAssumption, FS_Subset
      <4> HIDE DEF line, new
      <4> QED
        BY <4>1, <4>2, FS_Bijection DEF ExistsBijection
    <3> HIDE DEF line, new
    <3>6. Honest(skips', skipLog')
      <4>1. /\ new \in SUBSET LogLine /\ skipLog \cap new = {}
            /\ "no_ops_data" \in Reasons
        BY <2>3, <3>4 DEF Reasons
      <4> QED
        BY <1>0, <3>1, <3>4, <3>5, <4>1, CountNew
    <3>7. Single(skipLog')
      BY <1>0, <3>1, <3>4 DEF Single
    <3>8. ASSUME NEW w \in typeRows'
          PROVE  \/ w \in typeRows
                 \/ w.resource = r /\ w.metric \in hot
      BY <3>1
    <3>9. Unreported(skipLog', rows' \cup typeRows')
      BY <1>0, <2>2, <2>3, <2>5, <3>1, <3>4, <3>8 DEF Unreported
    <3>10. Logged'
      BY <2>4, <3>1, <3>4, <3>8
    <3> QED
      BY <1>f, <3>6, <3>7, <3>9, <3>10
  <2>6. CASE NotCold(r)
    <3>1. UNCHANGED <<skips, skipLog, typeRows>>
      BY <2>6 DEF NotCold
    <3> QED
      BY <1>1, <2>2, <2>4, <3>1
  <2>7. CASE NoCoverage(r)
    <3>1. /\ skips' = [skips EXCEPT !["insufficient_finops_data"] = @ + 1]
          /\ skipLog' = skipLog \cup Lines("insufficient_finops_data", {r})
          /\ typeRows' = typeRows
      BY <2>7 DEF NoCoverage
    <3>2. Cardinality({r}) = 1
      BY FS_Singleton
    <3>3. Honest(skips', skipLog') /\ Single(skipLog')
      <4>1. /\ {r} \in SUBSET Resources
            /\ "insufficient_finops_data" \in Reasons
            /\ \A l \in skipLog : l.resource \notin {r}
        BY <2>2, <2>3 DEF Reasons
      <4> QED
        BY <1>0, <3>1, <3>2, <4>1, SkipAll
    <3>4. \A l \in skipLog' : l \in skipLog \/ l.resource = r
      BY <3>1, LineOf
    <3>5. Unreported(skipLog', rows' \cup typeRows')
      BY <1>0, <2>2, <2>3, <3>1, <3>4 DEF Unreported
    <3>6. Logged'
      BY <2>4, <3>1, <3>4
    <3> QED
      BY <1>f, <3>3, <3>5, <3>6
  <2>8. ASSUME NEW m \in FinopsMetrics[Kind], Cold(r, m)
        PROVE  Logged' /\ CountedOnce'
    <3>1. /\ UNCHANGED <<skips, skipLog>>
          /\ \A w \in typeRows' : w \in typeRows \/ w.resource = r
      BY <2>8 DEF Cold
    <3>2. Unreported(skipLog', rows' \cup typeRows')
      BY <1>0, <2>2, <2>3, <3>1 DEF Unreported
    <3>3. Logged'
      BY <2>4, <3>1
    <3> QED
      BY <1>0, <1>f, <3>1, <3>2, <3>3
  <2> QED
    BY <2>1, <2>5, <2>6, <2>7, <2>8
<1>8. CASE RefuseSettings \/ ListForbidden \/ Kill
  <2>1. /\ UNCHANGED <<skips, skipLog, rows, typeRows, at>> /\ pc' \in Ended
    BY <1>8 DEF RefuseSettings, ListForbidden, Forbid, Kill, loop, found,
                counts, Ended
  <2> QED
    BY <1>1, <2>1 DEF Logged, Ended
<1>9. CASE BeginWrite \/ Upload \/ Report
  <2>1. /\ UNCHANGED <<skips, skipLog, rows, typeRows, at>>
        /\ pc' \in Ended \cup {"upload", "report"}
    BY <1>9 DEF BeginWrite, Upload, UploadPart, UploadDone, UploadFails,
                UploadForbidden, Forbid, Report, loop, found, counts, Ended
  <2> QED
    BY <1>1, <2>1 DEF Logged, Ended
<1>10. CASE UNCHANGED vars
  BY <1>1, <1>10 DEF vars, loop, found, counts, Logged
<1> QED
  BY <1>2, <1>3, <1>4, <1>5, <1>6, <1>7, <1>8, <1>9, <1>10
     DEF Next, Progress, Stopped

\* The counters agree with the "skipped resource" lines, no resource is
\* dropped twice, and nothing dropped is reported: filter_resources, _run_type
\* and _log_skip keep them together over any types and any failures.
THEOREM DropsCountedOnce == Spec => []CountedOnce
  BY TypedInit, TypedNext, PlacedInit, PlacedNext, LoggedInit, CountedNext,
     PTL DEF Spec
-----------------------------------------------------------------------------
(* How a run ends.  That it does (Termination) is liveness and left to     *)
(* TLC; what it rests on is proved: a run that has not ended has a next    *)
(* step, and each step brings the end nearer.                              *)

PhasesLeft(p) ==
    CASE p = "start"    -> 7
      [] p = "list"     -> 6
      [] p = "fetch"    -> 5
      [] p = "evaluate" -> 4
      [] p = "write"    -> 3
      [] p = "upload"   -> 2
      [] p = "report"   -> 1
      [] OTHER          -> 0

\* Resources to evaluate and rows to write.
Left == Cardinality(todo) + Cardinality(rows \ table)

\* A later type, or a later phase of the type, or less left in the phase.
OneFurther ==
    \/ at < at' /\ at' <= NTypes + 1
    \/ at' = at /\ PhasesLeft(pc') < PhasesLeft(pc)
    \/ at' = at /\ pc' = pc /\ Left' < Left

RunAdvances == [][OneFurther]_vars

SomeNext == \E n \in 1..(NTypes + 1) : IsNext(at, n)

\* The parts of Progress' guards that could fail: the type loop has a next
\* stop, and what is listed, fetched or evaluated has a type.  That what is to
\* be fetched can be cut is shown in Resources_proofs (CutExists).
NeverBlocked ==
    /\ pc = "start" => SomeNext
    /\ pc \in {"list", "fetch", "evaluate"} =>
           at \in DOMAIN Configured /\ SomeNext

\* A set of naturals that is not empty has a least element.
LEMMA LeastNatural ==
    ASSUME NEW S \in SUBSET Nat, S # {}
    PROVE  \E m \in S : \A n \in S : m <= n
<1>1. PICK m \in S : \A n \in S : <<n, m>> \notin OpToRel(<, Nat)
  BY NatLessThanWellFounded, WFMin
<1>2. \A n \in S : ~(n < m)
  BY <1>1 DEF OpToRel
<1> QED
  BY <1>2

\* After any type there is a next enabled one, or the end of the loop.
LEMMA NextExists ==
    ASSUME at \in 0..NTypes
    PROVE  SomeNext
<1> DEFINE stops == {n \in (at + 1)..(NTypes + 1) :
                        n <= NTypes => Enabled(Configured[n])}
<1>0. NTypes \in Nat /\ at \in Nat /\ at <= NTypes
  BY ConfiguredAssumption DEF NTypes
<1>1. stops \in SUBSET Nat /\ NTypes + 1 \in stops
  BY <1>0
<1>2. PICK n \in stops : \A m \in stops : n <= m
  BY <1>1, LeastNatural
<1>3. /\ n \in (at + 1)..(NTypes + 1) /\ n \in 1..(NTypes + 1)
      /\ n <= NTypes => Enabled(Configured[n])
  BY <1>0
<1>4. ASSUME NEW j \in (at + 1)..(n - 1)
      PROVE  ~Enabled(Configured[j])
  <2>1. j \in (at + 1)..(NTypes + 1) /\ ~(n <= j)
    BY <1>0, <1>3
  <2> QED
    BY <1>2, <2>1
<1>5. IsNext(at, n)
  BY <1>3, <1>4 DEF IsNext
<1> QED
  BY <1>3, <1>5 DEF SomeNext

\* Before the type loop the run stands at no type.
Looping == pc = "start" => at = 0

\* Only a run's first step is taken from its start.
LEMMA LoopingNext == Typed /\ Looping /\ [Next]_vars => Looping'
<1> SUFFICES ASSUME Typed, Looping, [Next]_vars PROVE Looping'
  OBVIOUS
<1>1. CASE Advance
  BY <1>1, AdvanceType DEF Looping
<1>2. CASE pc' # "start"
  BY <1>2 DEF Looping
<1>3. CASE UNCHANGED <<pc, at>>
  BY <1>3 DEF Looping
<1>4. CASE Progress
  BY <1>1, <1>2, <1>3, <1>4
  DEF Progress, StartRun, RefuseSettings, ListForbidden, ListFails, List,
      WindowRaises, Fetch, Fetched, Listed, Evaluate, EvaluateHot, NotCold,
      NoCoverage, Cold, Evaluating, EvaluationRaises, FinishType, BeginWrite,
      Upload, UploadPart, UploadDone, UploadFails, UploadForbidden, Report,
      Forbid, DropType, loop
<1> QED
  BY <1>2, <1>3, <1>4 DEF Next, Kill, Stopped, vars, loop

\* A run that has not ended is never without a next step, whatever types are
\* configured and wanted: each way through a type leads to the next enabled
\* one or to the write.
THEOREM RunNeverBlocked == Spec => []NeverBlocked
<1>1. Init => Typed /\ Looping
  BY TypedInit DEF Init, Looping
<1>2. Typed /\ Looping => NeverBlocked
  <2>1. NTypes \in Nat /\ DOMAIN Configured = 1..NTypes
    BY ConfiguredAssumption DEF NTypes
  <2> QED
    BY <2>1, NextExists DEF Typed, AtType, Looping, NeverBlocked
<1> QED
  BY <1>1, <1>2, TypedNext, LoopingNext, PTL DEF Spec

\* The type loop only goes forward.
LEMMA AdvanceFurther ==
    ASSUME Typed, Advance
    PROVE  OneFurther
<1>1. NTypes \in Nat /\ at \in Nat
  BY ConfiguredAssumption DEF NTypes, Typed, TypeOK
<1> QED
  BY <1>1 DEF Advance, IsNext, OneFurther

\* Every step of a run gets it to a later type, to a later phase of the type,
\* or leaves one resource or row less to do there.  All three are bounded, so
\* no run goes on for ever, whatever its calls answer.
THEOREM EachStepAdvances == Spec => RunAdvances
<1>1. ASSUME Typed, [Next]_vars
      PROVE  [OneFurther]_vars
  <2>0. /\ todo \in SUBSET Resources /\ rows \in SUBSET Row
        /\ pc \in Phases \cup Ended
    BY <1>1 DEF Typed, TypeOK
  <2>1. CASE Advance
    BY <1>1, <2>1, AdvanceFurther
  <2>2. ASSUME NEW r \in todo, Evaluating(r)
        PROVE  OneFurther
    <3>1. /\ todo' = todo \ {r} /\ UNCHANGED <<rows, table, pc, at>>
      BY <2>2 DEF Evaluating, found
    <3>2. /\ Cardinality(todo) \in Nat /\ Cardinality(rows \ table) \in Nat
          /\ Cardinality(todo') = Cardinality(todo) - 1
      BY <2>0, <3>1, ResourceSets, RowSets, FS_RemoveElement
    <3> QED
      BY <3>1, <3>2 DEF OneFurther, Left
  <2>3. ASSUME NEW S \in SUBSET rows, UploadPart(S)
        PROVE  OneFurther
    <3>1. /\ S # {} /\ S \subseteq rows \ table /\ table' = table \cup S
          /\ UNCHANGED <<rows, todo, pc, at>>
      BY <2>3 DEF UploadPart, loop
    <3>2. rows' \ table' \subseteq rows \ table
          /\ rows' \ table' # rows \ table
      BY <3>1
    <3>3. /\ Cardinality(todo) \in Nat /\ Cardinality(rows \ table) \in Nat
          /\ IsFiniteSet(rows \ table)
          /\ Cardinality(rows' \ table') \in Nat
      BY <2>0, <3>1, ResourceSets, RowSets
    <3>4. Cardinality(rows' \ table') < Cardinality(rows \ table)
      BY <3>2, <3>3, FS_Subset, FS_CardinalityType
    <3> QED
      BY <3>1, <3>3, <3>4 DEF OneFurther, Left
  <2>4. ASSUME at' = at,
               \/ pc = "start" /\ pc' = "refused"
               \/ pc = "list" /\ pc' \in {"forbidden", "fetch", "evaluate"}
               \/ pc = "fetch" /\ pc' = "evaluate"
               \/ pc = "write" /\ pc' \in {"upload", "report"}
               \/ pc = "upload" /\ pc' \in {"report", "forbidden"}
               \/ pc = "report" /\ pc' \in Ended
               \/ pc \in Phases /\ pc' = "killed"
        PROVE  OneFurther
    BY <2>4 DEF OneFurther, PhasesLeft, Phases, Ended
  <2>5. CASE Evaluate
    BY <2>2, <2>5 DEF Evaluate, EvaluateHot, NotCold, NoCoverage, Cold
  <2>6. CASE Upload
    BY <2>3, <2>4, <2>6
    DEF Upload, UploadDone, UploadFails, UploadForbidden, Forbid, loop
  <2>7. CASE StartRun \/ ListFails \/ WindowRaises \/ EvaluationRaises
             \/ FinishType
    BY <2>1, <2>7 DEF StartRun, ListFails, WindowRaises, EvaluationRaises,
                      FinishType, DropType
  <2>8. CASE RefuseSettings \/ ListForbidden \/ List \/ Fetch \/ BeginWrite
             \/ Report
    BY <2>4, <2>8
    DEF RefuseSettings, ListForbidden, List, Listed, Fetch, Fetched, BeginWrite,
        Report, Forbid, loop, Ended
  <2>9. CASE Kill
    BY <2>0, <2>4, <2>9 DEF Kill, loop
  <2>10. CASE Stopped \/ UNCHANGED vars
    BY <2>10 DEF Stopped
  <2> QED
    BY <1>1, <2>5, <2>6, <2>7, <2>8, <2>9, <2>10 DEF Next, Progress
<1> QED
  BY <1>1, TypedInit, TypedNext, PTL DEF Spec, RunAdvances
=============================================================================
