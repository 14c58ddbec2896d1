-------------------------- MODULE Telemetry_proofs --------------------------
(***************************************************************************)
(* Telemetry for any metrics block, batch and answers.                     *)
(***************************************************************************)
EXTENDS Telemetry, TLAPS

\* Until the metrics block is accepted nothing is known of its keys; afterwards
\* each asks for what the first key with the same raw metric asks for.
Accepted == phase \in {"fetch", "resolved"} => OneRequestPerRawMetric

\* What the service answered for a raw metric in its call.
HeardOf(r, n) ==
    UNION {q.parts : q \in {p \in told : /\ p.resource = r /\ p.name = n
                                         /\ p.filter = FilterOf(n)}}

\* Each raw series was measured on its resource, as its request says.
RawOwn ==
    "shuffled" \notin mishaps =>
        \A r \in Ids : \A n \in Raw(mode) :
            raw[r][n].of \in
                {Nobody, [resource |-> r, name |-> n,
                          aggregation |-> AggregationOf(n),
                          filter |-> FilterOf(n)]}

\* Each raw series is the sum of what the service answered.
RawWhole ==
    mishaps = {} =>
        \A r \in Ids : \A n \in Raw(mode) :
            raw[r][n].points = Points(HeardOf(r, n))

\* A call that was not made was not answered.
Unheard ==
    /\ phase = "load" => told = {}
    /\ \A q \in told : q.filter \notin pending

\* No key has a series before the batch is resolved.
Early == phase # "resolved" => DOMAIN out = {}

IInv == /\ TypeOK /\ Accepted /\ RawOwn /\ RawWhole /\ Unheard /\ Early
        /\ OwnReadings /\ EveryInterval

\* A key that was accepted asks for its raw metrics as the request does.
LEMMA SameRequest ==
    ASSUME TypeOK, OneRequestPerRawMetric, NEW k \in Wanted(mode),
           NEW n \in Uses(k)
    PROVE  /\ AggregationOf(n) = cfg[k].aggregation
           /\ FilterOf(n) = cfg[k].filter
           /\ n \in Raw(mode)
BY DEF TypeOK, OneRequestPerRawMetric, AggregationOf, FilterOf, Raw

\* The fields of a key's configuration.
LEMMA KeyType ==
    ASSUME TypeOK, NEW k \in Wanted(mode)
    PROVE  cfg[k] \in Metrics /\ k \in DOMAIN cfg /\ Uses(k) \subseteq Names
<1>1. cfg[k] \in Metrics /\ k \in DOMAIN cfg
  BY ConfigAssumption DEF TypeOK, Wanted
<1>2. cfg[k].names \in Seq(Names)
  BY <1>1 DEF Metrics
<1> QED
  BY <1>1, <1>2 DEF Uses, ToSet

\* Every raw metric is asked for with an aggregation and a filter there are.
LEMMA RequestType ==
    ASSUME TypeOK, OneRequestPerRawMetric, NEW n \in Raw(mode)
    PROVE  /\ n \in Names
           /\ AggregationOf(n) \in Aggregations
           /\ FilterOf(n) \in Filters
<1>1. PICK k \in Wanted(mode) : n \in Uses(k)
  BY DEF Raw
<1>2. cfg[k] \in Metrics /\ Uses(k) \subseteq Names
  BY KeyType
<1>3. cfg[k].aggregation \in Aggregations /\ cfg[k].filter \in Filters
  BY <1>2 DEF Metrics
<1> QED
  BY <1>1, <1>2, <1>3, SameRequest

\* What a sum of readings tells of its parts.
LEMMA SumIs ==
    ASSUME NEW V \in SUBSET Readings
    PROVE  /\ Sum(V) \in Readings
           /\ Sum(V) = "some" <=> "some" \in V
           /\ Sum(V) # "none" <=> "zero" \in V \/ "some" \in V
BY DEF Sum, Readings

\* A summed series has an interval that one of its parts has, and a value where
\* one of them has a value.
LEMMA PointsAre ==
    ASSUME NEW parts \in SUBSET Timeseries
    PROVE  /\ Points(parts) \in Timeseries
           /\ DOMAIN Points(parts) = UNION {DOMAIN s : s \in parts}
           /\ \A t \in DOMAIN Points(parts) :
                /\ Points(parts)[t] = "some" <=>
                      \E s \in parts : t \in DOMAIN s /\ s[t] = "some"
                /\ Points(parts)[t] # "none" <=>
                      \E s \in parts :
                         t \in DOMAIN s /\ s[t] \in {"zero", "some"}
<1> DEFINE D == UNION {DOMAIN s : s \in parts}
           V(t) == {s[t] : s \in {p \in parts : t \in DOMAIN p}}
<1>1. \A s \in parts : DOMAIN s \subseteq Times /\ s \in [DOMAIN s -> Readings]
  BY DEF Timeseries
<1>2. \A t : V(t) \in SUBSET Readings
  BY <1>1
<1>3. Points(parts) = [t \in D |-> Sum(V(t))]
  BY DEF Points
<1>4. D \subseteq Times
  BY <1>1
<1>5. \A t \in D : Points(parts)[t] = Sum(V(t))
  BY <1>3
<1>6. \A t : Sum(V(t)) \in Readings
  BY <1>2, SumIs
<1>7. Points(parts) \in [D -> Readings]
  <2> HIDE DEF D, V
  <2> QED
    BY <1>3, <1>6
<1>8. ASSUME NEW t \in D
      PROVE  /\ Points(parts)[t] = "some" <=>
                  \E s \in parts : t \in DOMAIN s /\ s[t] = "some"
             /\ Points(parts)[t] # "none" <=>
                  \E s \in parts : t \in DOMAIN s /\ s[t] \in {"zero", "some"}
  <2>1. \A v : v \in V(t) <=> \E s \in parts : t \in DOMAIN s /\ s[t] = v
    OBVIOUS
  <2>2. V(t) \in SUBSET Readings
    BY <1>2
  <2>3. /\ Sum(V(t)) = "some" <=> "some" \in V(t)
        /\ Sum(V(t)) # "none" <=> "zero" \in V(t) \/ "some" \in V(t)
    <3> HIDE DEF V
    <3> QED
      BY <2>2, SumIs
  <2> QED
    BY <1>5, <2>1, <2>3
<1>9. DOMAIN Points(parts) = D
  BY <1>3
<1>10. Points(parts) \in Timeseries
  BY <1>4, <1>7 DEF Timeseries
<1> QED
  BY <1>8, <1>9, <1>10

\* A sum of nothing is the empty series.
LEMMA PointsOfNone == Points({}) = Empty.points /\ Empty.points \in Timeseries
<1>1. Points({}) = [t \in {} |-> "none"]
  BY DEF Points
<1>2. [t \in {} |-> "none"] \in [{} -> Readings]
  OBVIOUS
<1>3. {} \in SUBSET Times
  OBVIOUS
<1> QED
  BY <1>1, <1>2, <1>3 DEF Empty, Timeseries

\* The resource an entry of an answer is taken for is its own, if the answer has
\* ids or keeps the order of the request.
LEMMA OwnerIsOwn ==
    ASSUME NEW order \in Seq(Ids \cup Strangers), NEW named \in BOOLEAN,
           named \/ IsPrefix(order, Requested), NEW j \in DOMAIN order
    PROVE  Owner(order, named, j) = order[j]
<1>1. CASE named
  BY <1>1 DEF Owner
<1>2. CASE ~named
  <2>1. /\ Len(order) <= Len(Requested)
        /\ SubSeq(order, 1, Len(order)) = SubSeq(Requested, 1, Len(order))
    BY <1>2 DEF IsPrefix
  <2>2. j \in 1..Len(order) /\ Requested \in Seq(Ids)
    BY AnswerAssumption
  <2>3. SubSeq(order, 1, Len(order))[j] = order[j]
    BY <2>2
  <2>4. SubSeq(Requested, 1, Len(order))[j] = Requested[j]
    BY <2>1, <2>2
  <2> QED
    BY <1>2, <2>1, <2>2, <2>3, <2>4 DEF Owner
<1> QED
  BY <1>1, <1>2

\* An answer that fits the model: its order and what it holds.
Fits(order, body) ==
    /\ order \in Seq(Ids \cup Strangers)
    /\ IsInjective(order)
    /\ \A j \in DOMAIN order : body[order[j]] \in Bodies


\* The entries of an answer that are taken for a resource and hold a metric, and
\* what parse_batch_response makes of one.
Taken(order, named, body, r, n) ==
    {j \in DOMAIN order : /\ Owner(order, named, j) = r
                          /\ n \in DOMAIN body[order[j]]}

Entry(f, order, body, n, j) ==
    [of |-> [resource |-> order[j], name |-> n,
             aggregation |-> AggregationOf(n), filter |-> f],
     points |-> Points(body[order[j]][n])]

\* What parsing takes for a resource's metric is empty, or an entry of the body
\* that the order gives to that resource.
LEMMA ParseEntry ==
    ASSUME NEW f, NEW order, NEW body, NEW named, NEW r \in Ids,
           NEW n \in Group(f)
    PROVE  \/ /\ Taken(order, named, body, r, n) = {}
              /\ Parse(f, order, named, body)[r][n] = Empty
           \/ \E j \in Taken(order, named, body, r, n) :
                 Parse(f, order, named, body)[r][n] =
                     Entry(f, order, body, n, j)
<1> DEFINE found == Taken(order, named, body, r, n)
<1>1. Parse(f, order, named, body)[r][n] =
        IF found = {} THEN Empty
        ELSE Entry(f, order, body, n, CHOOSE j \in found : TRUE)
  BY DEF Parse, Taken, Entry
<1>2. found # {} => (CHOOSE j \in found : TRUE) \in found
  OBVIOUS
<1> QED
  BY <1>1, <1>2

\* Parsed series are series.
LEMMA ParseType ==
    ASSUME TypeOK, OneRequestPerRawMetric, NEW f \in Filters,
           NEW order, NEW body, Fits(order, body), NEW named \in BOOLEAN
    PROVE  /\ \A r \in Ids : \A n \in Group(f) :
                Parse(f, order, named, body)[r][n] \in Series(Origins)
           /\ \A r \in Ids : DOMAIN Parse(f, order, named, body)[r] = Group(f)
<1>1. ASSUME NEW r \in Ids, NEW n \in Group(f)
      PROVE  Parse(f, order, named, body)[r][n] \in Series(Origins)
  <2>1. n \in Names /\ AggregationOf(n) \in Aggregations
    BY RequestType DEF Group
  <2>2. Empty \in Series(Origins)
    BY PointsOfNone DEF Series, Empty, Origins
  <2>3. ASSUME NEW j \in Taken(order, named, body, r, n)
        PROVE  Entry(f, order, body, n, j) \in Series(Origins)
    <3>1. order[j] \in Ids \cup Strangers
      BY <2>3 DEF Fits, Taken
    <3>2. body[order[j]] \in Bodies
      BY <2>3 DEF Fits, Taken
    <3>3. body[order[j]][n] \in SUBSET Timeseries
      BY <2>3, <3>2, AnswerAssumption DEF Taken
    <3>4. Points(body[order[j]][n]) \in Timeseries
      BY <3>3, PointsAre
    <3>5. [resource |-> order[j], name |-> n,
           aggregation |-> AggregationOf(n), filter |-> f] \in Origins
      BY <2>1, <3>1 DEF Origins
    <3> QED
      BY <3>4, <3>5 DEF Series, Entry
  <2>4. \/ Parse(f, order, named, body)[r][n] = Empty
        \/ \E j \in Taken(order, named, body, r, n) :
              Parse(f, order, named, body)[r][n] = Entry(f, order, body, n, j)
    BY ParseEntry
  <2> QED
    BY <2>2, <2>3, <2>4
<1> QED
  BY <1>1 DEF Parse

\* They were measured on the resource they are sorted to.
LEMMA ParseOwn ==
    ASSUME NEW f \in Filters, NEW order, NEW body, Fits(order, body),
           NEW named \in BOOLEAN, named \/ IsPrefix(order, Requested),
           NEW r \in Ids, NEW n \in Group(f)
    PROVE  Parse(f, order, named, body)[r][n].of \in
               {Nobody, [resource |-> r, name |-> n,
                         aggregation |-> AggregationOf(n),
                         filter |-> FilterOf(n)]}
<1>1. \A j \in DOMAIN order : Owner(order, named, j) = order[j]
  BY OwnerIsOwn DEF Fits
<1>2. FilterOf(n) = f
  BY DEF Group
<1>3. Empty.of = Nobody
  BY DEF Empty
<1>4. ASSUME NEW j \in Taken(order, named, body, r, n)
      PROVE  Entry(f, order, body, n, j).of =
                 [resource |-> r, name |-> n, aggregation |-> AggregationOf(n),
                  filter |-> FilterOf(n)]
  BY <1>1, <1>2 DEF Entry, Taken
<1>5. \/ Parse(f, order, named, body)[r][n] = Empty
      \/ \E j \in Taken(order, named, body, r, n) :
            Parse(f, order, named, body)[r][n] = Entry(f, order, body, n, j)
  BY ParseEntry
<1> QED
  BY <1>3, <1>4, <1>5

\* What an answer says of one metric of one resource.
Said(f, order, body, r, n) ==
    {p \in Told(f, order, body) : p.resource = r /\ p.name = n /\ p.filter = f}

\* Parsed series are the sum of what the answer says.
LEMMA ParseWhole ==
    ASSUME NEW f \in Filters, NEW order, NEW body, Fits(order, body),
           NEW named \in BOOLEAN, named \/ IsPrefix(order, Requested),
           NEW r \in Ids, NEW n \in Group(f)
    PROVE  Parse(f, order, named, body)[r][n].points =
               Points(UNION {q.parts : q \in Said(f, order, body, r, n)})
<1> DEFINE told1(i) == [resource |-> order[i], name |-> n, filter |-> f,
                        parts |-> body[order[i]][n]]
<1>1. \A j \in DOMAIN order : Owner(order, named, j) = order[j]
  BY OwnerIsOwn DEF Fits
<1>2. \A p : p \in Said(f, order, body, r, n) <=>
                \E i \in Taken(order, named, body, r, n) : p = told1(i)
  BY <1>1 DEF Told, Said, Taken
<1>3. CASE /\ Taken(order, named, body, r, n) = {}
           /\ Parse(f, order, named, body)[r][n] = Empty
  <2>1. Said(f, order, body, r, n) = {}
    BY <1>2, <1>3
  <2>2. UNION {q.parts : q \in Said(f, order, body, r, n)} = {}
    BY <2>1
  <2> QED
    BY <1>3, <2>2, PointsOfNone
<1>4. ASSUME NEW j \in Taken(order, named, body, r, n)
      PROVE  Entry(f, order, body, n, j).points =
                 Points(UNION {q.parts : q \in Said(f, order, body, r, n)})
  <2>1. \A i \in Taken(order, named, body, r, n) : i = j
    BY <1>1, <1>4 DEF Fits, IsInjective, Taken
  <2>2. \A p : p \in Said(f, order, body, r, n) <=> p = told1(j)
    <3> HIDE DEF told1
    <3> QED
      BY <1>2, <1>4, <2>1
  <2>3. told1(j).parts = body[order[j]][n]
    OBVIOUS
  <2>4. UNION {q.parts : q \in Said(f, order, body, r, n)} = body[order[j]][n]
    <3> HIDE DEF told1
    <3>1. Said(f, order, body, r, n) = {told1(j)}
      BY <2>2
    <3> QED
      BY <3>1, <2>3
  <2> QED
    BY <2>4 DEF Entry
<1>5. \/ /\ Taken(order, named, body, r, n) = {}
         /\ Parse(f, order, named, body)[r][n] = Empty
      \/ \E j \in Taken(order, named, body, r, n) :
            Parse(f, order, named, body)[r][n] = Entry(f, order, body, n, j)
  BY ParseEntry
<1> QED
  BY <1>3, <1>4, <1>5

\* Nothing a step leaves alone changes what is asked for.
LEMMA SameConfig ==
    ASSUME cfg' = cfg, mode' = mode
    PROVE  /\ Raw(mode)' = Raw(mode) /\ Wanted(mode)' = Wanted(mode)
           /\ OneRequestPerRawMetric' <=> OneRequestPerRawMetric
           /\ \A n : AggregationOf(n)' = AggregationOf(n)
           /\ \A n : FilterOf(n)' = FilterOf(n)
BY DEF Raw, Wanted, OneRequestPerRawMetric, AggregationOf, FilterOf, FirstKey,
       Uses

\* Before the block is loaded all series are empty.
LEMMA InvInit == Init => IInv
<1> SUFFICES ASSUME Init PROVE IInv
  OBVIOUS
<1>1. DOMAIN out = {}
  BY DEF Init
<1>2. Empty \in Series(Origins)
  BY PointsOfNone DEF Series, Empty, Origins
<1>3. TypeOK
  <2>1. raw \in [Ids -> [Raw(mode) -> Series(Origins)]]
    BY <1>2 DEF Init
  <2> QED
    BY <1>1, <2>1 DEF Init, TypeOK
<1>4. RawOwn
  BY DEF Init, RawOwn, Empty
<1>5. RawWhole
  <2>1. \A r, n : HeardOf(r, n) = {}
    BY DEF Init, HeardOf
  <2> QED
    BY <2>1, PointsOfNone DEF Init, RawWhole
<1> QED
  BY <1>1, <1>3, <1>4, <1>5
     DEF Init, IInv, Accepted, Unheard, Early, OwnReadings, EveryInterval

\* A step that changes neither series nor answers keeps their relation.
LEMMA QuietNext ==
    ASSUME IInv, UNCHANGED <<cfg, mode, raw, out, told, mishaps>>,
           phase' \in {"load", "fetch", "resolved", "rejected", "failed",
                       "raised"},
           pending' \subseteq Filters, Accepted', Unheard', Early'
    PROVE  IInv'
<1>1. TypeOK'
  BY SameConfig DEF IInv, TypeOK
<1>2. RawOwn'
  BY SameConfig DEF IInv, RawOwn
<1>3. \A r, n : HeardOf(r, n)' = HeardOf(r, n)
  BY SameConfig DEF HeardOf
<1>4. RawWhole'
  BY <1>3, SameConfig DEF IInv, RawWhole
<1>5. OwnReadings'
  BY DEF IInv, OwnReadings
<1>6. EveryInterval'
  BY DEF IInv, EveryInterval, Reported, Valued, Heard
<1> QED
  BY <1>1, <1>2, <1>4, <1>5, <1>6 DEF IInv

\* An accepted block names only filters there are.
LEMMA LoadNext == IInv /\ Load => IInv'
<1> SUFFICES ASSUME IInv, Load PROVE IInv'
  OBVIOUS
<1>1. pending' \subseteq Filters
  BY RequestType DEF Load, IInv
<1>2. Accepted' /\ Unheard' /\ Early'
  BY SameConfig DEF Load, To, IInv, Accepted, Unheard, Early
<1> QED
  BY <1>1, <1>2, QuietNext DEF Load, To

\* The steps that end a batch without series.
LEMMA EndNext == IInv /\ (Reject \/ CallRaises \/ ResolveRaises) => IInv'
<1> SUFFICES ASSUME IInv, Reject \/ CallRaises \/ ResolveRaises PROVE IInv'
  OBVIOUS
<1>1. /\ UNCHANGED <<cfg, mode, raw, out, told, mishaps, pending>>
      /\ phase' \in {"rejected", "failed", "raised"}
      /\ phase # "resolved"
  BY DEF Reject, CallRaises, ResolveRaises, To
<1>2. Accepted' /\ Unheard' /\ Early'
  BY <1>1 DEF IInv, Accepted, Unheard, Early
<1> QED
  BY <1>1, <1>2, QuietNext DEF IInv, TypeOK

\* A lost answer is an answer that says nothing.
LEMMA LostFits ==
    ASSUME NEW order \in Orders, NEW body \in [ToSet(order) -> Bodies]
    PROVE  /\ Fits(order, body)
           /\ Fits(<<>>, body)
           /\ IsPrefix(<<>>, Requested)
<1>1. \A j \in DOMAIN order : body[order[j]] \in Bodies
  BY DEF ToSet
<1>2. IsPrefix(<<>>, Requested)
  BY AnswerAssumption DEF IsPrefix
<1> QED
  BY <1>1, <1>2, AnswerAssumption DEF Fits, IsInjective

\* A call adds what it heard to the series it asked for and to no other.
LEMMA CallNext == ASSUME IInv, NEW f \in Filters, Call(f) PROVE IInv'
<1>a. PICK order \in Orders, named \in BOOLEAN, captured \in BOOLEAN :
         \E body \in [ToSet(order) -> Bodies] :
            Answer(f, order, named, captured, body)
  BY DEF Call
<1>1. PICK body \in [ToSet(order) -> Bodies] :
         Answer(f, order, named, captured, body)
  BY <1>a
<1> DEFINE text == IF captured THEN order ELSE <<>>
           part == Parse(f, text, named, body)
<1>2. /\ phase = "fetch" /\ f \in pending /\ pending' = pending \ {f}
      /\ UNCHANGED <<cfg, mode, phase, out>>
  BY DEF Call, IsFirst
<1>3. /\ raw' = Merge(part)
      /\ told' = told \cup Told(f, order, body)
      /\ mishaps' = mishaps
            \cup (IF captured THEN {} ELSE {"lost"})
            \cup (IF named \/ IsPrefix(order, Requested) THEN {}
                                                      ELSE {"shuffled"})
  BY <1>1 DEF Answer
<1>4. Fits(order, body) /\ Fits(text, body)
  BY LostFits
<1>5. OneRequestPerRawMetric
  BY <1>2 DEF IInv, Accepted
<1>6. /\ \A r \in Ids : \A n \in Group(f) : part[r][n] \in Series(Origins)
      /\ \A r \in Ids : DOMAIN part[r] = Group(f)
  BY <1>4, <1>5, ParseType DEF IInv
<1>7. raw \in [Ids -> [Raw(mode) -> Series(Origins)]]
  BY DEF IInv, TypeOK
<1>8. \A r \in Ids : \A n \in Raw(mode) :
         raw'[r][n] = IF n \in Group(f) THEN part[r][n] ELSE raw[r][n]
  <2> HIDE DEF part
  <2> QED
    BY <1>3, <1>6 DEF Merge
<1>9. DOMAIN out' = {}
  BY <1>2 DEF IInv, Early
<1>10. \A q \in Told(f, order, body) :
          /\ q \in [resource : Ids \cup Strangers, name : Names,
                    filter : Filters, parts : SUBSET Timeseries]
          /\ q.filter = f
  <2> SUFFICES ASSUME NEW j \in DOMAIN order,
                      NEW n \in Group(f) \cap DOMAIN body[order[j]]
               PROVE  /\ order[j] \in Ids \cup Strangers
                      /\ n \in Names
                      /\ body[order[j]][n] \in SUBSET Timeseries
    BY DEF Told
  <2>1. body[order[j]] \in Bodies
    BY <1>4 DEF Fits
  <2> QED
    BY <1>4, <2>1, AnswerAssumption DEF Fits
<1>11. TypeOK'
  <2>1. raw' \in [Ids -> [Raw(mode) -> Series(Origins)]]
    <3> HIDE DEF part
    <3>1. \A r \in Ids : \A n \in Raw(mode) : raw'[r][n] \in Series(Origins)
      BY <1>6, <1>7, <1>8
    <3>2. /\ DOMAIN raw' = Ids
          /\ raw' = [r \in Ids |-> [n \in Raw(mode) |-> raw'[r][n]]]
      BY <1>3 DEF Merge
    <3> QED
      BY <3>1, <3>2
  <2>2. mishaps' \subseteq {"shuffled", "lost"}
    BY <1>3 DEF IInv, TypeOK
  <2> QED
    BY <1>2, <1>3, <1>9, <1>10, <2>1, <2>2, SameConfig DEF IInv, TypeOK
<1>12. RawOwn'
  <2> SUFFICES ASSUME "shuffled" \notin mishaps', NEW r \in Ids,
                      NEW n \in Raw(mode)
               PROVE  raw'[r][n].of \in
                        {Nobody, [resource |-> r, name |-> n,
                                  aggregation |-> AggregationOf(n),
                                  filter |-> FilterOf(n)]}
    BY <1>2, SameConfig DEF RawOwn
  <2>1. CASE n \in Group(f)
    <3>1. named \/ IsPrefix(text, Requested)
      BY <1>3, LostFits
    <3>2. part[r][n].of \in {Nobody, [resource |-> r, name |-> n,
                                      aggregation |-> AggregationOf(n),
                                      filter |-> FilterOf(n)]}
      BY <1>4, <2>1, <3>1, ParseOwn
    <3> QED
      BY <1>8, <2>1, <3>2
  <2>2. CASE n \notin Group(f)
    <3>1. "shuffled" \notin mishaps
      BY <1>3
    <3> QED
      BY <1>8, <2>2, <3>1 DEF IInv, RawOwn
  <2> QED
    BY <2>1, <2>2
<1>13. RawWhole'
  <2> SUFFICES ASSUME mishaps' = {}, NEW r \in Ids, NEW n \in Raw(mode)
               PROVE  raw'[r][n].points = Points(HeardOf(r, n)')
    BY <1>2, SameConfig DEF RawWhole
  <2>1. mishaps = {} /\ captured /\ (named \/ IsPrefix(order, Requested))
    BY <1>3
  <2>2. CASE n \in Group(f)
    <3>1. {p \in told' : /\ p.resource = r /\ p.name = n
                         /\ p.filter = FilterOf(n)} = Said(f, order, body, r, n)
      BY <1>2, <1>3, <2>2 DEF IInv, Unheard, Said, Group
    <3>2. HeardOf(r, n)' = UNION {q.parts : q \in Said(f, order, body, r, n)}
      BY <1>2, <3>1, SameConfig DEF HeardOf
    <3>3. part[r][n].points =
             Points(UNION {q.parts : q \in Said(f, order, body, r, n)})
      BY <1>4, <2>1, <2>2, ParseWhole
    <3> QED
      BY <1>8, <2>2, <3>2, <3>3
  <2>3. CASE n \notin Group(f)
    <3>1. FilterOf(n) # f
      BY <2>3 DEF Group
    <3>2. {p \in told' : /\ p.resource = r /\ p.name = n
                         /\ p.filter = FilterOf(n)} =
          {p \in told : /\ p.resource = r /\ p.name = n
                        /\ p.filter = FilterOf(n)}
      BY <1>3, <1>10, <3>1
    <3>3. HeardOf(r, n)' = HeardOf(r, n)
      BY <1>2, <3>2, SameConfig DEF HeardOf
    <3> QED
      BY <1>8, <2>1, <2>3, <3>3 DEF IInv, RawWhole
  <2> QED
    BY <2>2, <2>3
<1>14. Accepted' /\ Unheard' /\ Early'
  BY <1>2, <1>3, <1>10, SameConfig DEF IInv, Accepted, Unheard, Early
<1> QED
  BY <1>9, <1>11, <1>12, <1>13, <1>14 DEF IInv, OwnReadings, EveryInterval

\* Zeros for intervals without a value change no interval and no other reading.
LEMMA FilledIs ==
    ASSUME NEW k, NEW points \in Timeseries
    PROVE  /\ Filled(k, points) \in Timeseries
           /\ DOMAIN Filled(k, points) = DOMAIN points
           /\ \A t \in DOMAIN points :
                /\ Filled(k, points)[t] = "some" <=> points[t] = "some"
                /\ Filled(k, points)[t] # "none" <=>
                      cfg[k].missing_as_zero \/ points[t] # "none"
<1>1. DOMAIN points \subseteq Times /\ points \in [DOMAIN points -> Readings]
  BY DEF Timeseries
<1>2. Filled(k, points) \in [DOMAIN points -> Readings]
  BY <1>1 DEF Filled, Readings
<1>3. Filled(k, points) \in Timeseries
  BY <1>1, <1>2 DEF Timeseries
<1> QED
  BY <1>1, <1>2, <1>3 DEF Filled

\* A ratio has the intervals of its numerator, and values where both sides do.
LEMMA RatioIs ==
    ASSUME NEW num \in Timeseries, NEW den \in Timeseries
    PROVE  /\ Ratio(num, den) \in Timeseries
           /\ DOMAIN Ratio(num, den) = DOMAIN num
           /\ \A t \in DOMAIN num :
                Ratio(num, den)[t] # "none" <=>
                   num[t] # "none" /\ t \in DOMAIN den /\ den[t] = "some"
<1>1. DOMAIN num \subseteq Times /\ num \in [DOMAIN num -> Readings]
  BY DEF Timeseries
<1>2. Ratio(num, den) \in [DOMAIN num -> Readings]
  BY <1>1 DEF Ratio, Readings
<1>3. Ratio(num, den) \in Timeseries
  BY <1>1, <1>2 DEF Timeseries
<1> QED
  BY <1>1, <1>2, <1>3 DEF Ratio

\* The inputs of a key that resolves were asked for as the key says.
LEMMA InputIs ==
    ASSUME IInv, phase = "fetch", NEW k \in Wanted(mode), ~Broken(k),
           NEW i \in 1..Inputs(k)
    PROVE  /\ cfg[k].names[i] \in Raw(mode)
           /\ AggregationOf(cfg[k].names[i]) = cfg[k].aggregation
           /\ FilterOf(cfg[k].names[i]) = cfg[k].filter
<1>1. cfg[k] \in Metrics
  BY KeyType DEF IInv
<1>2. cfg[k].names \in Seq(Names)
  BY <1>1 DEF Metrics
<1>3. i \in DOMAIN cfg[k].names
  BY <1>2 DEF Broken, Inputs
<1>4. cfg[k].names[i] \in Uses(k)
  BY <1>3 DEF Uses, ToSet
<1>5. OneRequestPerRawMetric
  BY DEF IInv, Accepted
<1> QED
  BY <1>4, <1>5, SameRequest DEF IInv

\* What was heard of a key's input is in its raw series.
LEMMA RawTells ==
    ASSUME IInv, phase = "fetch", mishaps = {}, NEW r \in Ids,
           NEW k \in Wanted(mode), ~Broken(k), NEW i \in 1..Inputs(k)
    PROVE  LET s == raw[r][cfg[k].names[i]].points IN
           /\ s \in Timeseries
           /\ DOMAIN s = Reported(r, k, i)
           /\ Valued(r, k, i, {"some"}) = {t \in DOMAIN s : s[t] = "some"}
           /\ Valued(r, k, i, {"zero", "some"}) =
                 {t \in DOMAIN s : s[t] # "none"}
<1> DEFINE n == cfg[k].names[i]
           s == raw[r][n].points
<1>1. n \in Raw(mode) /\ FilterOf(n) = cfg[k].filter
  BY InputIs
<1>2. Heard(r, k, i) = HeardOf(r, n)
  BY <1>1 DEF Heard, HeardOf
<1>3. Heard(r, k, i) \in SUBSET Timeseries
  BY DEF IInv, TypeOK, Heard
<1>4. s = Points(Heard(r, k, i))
  BY <1>1, <1>2 DEF IInv, RawWhole
<1>5. DOMAIN s = Reported(r, k, i) /\ s \in Timeseries
  BY <1>3, <1>4, PointsAre DEF Reported
<1>6. \A t \in DOMAIN s :
         /\ s[t] = "some" <=>
               \E p \in Heard(r, k, i) : t \in DOMAIN p /\ p[t] = "some"
         /\ s[t] # "none" <=>
               \E p \in Heard(r, k, i) :
                  t \in DOMAIN p /\ p[t] \in {"zero", "some"}
  BY <1>3, <1>4, PointsAre
<1> HIDE DEF s
<1>7. Valued(r, k, i, {"some"}) = {t \in DOMAIN s : s[t] = "some"}
  BY <1>5, <1>6 DEF Valued
<1>8. Valued(r, k, i, {"zero", "some"}) = {t \in DOMAIN s : s[t] # "none"}
  BY <1>5, <1>6 DEF Valued
<1> QED
  BY <1>5, <1>7, <1>8 DEF s

\* A resolved series has the origins of its inputs and their values.
LEMMA ResolvedIs ==
    ASSUME IInv, phase = "fetch", NEW r \in Ids, NEW k \in Resolved(r),
           ~Broken(k)
    PROVE  LET got == ResolveSeries(r)[k]
               input(i) == raw[r][cfg[k].names[i]]
               points(i) == Filled(k, input(i).points)
           IN  /\ got.of = [i \in 1..Inputs(k) |-> input(i).of]
               /\ got.points = IF cfg[k].derive = "ratio"
                               THEN Ratio(points(1), points(2)) ELSE points(1)
               /\ \A i \in 1..Inputs(k) : /\ input(i).of \in Origins
                                          /\ input(i).points \in Timeseries
               /\ got \in Series(Seq(Origins))
<1> DEFINE got == ResolveSeries(r)[k]
           input(i) == raw[r][cfg[k].names[i]]
           points(i) == Filled(k, input(i).points)
<1>1. /\ got.of = [i \in 1..Inputs(k) |-> input(i).of]
      /\ got.points = IF cfg[k].derive = "ratio"
                      THEN Ratio(points(1), points(2)) ELSE points(1)
      /\ got = [of |-> got.of, points |-> got.points]
  BY DEF ResolveSeries
<1>2. k \in Wanted(mode)
  BY DEF Resolved
<1>3. \A i \in 1..Inputs(k) : input(i) \in Series(Origins)
  BY <1>2, InputIs DEF IInv, TypeOK
<1>4. \A i \in 1..Inputs(k) :
         input(i).of \in Origins /\ input(i).points \in Timeseries
  BY <1>3 DEF Series
<1>5. 1 \in 1..Inputs(k) /\ (cfg[k].derive = "ratio" => 2 \in 1..Inputs(k))
  BY DEF Inputs
<1>6. got.points \in Timeseries
  <2> HIDE DEF input, got
  <2> QED
    BY <1>1, <1>4, <1>5, FilledIs, RatioIs
<1>7. got.of \in Seq(Origins)
  <2>1. Inputs(k) \in Nat
    BY DEF Inputs
  <2>2. got.of \in [1..Inputs(k) -> Origins]
    BY <1>1, <1>4
  <2> HIDE DEF got, input
  <2> QED
    BY <2>1, <2>2
<1>8. got \in Series(Seq(Origins))
  <2> HIDE DEF got, input
  <2> QED
    BY <1>1, <1>6, <1>7 DEF Series
<1> QED
  BY <1>1, <1>4, <1>8

\* Resolving keeps origins and intervals.
LEMMA ResolveNext == IInv /\ Resolve => IInv'
<1> SUFFICES ASSUME IInv, Resolve PROVE IInv'
  OBVIOUS
<1>1. /\ UNCHANGED <<cfg, mode, raw, told, mishaps, pending>>
      /\ phase = "fetch" /\ phase' = "resolved"
      /\ out' = [r \in Ids |-> ResolveSeries(r)]
      /\ \A r \in Ids : \A k \in Resolved(r) : ~Broken(k)
  BY DEF Resolve, To
<1>2. /\ DOMAIN out' = Ids
      /\ \A r \in Ids : DOMAIN out'[r] = Resolved(r)
      /\ \A r \in Ids : \A k \in Resolved(r) : out'[r][k] = ResolveSeries(r)[k]
  BY <1>1 DEF ResolveSeries
<1>3. \A r \in Ids : Resolved(r) \subseteq Wanted(mode)
  BY DEF Resolved
<1>4. TypeOK'
  <2>1. \A r \in Ids : out'[r] \in [DOMAIN out'[r] -> Series(Seq(Origins))]
    <3> SUFFICES ASSUME NEW r \in Ids
                 PROVE  ResolveSeries(r) \in
                            [Resolved(r) -> Series(Seq(Origins))]
      BY <1>1, <1>2
    <3>1. \A k \in Resolved(r) : ResolveSeries(r)[k] \in Series(Seq(Origins))
      BY <1>1, ResolvedIs
    <3> QED
      BY <3>1 DEF ResolveSeries
  <2> QED
    BY <1>1, <1>2, <1>3, <2>1, SameConfig DEF IInv, TypeOK
<1>5. OwnReadings'
  <2> DEFINE Own(r, k, i, origin) ==
        origin \in {Nobody, [resource |-> r, name |-> cfg[k].names[i],
                             aggregation |-> cfg[k].aggregation,
                             filter |-> cfg[k].filter]}
  <2>1. ASSUME "shuffled" \notin mishaps, NEW r \in Ids, NEW k \in Resolved(r),
               NEW i \in 1..Inputs(k)
        PROVE  Own(r, k, i, raw[r][cfg[k].names[i]].of)
    <3>1. /\ cfg[k].names[i] \in Raw(mode)
          /\ AggregationOf(cfg[k].names[i]) = cfg[k].aggregation
          /\ FilterOf(cfg[k].names[i]) = cfg[k].filter
      BY <1>1, <1>3, InputIs
    <3> QED
      BY <2>1, <3>1 DEF IInv, RawOwn
  <2>2. ASSUME NEW r \in Ids, NEW k \in Resolved(r)
        PROVE  ResolveSeries(r)[k].of =
                 [i \in 1..Inputs(k) |-> raw[r][cfg[k].names[i]].of]
    BY DEF ResolveSeries
  <2> HIDE DEF Own
  <2>3. ASSUME "shuffled" \notin mishaps, NEW r \in Ids, NEW k \in Resolved(r),
               NEW i \in DOMAIN ResolveSeries(r)[k].of
        PROVE  Own(r, k, i, ResolveSeries(r)[k].of[i])
    <3> DEFINE of == ResolveSeries(r)[k].of
    <3>1. of = [j \in 1..Inputs(k) |-> raw[r][cfg[k].names[j]].of]
      BY <2>2
    <3>2. i \in DOMAIN of
      BY <2>3
    <3> HIDE DEF of
    <3>3. i \in 1..Inputs(k) /\ of[i] = raw[r][cfg[k].names[i]].of
      BY <3>1, <3>2
    <3> QED
      BY <2>1, <2>3, <3>3 DEF of
  <2>4. "shuffled" \notin mishaps =>
           \A r \in DOMAIN out' : \A k \in DOMAIN out'[r] :
              \A i \in DOMAIN out'[r][k].of : Own(r, k, i, out'[r][k].of[i])
    BY <1>2, <2>3
  <2> QED
    BY <1>1, <2>4 DEF OwnReadings, Own
<1>6. EveryInterval'
  <2> DEFINE Right(r, k, points) ==
        LET valued == IF cfg[k].missing_as_zero
                      THEN Reported(r, k, 1)
                      ELSE Valued(r, k, 1, {"zero", "some"})
        IN  /\ DOMAIN points = Reported(r, k, 1)
            /\ {t \in DOMAIN points : points[t] # "none"} =
                   IF cfg[k].derive = "ratio"
                   THEN valued \cap Valued(r, k, 2, {"some"})
                   ELSE valued
  <2>1. ASSUME mishaps = {}, NEW r \in Ids, NEW k \in Resolved(r)
        PROVE  Right(r, k, ResolveSeries(r)[k].points)
    <3> DEFINE s(i) == raw[r][cfg[k].names[i]].points
               p(i) == Filled(k, s(i))
               got == ResolveSeries(r)[k].points
    <3>1. ~Broken(k) /\ k \in Wanted(mode)
      BY <1>1, <1>3
    <3>2. got = IF cfg[k].derive = "ratio" THEN Ratio(p(1), p(2)) ELSE p(1)
      BY DEF ResolveSeries
    <3>3. 1 \in 1..Inputs(k) /\ (cfg[k].derive = "ratio" => 2 \in 1..Inputs(k))
      BY DEF Inputs
    <3>4. \A i \in 1..Inputs(k) :
             /\ s(i) \in Timeseries
             /\ DOMAIN s(i) = Reported(r, k, i)
             /\ Valued(r, k, i, {"some"}) =
                   {t \in DOMAIN s(i) : s(i)[t] = "some"}
             /\ Valued(r, k, i, {"zero", "some"}) =
                   {t \in DOMAIN s(i) : s(i)[t] # "none"}
      BY <1>1, <2>1, <3>1, RawTells
    <3> HIDE DEF s, got
    <3>5. \A i \in 1..Inputs(k) :
             /\ p(i) \in Timeseries
             /\ DOMAIN p(i) = DOMAIN s(i)
             /\ \A t \in DOMAIN s(i) :
                  /\ p(i)[t] = "some" <=> s(i)[t] = "some"
                  /\ p(i)[t] # "none" <=>
                        cfg[k].missing_as_zero \/ s(i)[t] # "none"
      BY <3>4, FilledIs
    <3> HIDE DEF p
    <3>6. {t \in DOMAIN p(1) : p(1)[t] # "none"} =
             IF cfg[k].missing_as_zero
             THEN Reported(r, k, 1)
             ELSE Valued(r, k, 1, {"zero", "some"})
      BY <3>3, <3>4, <3>5
    <3>7. CASE cfg[k].derive # "ratio"
      BY <3>2, <3>3, <3>4, <3>5, <3>6, <3>7 DEF got
    <3>8. CASE cfg[k].derive = "ratio"
      <4>1. /\ DOMAIN got = DOMAIN p(1)
            /\ \A t \in DOMAIN p(1) :
                 got[t] # "none" <=>
                    p(1)[t] # "none" /\ t \in DOMAIN p(2) /\ p(2)[t] = "some"
        BY <3>2, <3>3, <3>5, <3>8, RatioIs
      <4>2. \A t : t \in Valued(r, k, 2, {"some"}) <=>
                      t \in DOMAIN p(2) /\ p(2)[t] = "some"
        BY <3>3, <3>4, <3>5, <3>8
      <4>3. {t \in DOMAIN got : got[t] # "none"} =
               {t \in DOMAIN p(1) : p(1)[t] # "none"}
                  \cap Valued(r, k, 2, {"some"})
        BY <4>1, <4>2
      <4> QED
        BY <3>3, <3>4, <3>5, <3>6, <3>8, <4>1, <4>3 DEF got
    <3> QED
      BY <3>7, <3>8
  <2>2. \A r, k, i, v : /\ Reported(r, k, i)' = Reported(r, k, i)
                        /\ Valued(r, k, i, v)' = Valued(r, k, i, v)
    BY <1>1 DEF Reported, Valued, Heard
  <2>3. mishaps = {} =>
           \A r \in DOMAIN out' : \A k \in DOMAIN out'[r] :
              Right(r, k, out'[r][k].points)
    <3> HIDE DEF Right
    <3> QED
      BY <1>2, <2>1
  <2> QED
    BY <1>1, <2>2, <2>3 DEF EveryInterval
<1>7. RawOwn' /\ RawWhole'
  <2>1. \A r, n : HeardOf(r, n)' = HeardOf(r, n)
    BY <1>1, SameConfig DEF HeardOf
  <2> QED
    BY <1>1, <2>1, SameConfig DEF IInv, RawOwn, RawWhole
<1>8. Accepted' /\ Unheard' /\ Early'
  BY <1>1, SameConfig DEF IInv, Accepted, Unheard, Early
<1> QED
  BY <1>4, <1>5, <1>6, <1>7, <1>8 DEF IInv

\* Every step keeps the invariant.
LEMMA InvNext == IInv /\ [Next]_vars => IInv'
<1> SUFFICES ASSUME IInv, [Next]_vars PROVE IInv'
  OBVIOUS
<1>1. CASE UNCHANGED vars
  <2>1. UNCHANGED <<cfg, mode, phase, pending, raw, out, told, mishaps>>
    BY <1>1 DEF vars
  <2>2. Accepted' /\ Unheard' /\ Early'
    BY <2>1, SameConfig DEF IInv, Accepted, Unheard, Early
  <2> QED
    BY <2>1, <2>2, QuietNext DEF IInv, TypeOK
<1> QED
  BY <1>1, LoadNext, EndNext, CallNext, ResolveNext DEF Next, Ended

\* The inductive invariant.
LEMMA InvAlways == Spec => []IInv
<1> QED
  BY InvInit, InvNext, PTL DEF Spec

\* Type correctness of requests, answers and series.
THEOREM TypeCorrect == Spec => []TypeOK
<1>1. IInv => TypeOK
  BY DEF IInv
<1> QED
  BY <1>1, InvAlways, PTL

\* A series is always the resource's own, of the metric, aggregation and filter
\* its key asks for: the check on the block, the requests, the calls, the
\* mapping of answers and the derivations agree.
THEOREM SeriesAreOwn == Spec => []OwnReadings
<1>1. IInv => OwnReadings
  BY DEF IInv
<1> QED
  BY <1>1, InvAlways, PTL

\* Nothing the service reported of a key's metric is left out, nothing added.
THEOREM SeriesAreWhole == Spec => []EveryInterval
<1>1. IInv => EveryInterval
  BY DEF IInv
<1> QED
  BY <1>1, InvAlways, PTL
=============================================================================
