------------------------------- MODULE Findings -------------------------------
(***************************************************************************)
(* Rows of findings: what step 3 of _run_type shows of each evaluated      *)
(* resource, which prices it asks for and shows, and which team reads it.  *)
(* ops: evaluate_hot and ops_row.  finops: for each recommendation the two *)
(* prices, through the client's cache, and finops_row.                     *)
(*                                                                         *)
(* Readings, thresholds and money are integers in mills, a tenth of a      *)
(* cent, so that rounding to two decimals shows.  A unit price is in       *)
(* ten-thousandths an hour: 730 hours of one are 73 mills.                 *)
(***************************************************************************)
EXTENDS Integers, Sequences, FiniteSets

CONSTANTS
    Groups,      \* assignment groups, in lower case
    Spellings,   \* of a group
    Routes,      \* var.routes
    CatchAll,    \* the route that sets catch_all
    Claims,      \* [route -> its assignment_groups]
    Sums,        \* of the readings of a window, or the greatest of them
    Limits,      \* thresholds, of the configuration or of a tag
    Skus,        \* (location, SKU), in lower case
    Units,       \* unit prices
    Catalogs,    \* [SKU -> offers] of the price service
    Advice,      \* recommendations
    None,        \* as in the code
    Absent,      \* not a key of the cache
    MaxPoints,   \* bound: points of an ops window
    MaxHot,      \* bound: ops evaluations
    MaxAdvice    \* bound: recommendations of a run

\* A group as somebody spelled it, in a tag or in the variable of the routes.
Names   == [lower : Groups, spelling : Spellings]
NoGroup == [lower |-> None, spelling |-> None]

Oses   == {"linux", "windows"}
Keys   == [sku : Skus, os : Oses]

\* excluded: spot, low priority, or not a consumption price.
Offers == [os : Oses, excluded : BOOLEAN, unit : Units]

\* A cold finding with its recommendation; target is None for advice without
\* a SKU.  Only virtual machines are priced.
Recommendations ==
    [group : Names \cup {NoGroup}, sku : Skus, os : Oses,
     target : Skus \cup {None}, priced : BOOLEAN]

\* The validations of var.routes: one route for a group, whatever its case.
ASSUME RoutesAssumption ==
    /\ CatchAll \in Routes
    /\ Claims \in [Routes -> SUBSET Names]
    /\ \A r, s \in Routes : \A g \in Claims[r], h \in Claims[s] :
           g.lower = h.lower => r = s

ASSUME ValuesAssumption ==
    /\ Sums \subseteq Nat /\ Limits \subseteq Int /\ Units \subseteq Nat
    /\ Catalogs \subseteq [Skus -> SUBSET Offers]
    /\ Advice \subseteq Recommendations
    /\ None \notin Int \cup Skus \cup Groups
    /\ Absent \notin Int \cup {None}
    /\ MaxPoints \in Nat /\ MaxHot \in Nat /\ MaxAdvice \in Nat

VARIABLES
    mode,
    catalog,  \* of the price service
    last,     \* history: the last evaluation of an ops metric
    advised,  \* the recommendations so far
    rows,     \* rows of the type
    got,      \* the prices the last recommendation has so far
    cache,    \* _cache
    asked,    \* history: the calls for each key
    failed,   \* history: the keys a call failed for
    lost      \* an error ended the type

vars == <<mode, catalog, last, advised, rows, got, cache, asked, failed, lost>>
-----------------------------------------------------------------------------
(* Numbers.                                                                *)

\* round(num / den, 2), half to even.
Round(num, den) ==
    LET cents == num \div (10 * den)
        rest  == num % (10 * den)
    IN  IF rest > 5 * den \/ (rest = 5 * den /\ cents % 2 = 1)
        THEN 10 * (cents + 1)
        ELSE 10 * cents

\* _money
Money(amount) == IF amount = None THEN None ELSE Round(amount, 1)

\* saving
Saving(current, projected) ==
    IF None \in {current, projected} THEN None ELSE current - projected

Eligible(offers, os) == {o \in offers : o.os = os /\ ~o.excluded}

\* select_monthly_price
MonthlyPrice(offers, os) ==
    IF Eligible(offers, os) = {} THEN None
    ELSE 73 * (CHOOSE u \in {o.unit : o \in Eligible(offers, os)} :
                  \A o \in Eligible(offers, os) : u <= o.unit)

-----------------------------------------------------------------------------
\* The ops mode asks for no price.
NoOffers == [s \in Skus |-> {}]

NotEvaluated == [reported |-> FALSE, value |-> None]

Init ==
    /\ mode \in {"ops", "finops"}
    /\ catalog \in IF mode = "ops" THEN {NoOffers} ELSE Catalogs
    /\ last = NotEvaluated
    /\ advised = <<>>
    /\ rows = <<>>
    /\ got = <<>>
    /\ cache = [k \in Keys |-> Absent]
    /\ asked = [k \in Keys |-> 0]
    /\ failed = {}
    /\ lost = FALSE
-----------------------------------------------------------------------------
(* Ops.                                                                    *)

\* reduce_window: a mean is a fraction, a maximum or a sum is over 1.
Values == [num : Sums, den : 1..MaxPoints]

\* Mutant: the test takes the value, the row shows the rounded one.
Breached_Unrounded(value, threshold, above) ==
    \/ above /\ value.num >= threshold * value.den
    \/ ~above /\ value.num <= threshold * value.den

Breached(value, threshold, above) ==
    LET observed == Round(value.num, value.den)
    IN  \/ above /\ observed >= threshold
        \/ ~above /\ observed <= threshold

\* A window without data has a Skip instead (no_ops_data).
EvaluateHot(value, threshold, above, group) ==
    /\ mode = "ops"
    /\ Len(rows) < MaxHot
    /\ LET hot == Breached(value, threshold, above)
       IN  /\ last' = [reported |-> hot, value |-> value,
                       threshold |-> threshold, above |-> above]
           /\ rows' = IF hot
                      THEN Append(rows,
                               [group |-> group, threshold |-> threshold,
                                observed |-> Round(value.num, value.den)])
                      ELSE rows
    /\ UNCHANGED <<mode, catalog, advised, got, cache, asked, failed, lost>>
-----------------------------------------------------------------------------
(* Finops.                                                                 *)

Rec == advised[Len(advised)]

\* Every recommendation has its row.
Idle == Len(rows) >= Len(advised)

\* The keys monthly_price is called with, in this order.
Wanted(rec) ==
    LET own  == [sku |-> rec.sku, os |-> rec.os]
        next == [sku |-> rec.target, os |-> rec.os]
    IN  CASE ~rec.priced                       -> <<>>
          [] rec.priced /\ rec.target = None   -> <<own>>
          [] rec.priced /\ rec.target # None   -> <<own, next>>

\* Mutant: a key without the operating system.
Key_NoOs(key) == [key EXCEPT !.os = "linux"]

\* (region, sku, os_type) in lower case
Key(key) == key

Recommend(rec) ==
    /\ mode = "finops" /\ ~lost /\ Idle
    /\ Len(advised) < MaxAdvice
    /\ advised' = Append(advised, rec)
    /\ got' = <<>>
    /\ UNCHANGED <<mode, catalog, last, rows, cache, asked, failed, lost>>

\* The next key to price.
Asks(key) ==
    /\ ~lost /\ ~Idle
    /\ Len(got) < Len(Wanted(Rec))
    /\ key = Wanted(Rec)[Len(got) + 1]

PriceFromCache(key) ==
    /\ Asks(key)
    /\ cache[Key(key)] # Absent
    /\ got' = Append(got, cache[Key(key)])
    /\ UNCHANGED <<mode, catalog, last, advised, rows, cache, asked, failed,
                   lost>>

Learn(key, price) ==
    /\ Asks(key)
    /\ cache[Key(key)] = Absent
    /\ cache' = [cache EXCEPT ![Key(key)] = price]
    /\ got' = Append(got, price)
    /\ asked' = [asked EXCEPT ![key] = @ + 1]
    /\ UNCHANGED <<mode, catalog, last, advised, rows, lost>>

PriceAnswered(key) ==
    /\ Learn(key, MonthlyPrice(catalog[key.sku], key.os))
    /\ UNCHANGED failed

\* httpx.HTTPError, ValueError or KeyError
PriceFails(key) ==
    /\ Learn(key, None)
    /\ failed' = failed \cup {key}

\* A unit price that is no number is an error nobody catches.
PriceRaises(key) ==
    /\ Asks(key)
    /\ cache[Key(key)] = Absent
    /\ lost' = TRUE
    /\ rows' = <<>>
    /\ UNCHANGED <<mode, catalog, last, advised, got, cache, asked, failed>>

\* with_pricing or with_note, then finops_row
FinopsRow ==
    /\ ~lost /\ ~Idle
    /\ Len(got) = Len(Wanted(Rec))
    /\ LET current   == IF Len(got) >= 1 THEN got[1] ELSE None
           projected == IF Len(got) = 2 THEN got[2] ELSE None
           saving    == Saving(current, projected)
       IN  rows' = Append(rows, [group     |-> Rec.group,
                                 current   |-> Money(current),
                                 projected |-> Money(projected),
                                 saving    |-> Money(saving)])
    /\ UNCHANGED <<mode, catalog, last, advised, got, cache, asked, failed,
                   lost>>

Next ==
    \/ \E value \in Values, threshold \in Limits, above \in BOOLEAN,
          group \in Names \cup {NoGroup} :
           EvaluateHot(value, threshold, above, group)
    \/ \E rec \in Advice : Recommend(rec)
    \/ \E key \in Keys :
           \/ PriceFromCache(key)
           \/ PriceAnswered(key)
           \/ PriceFails(key)
           \/ PriceRaises(key)
    \/ FinopsRow

Spec == Init /\ [][Next]_vars
-----------------------------------------------------------------------------
(* Teams: the filter every query over a findings table starts with.        *)

\* Mutant: in, which heeds the case.
In_Exact(group, claims) == group \in claims

\* in~
In(group, claims) == \E g \in claims : g.lower = group.lower

Reads(route, row) ==
    \/ In(row.group, Claims[route])
    \/ route = CatchAll /\ ~In(row.group, UNION {Claims[r] : r \in Routes})
-----------------------------------------------------------------------------
(* Properties.                                                             *)

Amounts == Int \cup {None}

HotRows == [group : Names \cup {NoGroup}, threshold : Limits, observed : Int]
ColdRows == [group : Names \cup {NoGroup},
             current : Amounts, projected : Amounts, saving : Amounts]

TypeOK ==
    /\ mode \in {"ops", "finops"}
    /\ catalog \in Catalogs \cup {NoOffers}
    /\ last \in {NotEvaluated} \cup
                [reported : BOOLEAN, value : [num : Nat, den : Nat \ {0}],
                 threshold : Limits, above : BOOLEAN]
    /\ advised \in Seq(Advice)
    /\ rows \in Seq(HotRows \cup ColdRows)
    /\ got \in Seq(Amounts)
    /\ cache \in [Keys -> Amounts \cup {Absent}]
    /\ asked \in [Keys -> Nat]
    /\ failed \subseteq Keys
    /\ lost \in BOOLEAN

Near(a, b, by) == a - b <= by /\ b - a <= by

\* An ops row is true.  The value it shows is on the breached side of the
\* threshold it shows, and within half a cent of the reading it stands for;
\* and a reading beyond a threshold of whole cents has its row, any other one
\* unless it is within half a cent of its threshold.
BreachShown ==
    last # NotEvaluated =>
        LET value == last.value
            row   == rows[Len(rows)]
            Short(t) == IF last.above THEN value.num < t * value.den
                        ELSE value.num > t * value.den
        IN  IF last.reported
            THEN /\ row.threshold = last.threshold
                 /\ IF last.above THEN row.observed >= row.threshold
                    ELSE row.observed <= row.threshold
                 /\ Near(row.observed * value.den, value.num, 5 * value.den)
            ELSE /\ Short(IF last.above THEN last.threshold + 5
                          ELSE last.threshold - 5)
                 /\ last.threshold % 10 = 0 => Short(last.threshold)

\* A cost column shows the cheapest offer there is for the machine's own
\* operating system that anybody can rely on, and is empty only if the one
\* call for it failed or there is no such offer.
CostShown(shown, key) ==
    LET offers == {o \in catalog[key.sku] : o.os = key.os /\ ~o.excluded}
    IN  IF shown = None THEN offers = {} \/ key \in failed
        ELSE /\ \E o \in offers : Near(shown, 73 * o.unit, 5)
             /\ \A o \in offers : shown <= (73 * o.unit) + 5

\* A finops row is true, whatever answers the cache holds from the rows before
\* it: each price is asked for once in a run, both costs are shown as the
\* service offers them, those of a type without prices are empty, and the
\* saving is there exactly if both costs are and is within a cent of their
\* difference.
CostsHonest ==
    /\ \A k \in Keys : asked[k] <= 1
    /\ mode = "finops" => \A i \in DOMAIN rows :
           LET rec == advised[i]
               row == rows[i]
           IN  /\ IF rec.priced
                  THEN CostShown(row.current, [sku |-> rec.sku, os |-> rec.os])
                  ELSE row.current = None
               /\ IF rec.priced /\ rec.target # None
                  THEN CostShown(row.projected,
                                 [sku |-> rec.target, os |-> rec.os])
                  ELSE row.projected = None
               /\ IF None \in {row.current, row.projected}
                  THEN row.saving = None
                  ELSE /\ row.saving # None
                       /\ Near(row.saving, row.current - row.projected, 10)

\* Every row has one team that reads it: the one that claims the group of its
\* resource, however it is spelled in the tag and in the routes, and the
\* catch-all if there is none or nobody claims it.
OneTeam ==
    \A i \in DOMAIN rows : \E r \in Routes :
        /\ Reads(r, rows[i])
        /\ \A s \in Routes :
               /\ Reads(s, rows[i]) => s = r
               /\ rows[i].group.lower \in {g.lower : g \in Claims[s]} => s = r
=============================================================================
