--------------------------- MODULE Findings_proofs ---------------------------
(***************************************************************************)
(* What the rows of findings say, for any readings, thresholds, prices,    *)
(* routes and recommendations.                                             *)
(*                                                                         *)
(* The prices rest on Remembered: what the cache holds for a key is the    *)
(* answer to the one call for it, so a row built from the cache is as true *)
(* as the one that asked.                                                  *)
(***************************************************************************)
EXTENDS Findings, WellFoundedInduction, TLAPS

-----------------------------------------------------------------------------
(* Numbers.                                                                *)

\* Quotient and remainder, of negative numbers too.
LEMMA DivMod ==
    ASSUME NEW n \in Int, NEW d \in Nat \ {0}
    PROVE  /\ n \div d \in Int /\ n % d \in Nat /\ n % d < d
           /\ n = (d * (n \div d)) + (n % d)
  OBVIOUS

\* A rounded fraction is the cent below it or the next one, the nearer of both.
LEMMA RoundIs ==
    ASSUME NEW num \in Int, NEW den \in Nat \ {0}
    PROVE  \E q \in Int, rest \in Nat :
               /\ rest < 10 * den
               /\ num = (10 * (den * q)) + rest
               /\ \/ Round(num, den) = 10 * q /\ rest <= 5 * den
                  \/ Round(num, den) = 10 * (q + 1) /\ rest >= 5 * den
<1> DEFINE q    == num \div (10 * den)
           rest == num % (10 * den)
<1>1. 10 * den \in Nat \ {0}
  OBVIOUS
<1>2. /\ q \in Int /\ rest \in Nat /\ rest < 10 * den
      /\ num = ((10 * den) * q) + rest
  BY ONLY <1>1, DivMod, num \in Int
<1>3. (10 * den) * q = 10 * (den * q)
  BY <1>2
<1>4. \/ Round(num, den) = 10 * q /\ rest <= 5 * den
      \/ Round(num, den) = 10 * (q + 1) /\ rest >= 5 * den
  <2> DEFINE up == rest > 5 * den \/ (rest = 5 * den /\ q % 2 = 1)
  <2>1. Round(num, den) = IF up THEN 10 * (q + 1) ELSE 10 * q
    BY DEF Round
  <2>2. up => rest >= 5 * den
    BY <1>2
  <2>3. ~up => rest <= 5 * den
    BY <1>2
  <2> HIDE DEF up, q, rest
  <2> QED
    BY <2>1, <2>2, <2>3
<1> HIDE DEF q, rest
<1> QED
  BY <1>2, <1>3, <1>4

\* It is off by half a cent at most.
LEMMA RoundNear ==
    ASSUME NEW num \in Int, NEW den \in Nat \ {0}
    PROVE  /\ Round(num, den) \in Int
           /\ Near(Round(num, den) * den, num, 5 * den)
<1>1. PICK q \in Int, rest \in Nat :
               /\ rest < 10 * den
               /\ num = (10 * (den * q)) + rest
               /\ \/ Round(num, den) = 10 * q /\ rest <= 5 * den
                  \/ Round(num, den) = 10 * (q + 1) /\ rest >= 5 * den
  BY RoundIs
<1> DEFINE X == den * q
<1>2. X \in Int /\ num = (10 * X) + rest
  BY <1>1
<1>3. (10 * q) * den = 10 * X
  OBVIOUS
<1>4. (10 * (q + 1)) * den = (10 * X) + (10 * den)
  OBVIOUS
<1> HIDE DEF X
<1>5. CASE Round(num, den) = 10 * q /\ rest <= 5 * den
  BY <1>2, <1>3, <1>5 DEF Near
<1>6. CASE Round(num, den) = 10 * (q + 1) /\ rest >= 5 * den
  BY <1>1, <1>2, <1>4, <1>6 DEF Near
<1> QED
  BY <1>1, <1>5, <1>6

\* An amount in tenths of a cent is rounded to the nearest whole cent.
LEMMA RoundInt ==
    ASSUME NEW num \in Int
    PROVE  /\ Round(num, 1) \in Int /\ Near(Round(num, 1), num, 5)
           /\ \E c \in Int : Round(num, 1) = 10 * c
<1>1. Round(num, 1) \in Int /\ Near(Round(num, 1) * 1, num, 5 * 1)
  BY RoundNear
<1>2. \E c \in Int : Round(num, 1) = 10 * c
  BY RoundIs
<1> QED
  BY <1>1, <1>2 DEF Near

\* A non-empty set of naturals has a least element.
LEMMA LeastNatural ==
    ASSUME NEW S \in SUBSET Nat, S # {}
    PROVE  \E m \in S : \A n \in S : m <= n
<1>1. PICK m \in S : \A n \in S : <<n, m>> \notin OpToRel(<, Nat)
  BY NatLessThanWellFounded, WFMin
<1>2. \A n \in S : ~(n < m)
  BY <1>1 DEF OpToRel
<1> QED
  BY <1>2

\* The monthly price is that of the cheapest eligible offer.
LEMMA MonthlyPriceIs ==
    ASSUME NEW offers \in SUBSET Offers, NEW os \in Oses
    PROVE  /\ Eligible(offers, os) = {} => MonthlyPrice(offers, os) = None
           /\ Eligible(offers, os) # {} =>
                  /\ MonthlyPrice(offers, os) \in Nat
                  /\ \E o \in Eligible(offers, os) :
                         MonthlyPrice(offers, os) = 73 * o.unit
                  /\ \A o \in Eligible(offers, os) :
                         MonthlyPrice(offers, os) <= 73 * o.unit
<1>1. ASSUME Eligible(offers, os) = {} PROVE MonthlyPrice(offers, os) = None
  BY <1>1 DEF MonthlyPrice
<1>2. ASSUME Eligible(offers, os) # {}
      PROVE  /\ MonthlyPrice(offers, os) \in Nat
             /\ \E o \in Eligible(offers, os) :
                    MonthlyPrice(offers, os) = 73 * o.unit
             /\ \A o \in Eligible(offers, os) :
                    MonthlyPrice(offers, os) <= 73 * o.unit
  <2> DEFINE E == Eligible(offers, os)
             U == {o.unit : o \in E}
             Least(u) == \A o \in E : u <= o.unit
             low == CHOOSE u \in U : Least(u)
  <2>1. \A o \in E : o.unit \in Nat
    BY ValuesAssumption DEF Eligible, Offers
  <2>2. U \in SUBSET Nat /\ U # {}
    BY <1>2, <2>1
  <2>3. \E u \in U : \A v \in U : u <= v
    BY <2>2, LeastNatural
  <2>4. \E u \in U : Least(u)
    BY <2>3
  <2>5. low \in U /\ Least(low)
    BY <2>4
  <2>6. MonthlyPrice(offers, os) = 73 * low
    BY <1>2 DEF MonthlyPrice
  <2> HIDE DEF low
  <2>7. PICK o \in E : low = o.unit
    BY <2>5
  <2>8. low \in Nat
    BY <2>1, <2>7
  <2>9. \A p \in E : 73 * low <= 73 * p.unit
    BY <2>1, <2>5, <2>8
  <2> QED
    BY <2>6, <2>7, <2>8, <2>9
<1> QED
  BY <1>1, <1>2

\* Prices, costs and savings are amounts or missing.
LEMMA MonthlyPriceType ==
    ASSUME NEW offers \in SUBSET Offers, NEW os \in Oses
    PROVE  MonthlyPrice(offers, os) \in Amounts
  BY MonthlyPriceIs DEF Amounts

\* So is what a row shows of a price.
LEMMA MoneyType ==
    ASSUME NEW a \in Amounts
    PROVE  Money(a) \in Amounts
  BY RoundInt DEF Money, Amounts

\* And the difference of two of them.
LEMMA SavingType ==
    ASSUME NEW a \in Amounts, NEW b \in Amounts
    PROVE  Saving(a, b) \in Amounts
  BY DEF Saving, Amounts
-----------------------------------------------------------------------------
(* Types.                                                                  *)

\* Whatever key is asked for, there is a set of offers to answer with.
LEMMA OffersType ==
    ASSUME catalog \in Catalogs \cup {NoOffers}, NEW k \in Keys
    PROVE  catalog[k.sku] \in SUBSET Offers /\ k.os \in Oses
<1>1. k.sku \in Skus /\ k.os \in Oses
  BY DEF Keys
<1>2. CASE catalog \in Catalogs
  BY <1>1, <1>2, ValuesAssumption
<1>3. CASE catalog = NoOffers
  BY <1>1, <1>3 DEF NoOffers
<1> QED
  BY <1>1, <1>2, <1>3

\* Which keys are wanted.
LEMMA WantedIs ==
    ASSUME NEW rec \in Recommendations
    PROVE  LET own  == [sku |-> rec.sku, os |-> rec.os]
               next == [sku |-> rec.target, os |-> rec.os]
           IN  /\ own \in Keys
               /\ rec.target # None => next \in Keys
               /\ ~rec.priced => Wanted(rec) = <<>>
               /\ rec.priced /\ rec.target = None => Wanted(rec) = <<own>>
               /\ rec.priced /\ rec.target # None => Wanted(rec) = <<own, next>>
  BY DEF Wanted, Recommendations, Keys

\* The recommendation at work is one of those that recommenders make.
LEMMA RecType ==
    ASSUME TypeOK, ~Idle
    PROVE  Rec \in Recommendations
<1>1. Len(advised) \in 1..Len(advised)
  BY DEF TypeOK, Idle
<1>2. Rec \in Advice
  BY <1>1 DEF TypeOK, Rec
<1> QED
  BY <1>2, ValuesAssumption

\* The initial state is well typed.
LEMMA TypeInit == Init => TypeOK
<1> SUFFICES ASSUME Init PROVE TypeOK
  OBVIOUS
<1>1. mode \in {"ops", "finops"} /\ catalog \in Catalogs \cup {NoOffers}
  BY DEF Init
<1>2. last = NotEvaluated /\ advised = <<>> /\ rows = <<>> /\ got = <<>>
  BY DEF Init
<1>3. cache \in [Keys -> Amounts \cup {Absent}] /\ asked \in [Keys -> Nat]
  BY DEF Init
<1>4. failed = {} /\ lost = FALSE
  BY DEF Init
<1>5. /\ advised \in Seq(Advice) /\ rows \in Seq(HotRows \cup ColdRows)
      /\ got \in Seq(Amounts)
  BY <1>2
<1> QED
  BY <1>1, <1>2, <1>3, <1>4, <1>5 DEF TypeOK

\* Every step keeps the types.
LEMMA TypeNext ==
    ASSUME TypeOK, [Next]_vars
    PROVE  TypeOK'
<1> USE DEF TypeOK
<1>1. ASSUME NEW value \in Values, NEW threshold \in Limits,
             NEW above \in BOOLEAN, NEW group \in Names \cup {NoGroup},
             EvaluateHot(value, threshold, above, group)
      PROVE  TypeOK'
  <2> DEFINE hot == Breached(value, threshold, above)
             row == [group |-> group, threshold |-> threshold,
                     observed |-> Round(value.num, value.den)]
  <2>0. threshold \in Int /\ 1..MaxPoints \subseteq Nat \ {0}
    BY ValuesAssumption
  <2>1. value \in [num : Nat, den : Nat \ {0}]
    BY <2>0, ValuesAssumption DEF Values
  <2>2. Round(value.num, value.den) \in Int
    BY <2>1, RoundNear
  <2>3. hot \in BOOLEAN
    BY Zenon DEF Breached
  <2>4. row \in HotRows
    BY <2>2 DEF HotRows
  <2> HIDE DEF hot, row
  <2>5. last' = [reported |-> hot, value |-> value, threshold |-> threshold,
                 above |-> above]
    BY <1>1 DEF EvaluateHot, hot
  <2>6. rows' = IF hot THEN Append(rows, row) ELSE rows
    BY <1>1 DEF EvaluateHot, hot, row
  <2>7. rows' \in Seq(HotRows \cup ColdRows)
    BY <2>4, <2>6
  <2>8. UNCHANGED <<mode, catalog, advised, got, cache, asked, failed, lost>>
    BY <1>1 DEF EvaluateHot
  <2> QED
    BY <2>1, <2>3, <2>5, <2>7, <2>8
<1>2. ASSUME NEW rec \in Advice, Recommend(rec) PROVE TypeOK'
  BY <1>2 DEF Recommend
<1>3. ASSUME NEW key \in Keys, PriceFromCache(key) PROVE TypeOK'
  <2>1. cache[key] \in Amounts
    BY <1>3 DEF PriceFromCache, Key
  <2> QED
    BY <1>3, <2>1 DEF PriceFromCache, Key
<1>4. ASSUME NEW key \in Keys, NEW price \in Amounts, Learn(key, price),
             failed' \subseteq Keys
      PROVE  TypeOK'
  <2>1. cache' \in [Keys -> Amounts \cup {Absent}] /\ asked' \in [Keys -> Nat]
    BY <1>4 DEF Learn, Key
  <2>2. got' \in Seq(Amounts)
    BY <1>4 DEF Learn
  <2> QED
    BY <1>4, <2>1, <2>2 DEF Learn
<1>5. ASSUME NEW key \in Keys, PriceAnswered(key) PROVE TypeOK'
  BY <1>4, <1>5, OffersType, MonthlyPriceType DEF PriceAnswered
<1>6. ASSUME NEW key \in Keys, PriceFails(key) PROVE TypeOK'
  BY <1>4, <1>6 DEF PriceFails, Amounts
<1>7. ASSUME NEW key \in Keys, PriceRaises(key) PROVE TypeOK'
  BY <1>7 DEF PriceRaises
<1>8. CASE FinopsRow
  <2> DEFINE current   == IF Len(got) >= 1 THEN got[1] ELSE None
             projected == IF Len(got) = 2 THEN got[2] ELSE None
             row == [group     |-> Rec.group,
                     current   |-> Money(current),
                     projected |-> Money(projected),
                     saving    |-> Money(Saving(current, projected))]
  <2>1. current \in Amounts /\ projected \in Amounts
    BY DEF Amounts
  <2>2. Rec.group \in Names \cup {NoGroup}
    BY <1>8, RecType DEF FinopsRow, Recommendations
  <2> HIDE DEF current, projected
  <2>3. row \in ColdRows
    BY <2>1, <2>2, MoneyType, SavingType DEF ColdRows
  <2>4. rows' = Append(rows, row)
    BY <1>8 DEF FinopsRow, current, projected
  <2> HIDE DEF row
  <2>5. rows' \in Seq(HotRows \cup ColdRows)
    BY <2>3, <2>4
  <2> QED
    BY <1>8, <2>5 DEF FinopsRow
<1>9. CASE UNCHANGED vars
  BY <1>9 DEF vars
<1> QED
  BY <1>1, <1>2, <1>3, <1>5, <1>6, <1>7, <1>8, <1>9 DEF Next

\* Findings, prices and rows stay well-typed for any readings and prices.
THEOREM TypeCorrect == Spec => []TypeOK
  BY TypeInit, TypeNext, PTL DEF Spec
-----------------------------------------------------------------------------
(* Teams.                                                                  *)

\* A row is read by exactly one route: the one that claims its group, or else
\* the catch-all.
LEMMA TeamOfRow ==
    ASSUME NEW row, row.group \in Names \cup {NoGroup}
    PROVE  \E r \in Routes :
               /\ Reads(r, row)
               /\ \A s \in Routes :
                      /\ Reads(s, row) => s = r
                      /\ row.group.lower \in {g.lower : g \in Claims[s]} => s = r
<1> USE RoutesAssumption
<1>1. CASE \E r \in Routes : In(row.group, Claims[r])
  <2>1. PICK r \in Routes : In(row.group, Claims[r])
    BY <1>1
  <2>2. In(row.group, UNION {Claims[s] : s \in Routes})
    BY <2>1 DEF In
  <2>3. ASSUME NEW s \in Routes, In(row.group, Claims[s]) PROVE s = r
    BY <2>1, <2>3 DEF In
  <2>4. \A s \in Routes : Reads(s, row) => s = r
    BY <2>2, <2>3 DEF Reads
  <2>5. ASSUME NEW s \in Routes,
               row.group.lower \in {g.lower : g \in Claims[s]}
        PROVE  s = r
    BY <2>3, <2>5 DEF In
  <2> QED
    BY <2>1, <2>4, <2>5 DEF Reads
<1>2. CASE \A r \in Routes : ~In(row.group, Claims[r])
  <2>1. ~In(row.group, UNION {Claims[r] : r \in Routes})
    BY <1>2 DEF In
  <2>2. \A s \in Routes : Reads(s, row) <=> s = CatchAll
    BY <1>2, <2>1 DEF Reads
  <2>3. \A s \in Routes : row.group.lower \notin {g.lower : g \in Claims[s]}
    BY <1>2 DEF In
  <2> QED
    BY <2>2, <2>3
<1> QED
  BY <1>1, <1>2

\* Whatever the routes claim and however a tag is spelled, a row has one team.
THEOREM OneTeamReads == Spec => []OneTeam
<1>1. ASSUME TypeOK PROVE OneTeam
  <2>1. \A i \in DOMAIN rows : rows[i].group \in Names \cup {NoGroup}
    BY <1>1 DEF TypeOK, HotRows, ColdRows
  <2> QED
    BY <2>1, TeamOfRow DEF OneTeam
<1> QED
  BY <1>1, TypeCorrect, PTL
-----------------------------------------------------------------------------
(* Breaches.                                                               *)

\* Both sides of a comparison may be multiplied by a natural number.
LEMMA Times ==
    ASSUME NEW a \in Int, NEW b \in Int, NEW d \in Nat, a <= b
    PROVE  a * d <= b * d /\ a * d \in Int /\ b * d \in Int
  OBVIOUS

\* What an x on the other side of a threshold says of num / den, if x is the
\* cent below it or the next one.
LEMMA OtherSide ==
    ASSUME NEW num \in Int, NEW den \in Nat \ {0}, NEW th \in Int,
           NEW q \in Int, NEW rest \in Nat, NEW x \in Int,
           num = (10 * (den * q)) + rest,
           \/ x = 10 * q /\ rest <= 5 * den
           \/ x = 10 * (q + 1) /\ rest >= 5 * den,
           rest < 10 * den
    PROVE  /\ x < th => /\ num < (th + 5) * den
                        /\ th % 10 = 0 => num < th * den
           /\ x > th => /\ num > (th - 5) * den
                        /\ th % 10 = 0 => num > th * den
<1> DEFINE T == th * den
           X == x * den
           Q == den * q
<1>1. T \in Int /\ X \in Int /\ Q \in Int
  OBVIOUS
<1>2. (th + 5) * den = T + 5 * den /\ (th - 5) * den = T - 5 * den
  OBVIOUS
<1>3. \/ X = 10 * Q /\ rest <= 5 * den
      \/ X = (10 * Q) + (10 * den) /\ rest >= 5 * den
  OBVIOUS
<1>4. x < th => X + den <= T
  <2>1. ASSUME x + 1 <= th PROVE (x + 1) * den <= th * den
    BY <2>1, Times
  <2>2. (x + 1) * den = X + den
    OBVIOUS
  <2> QED
    BY <2>1, <2>2
<1>5. x > th => T + den <= X
  <2>1. ASSUME th + 1 <= x PROVE (th + 1) * den <= x * den
    BY <2>1, Times
  <2>2. (th + 1) * den = T + den
    OBVIOUS
  <2> QED
    BY <2>1, <2>2
<1>6. ASSUME th % 10 = 0
      PROVE  /\ x < th => num < T
             /\ x > th => num > T
  <2>0. PICK c \in Int : th = 10 * c
    <3>1. th = 10 * (th \div 10) + (th % 10) /\ th \div 10 \in Int
      OBVIOUS
    <3> QED
      BY <3>1, <1>6
  <2> DEFINE C == den * c
  <2>1. T = 10 * C /\ C \in Int
    BY <2>0
  <2>2. x < th => q + 1 <= c
    BY <2>0
  <2>3. x > th => c <= q /\ (c + 1 <= q \/ rest >= 5 * den)
    BY <2>0
  <2>4. q + 1 <= c => Q + den <= C
    <3>1. ASSUME q + 1 <= c PROVE (q + 1) * den <= c * den
      BY <3>1, Times
    <3> QED
      BY <3>1
  <2>5. c <= q => C <= Q
    <3>1. ASSUME c <= q PROVE c * den <= q * den
      BY <3>1, Times
    <3> QED
      BY <3>1
  <2>6. c + 1 <= q => C + den <= Q
    <3>1. ASSUME c + 1 <= q PROVE (c + 1) * den <= q * den
      BY <3>1, Times
    <3> QED
      BY <3>1
  <2>7. num = 10 * Q + rest
    OBVIOUS
  <2> HIDE DEF C, T, Q
  <2> QED
    BY ONLY <1>1, <2>1, <2>2, <2>3, <2>4, <2>5, <2>6, <2>7, rest < 10 * den,
            rest \in Nat, den \in Nat \ {0}, num \in Int
<1>7. num = 10 * Q + rest
  OBVIOUS
<1> HIDE DEF T, X, Q
<1> QED
  <2>1. x < th => num < T + 5 * den
    BY ONLY <1>1, <1>3, <1>4, <1>7, rest < 10 * den, rest \in Nat,
            den \in Nat \ {0}, num \in Int
  <2>2. x > th => num > T - 5 * den
    BY ONLY <1>1, <1>3, <1>5, <1>7, rest < 10 * den, rest \in Nat,
            den \in Nat \ {0}, num \in Int
  <2> QED
    BY <1>2, <1>6, <2>1, <2>2 DEF T

\* The ops mode advises nothing, the finops mode tests no threshold.
OneMode ==
    /\ mode = "ops" => advised = <<>>
    /\ mode = "finops" => last = NotEvaluated

\* The row of a hot metric shows its breach.
LEMMA HotRow ==
    ASSUME TypeOK, NEW value \in Values, NEW threshold \in Limits,
           NEW above \in BOOLEAN, NEW group \in Names \cup {NoGroup},
           EvaluateHot(value, threshold, above, group)
    PROVE  BreachShown'
<1> DEFINE hot == Breached(value, threshold, above)
           x   == Round(value.num, value.den)
           row == [group |-> group, threshold |-> threshold, observed |-> x]
<1>0. threshold \in Int /\ value.num \in Int /\ value.den \in Nat \ {0}
  <2>1. Sums \subseteq Int /\ 1..MaxPoints \subseteq Nat \ {0}
    BY ValuesAssumption
  <2> QED
    BY <2>1, ValuesAssumption DEF Values
<1> HIDE DEF hot, x, row
<1>1. x \in Int /\ Near(x * value.den, value.num, 5 * value.den)
  BY <1>0, RoundNear, Zenon DEF x
<1>2. hot <=> (above /\ x >= threshold) \/ (~above /\ x <= threshold)
  BY DEF Breached, hot, x
<1>3. /\ x < threshold =>
             /\ value.num < (threshold + 5) * value.den
             /\ threshold % 10 = 0 => value.num < threshold * value.den
      /\ x > threshold =>
             /\ value.num > (threshold - 5) * value.den
             /\ threshold % 10 = 0 => value.num > threshold * value.den
  <2> DEFINE n == value.num
             d == value.den
  <2>1. PICK q \in Int, rest \in Nat :
               /\ rest < 10 * d
               /\ n = (10 * (d * q)) + rest
               /\ \/ x = 10 * q /\ rest <= 5 * d
                  \/ x = 10 * (q + 1) /\ rest >= 5 * d
    BY <1>0, RoundIs, Zenon DEF x
  <2> QED
    BY <1>0, <1>1, <2>1, OtherSide, Zenon
<1>4. last' = [reported |-> hot, value |-> value, threshold |-> threshold,
               above |-> above]
  BY DEF EvaluateHot, hot
<1>5. /\ last'.reported = hot /\ last'.value = value
      /\ last'.threshold = threshold /\ last'.above = above
  BY <1>4
<1>6. CASE hot
  <2>1. rows' = Append(rows, row)
    BY <1>6 DEF EvaluateHot, hot, row, x
  <2>2. rows'[Len(rows')] = row
    BY <2>1 DEF TypeOK
  <2>3. row.threshold = threshold /\ row.observed = x
    BY DEF row
  <2>4. IF above THEN x >= threshold ELSE x <= threshold
    BY <1>2, <1>6
  <2> QED
    BY <1>1, <1>5, <1>6, <2>2, <2>3, <2>4 DEF BreachShown
<1>7. CASE ~hot
  <2>1. IF above THEN x < threshold ELSE x > threshold
    BY <1>0, <1>1, <1>2, <1>7
  <2>2. CASE above
    BY <1>3, <1>5, <1>7, <2>1, <2>2 DEF BreachShown
  <2>3. CASE ~above
    BY <1>3, <1>5, <1>7, <2>1, <2>3 DEF BreachShown
  <2> QED
    BY <2>2, <2>3
<1> QED
  BY <1>6, <1>7

\* Every step keeps the breaches shown and the modes apart.
LEMMA BreachNext ==
    ASSUME TypeOK, OneMode, BreachShown, [Next]_vars
    PROVE  OneMode' /\ BreachShown'
<1>1. ASSUME NEW value \in Values, NEW threshold \in Limits,
             NEW above \in BOOLEAN, NEW group \in Names \cup {NoGroup},
             EvaluateHot(value, threshold, above, group)
      PROVE  OneMode' /\ BreachShown'
  <2>1. BreachShown'
    BY <1>1, HotRow
  <2>2. OneMode'
    BY <1>1 DEF EvaluateHot, OneMode
  <2> QED
    BY <2>1, <2>2
<1>2. ASSUME mode = "finops", UNCHANGED <<mode, last>>
      PROVE  OneMode' /\ BreachShown'
  BY <1>2 DEF OneMode, BreachShown
<1>3. ~Idle => mode = "finops"
  BY DEF Idle, OneMode, TypeOK
<1>4. ASSUME NEW rec \in Advice, Recommend(rec)
      PROVE  OneMode' /\ BreachShown'
  BY <1>2, <1>4 DEF Recommend
<1>5. ASSUME NEW key \in Keys,
             PriceFromCache(key) \/ PriceAnswered(key) \/ PriceFails(key)
             \/ PriceRaises(key)
      PROVE  OneMode' /\ BreachShown'
  BY <1>2, <1>3, <1>5
     DEF PriceFromCache, PriceAnswered, PriceFails, PriceRaises, Learn, Asks
<1>6. CASE FinopsRow
  BY <1>2, <1>3, <1>6 DEF FinopsRow
<1>7. CASE UNCHANGED vars
  BY <1>7 DEF vars, OneMode, BreachShown
<1> QED
  BY <1>1, <1>4, <1>5, <1>6, <1>7 DEF Next

\* For any readings, thresholds and lengths of windows, an ops row is true.
THEOREM BreachesShown == Spec => []BreachShown
<1>1. Init => OneMode /\ BreachShown
  BY DEF Init, OneMode, BreachShown
<1> QED
  BY <1>1, BreachNext, TypeCorrect, PTL DEF Spec
-----------------------------------------------------------------------------
(* Costs.                                                                  *)

\* A true answer to the call for a key, where prices are those of cat and the
\* calls for the keys in bad failed.
Honest(price, key, cat, bad) ==
    LET offers == Eligible(cat[key.sku], key.os)
    IN  IF price = None THEN offers = {} \/ key \in bad
        ELSE /\ price \in Int
             /\ \E o \in offers : price = 73 * o.unit
             /\ \A o \in offers : price <= 73 * o.unit

\* CostShown, and the rest of a true finops row.
CostHonest(shown, key, cat, bad) ==
    LET offers == Eligible(cat[key.sku], key.os)
    IN  IF shown = None THEN offers = {} \/ key \in bad
        ELSE /\ \E o \in offers : Near(shown, 73 * o.unit, 5)
             /\ \A o \in offers : shown <= (73 * o.unit) + 5

RowHonest(rec, row, cat, bad) ==
    /\ IF rec.priced
       THEN CostHonest(row.current, [sku |-> rec.sku, os |-> rec.os], cat, bad)
       ELSE row.current = None
    /\ IF rec.priced /\ rec.target # None
       THEN CostHonest(row.projected, [sku |-> rec.target, os |-> rec.os],
                       cat, bad)
       ELSE row.projected = None
    /\ IF None \in {row.current, row.projected}
       THEN row.saving = None
       ELSE /\ row.saving # None
            /\ Near(row.saving, row.current - row.projected, 10)

\* The cache holds the answer to the one call for a key, and the prices of the
\* row in the making are answers.
Remembered ==
    /\ \A k \in Keys :
           /\ asked[k] <= 1
           /\ cache[k] = Absent <=> asked[k] = 0
           /\ cache[k] # Absent => Honest(cache[k], k, catalog, failed)
    /\ ~lost /\ ~Idle =>
           /\ Len(got) <= Len(Wanted(Rec))
           /\ \A j \in 1..Len(got) : Honest(got[j], Wanted(Rec)[j], catalog, failed)
    /\ mode = "finops" =>
           /\ Len(rows) <= Len(advised)
           /\ ~lost => Len(advised) <= Len(rows) + 1
           /\ lost => rows = <<>>
           /\ \A i \in DOMAIN rows : RowHonest(advised[i], rows[i], catalog, failed)

\* At first nothing is remembered.
LEMMA RememberedInit == Init => Remembered
  BY DEF Init, Remembered, Idle

\* What is remembered honestly is shown honestly.
LEMMA RememberedHonest ==
    ASSUME Remembered
    PROVE  CostsHonest
<1>1. \A k \in Keys : asked[k] <= 1
  BY DEF Remembered
<1>2. ASSUME NEW shown, NEW k, CostHonest(shown, k, catalog, failed)
      PROVE  CostShown(shown, k)
  BY <1>2 DEF CostHonest, CostShown, Eligible
<1>3. ASSUME mode = "finops", NEW i \in DOMAIN rows
      PROVE  RowHonest(advised[i], rows[i], catalog, failed)
  BY <1>3 DEF Remembered
<1> QED
  BY <1>1, <1>2, <1>3 DEF CostsHonest, RowHonest

\* What is true stays true while the service keeps its prices.
LEMMA StaysHonest ==
    ASSUME NEW cat, NEW bad, NEW bad2, bad \subseteq bad2
    PROVE  /\ \A price, k : Honest(price, k, cat, bad)
                                => Honest(price, k, cat, bad2)
           /\ \A rec, row : RowHonest(rec, row, cat, bad)
                                => RowHonest(rec, row, cat, bad2)
<1>1. ASSUME NEW price, NEW k, Honest(price, k, cat, bad)
      PROVE  Honest(price, k, cat, bad2)
  BY <1>1 DEF Honest
<1>2. ASSUME NEW shown, NEW k, CostHonest(shown, k, cat, bad)
      PROVE  CostHonest(shown, k, cat, bad2)
  BY <1>2 DEF CostHonest
<1>3. ASSUME NEW rec, NEW row, RowHonest(rec, row, cat, bad)
      PROVE  RowHonest(rec, row, cat, bad2)
  BY <1>2, <1>3 DEF RowHonest
<1> QED
  BY <1>1, <1>3

\* Rounding a true price shows a true cost.
LEMMA MoneyHonest ==
    ASSUME NEW price, NEW k \in Keys, NEW cat, NEW bad,
           Honest(price, k, cat, bad), cat[k.sku] \in SUBSET Offers
    PROVE  CostHonest(Money(price), k, cat, bad)
<1> DEFINE offers == Eligible(cat[k.sku], k.os)
<1>1. \A o \in offers : o.unit \in Nat
  BY ValuesAssumption DEF Eligible, Offers
<1>2. CASE price = None
  BY <1>2 DEF Honest, Money, CostHonest
<1>3. CASE price # None
  <2>1. /\ price \in Int
        /\ \E o \in offers : price = 73 * o.unit
        /\ \A o \in offers : price <= 73 * o.unit
    BY <1>3 DEF Honest
  <2>2. /\ Money(price) \in Int /\ Money(price) # None
        /\ Near(Money(price), price, 5)
    BY <1>3, <2>1, RoundInt, ValuesAssumption DEF Money
  <2> HIDE DEF offers
  <2>3. \E o \in offers : Near(Money(price), 73 * o.unit, 5)
    BY <2>1, <2>2
  <2>4. \A o \in offers : Money(price) <= (73 * o.unit) + 5
    BY <1>1, <2>1, <2>2 DEF Near
  <2> QED
    BY <2>2, <2>3, <2>4 DEF CostHonest, offers
<1> QED
  BY <1>2, <1>3

\* The saving is within a cent of the difference of the costs.
LEMMA SavingHonest ==
    ASSUME NEW a \in Amounts, NEW b \in Amounts
    PROVE  /\ None \in {Money(a), Money(b)} => Money(Saving(a, b)) = None
           /\ None \notin {Money(a), Money(b)} =>
                  /\ Money(Saving(a, b)) # None
                  /\ Near(Money(Saving(a, b)), Money(a) - Money(b), 10)
<1>1. \A c \in Amounts : Money(c) = None <=> c = None
  BY RoundInt, ValuesAssumption DEF Money, Amounts
<1>2. CASE None \in {a, b}
  BY <1>1, <1>2 DEF Saving, Money
<1>3. CASE None \notin {a, b}
  <2>1. a \in Int /\ b \in Int
    BY <1>3 DEF Amounts
  <2>2. Saving(a, b) = a - b /\ a - b \in Int /\ a - b # None
    BY <1>3, <2>1, ValuesAssumption DEF Saving
  <2>3. /\ Money(a) = Round(a, 1) /\ Money(b) = Round(b, 1)
        /\ Money(Saving(a, b)) = Round(a - b, 1)
    BY <1>3, <2>2 DEF Money
  <2>4. PICK m \in Int : Round(a, 1) = 10 * m
    BY <2>1, RoundInt
  <2>5. PICK n \in Int : Round(b, 1) = 10 * n
    BY <2>1, RoundInt
  <2>6. PICK k \in Int : Round(a - b, 1) = 10 * k
    BY <2>2, RoundInt
  <2>7. /\ Near(10 * m, a, 5) /\ Near(10 * n, b, 5) /\ Near(10 * k, a - b, 5)
    BY <2>1, <2>2, <2>4, <2>5, <2>6, RoundInt
  <2>8. Near(10 * k, (10 * m) - (10 * n), 10)
    BY <2>1, <2>7 DEF Near
  <2>9. Money(Saving(a, b)) # None
    BY <1>1, <2>2 DEF Amounts
  <2> QED
    BY <1>1, <1>3, <2>3, <2>4, <2>5, <2>6, <2>8, <2>9
<1> QED
  BY <1>2, <1>3

\* An honest answer, whether from the cache or the service, keeps it so.
LEMMA LearnRemembers ==
    ASSUME TypeOK, Remembered, NEW key \in Keys, NEW price, Learn(key, price),
           failed \subseteq failed', Honest(price, key, catalog, failed'), price # Absent
    PROVE  Remembered'
<1>0. /\ catalog' = catalog /\ advised' = advised /\ rows' = rows
      /\ lost' = lost /\ mode' = mode
  BY DEF Learn
<1>1. /\ ~lost /\ ~Idle /\ Len(got) < Len(Wanted(Rec))
      /\ key = Wanted(Rec)[Len(got) + 1] /\ cache[key] = Absent
  BY DEF Learn, Asks, Key
<1>2. /\ got' = Append(got, price)
      /\ cache' = [cache EXCEPT ![key] = price]
      /\ asked' = [asked EXCEPT ![key] = @ + 1]
  BY DEF Learn, Key
<1>3. Rec' = Rec /\ (~Idle)'
  BY <1>0, <1>1 DEF Rec, Idle
<1>4. /\ \A p, k : Honest(p, k, catalog, failed)
                         => Honest(p, k, catalog, failed')
      /\ \A rec, row : RowHonest(rec, row, catalog, failed)
                           => RowHonest(rec, row, catalog, failed')
  BY StaysHonest
<1>5. ASSUME NEW k \in Keys
      PROVE  /\ asked'[k] <= 1
             /\ cache'[k] = Absent <=> asked'[k] = 0
             /\ cache'[k] # Absent => Honest(cache'[k], k, catalog, failed')
  <2>1. CASE k = key
    <3>1. cache'[k] = price /\ asked'[k] = asked[k] + 1 /\ asked[k] = 0
      BY <1>1, <1>2, <2>1 DEF TypeOK, Remembered
    <3> QED
      BY <2>1, <3>1
  <2>2. CASE k # key
    <3>1. cache'[k] = cache[k] /\ asked'[k] = asked[k]
      BY <1>2, <2>2 DEF TypeOK
    <3> QED
      BY <1>4, <3>1 DEF Remembered
  <2> QED
    BY <2>1, <2>2
<1>6. ASSUME NEW j \in 1..Len(got')
      PROVE  Honest(got'[j], Wanted(Rec)[j], catalog, failed')
  <2>1. Len(got') = Len(got) + 1 /\ Len(got) \in Nat
    BY <1>2 DEF TypeOK
  <2>2. CASE j = Len(got) + 1
    <3>1. got'[j] = price /\ Wanted(Rec)[j] = key
      BY <1>1, <1>2, <2>2 DEF TypeOK
    <3> QED
      BY <1>3, <3>1
  <2>3. CASE j \in 1..Len(got)
    <3>1. got'[j] = got[j]
      BY <1>2, <2>3 DEF TypeOK
    <3>2. Honest(got[j], Wanted(Rec)[j], catalog, failed)
      BY <1>1, <2>3 DEF Remembered
    <3> QED
      BY <1>3, <1>4, <3>1, <3>2
  <2> QED
    BY <2>1, <2>2, <2>3
<1>7. Len(got') <= Len(Wanted(Rec))
  BY <1>1, <1>2 DEF TypeOK
<1>8. mode' = "finops" =>
          /\ Len(rows') <= Len(advised')
          /\ ~lost' => Len(advised') <= Len(rows') + 1
          /\ lost' => rows' = <<>>
          /\ \A i \in DOMAIN rows' : RowHonest(advised'[i], rows'[i], catalog, failed')
  BY <1>0, <1>4 DEF Remembered
<1> QED
  BY <1>0, <1>3, <1>5, <1>6, <1>7, <1>8 DEF Remembered

\* The row of a recommendation whose prices are all there.
LEMMA RowRemembers ==
    ASSUME TypeOK, Remembered, OneMode, FinopsRow
    PROVE  Remembered'
<1> DEFINE a   == IF Len(got) >= 1 THEN got[1] ELSE None
           b   == IF Len(got) = 2 THEN got[2] ELSE None
           row == [group     |-> Rec.group,
                   current   |-> Money(a),
                   projected |-> Money(b),
                   saving    |-> Money(Saving(a, b))]
           own  == [sku |-> Rec.sku, os |-> Rec.os]
           next == [sku |-> Rec.target, os |-> Rec.os]
<1>0. /\ UNCHANGED <<mode, catalog, advised, got, cache, asked, failed, lost>>
      /\ ~lost /\ ~Idle /\ Len(got) = Len(Wanted(Rec))
  BY DEF FinopsRow
<1>1. Rec \in Recommendations
  BY <1>0, RecType
<1>2. /\ own \in Keys
      /\ Rec.target # None => next \in Keys
      /\ ~Rec.priced => Wanted(Rec) = <<>>
      /\ Rec.priced /\ Rec.target = None => Wanted(Rec) = <<own>>
      /\ Rec.priced /\ Rec.target # None => Wanted(Rec) = <<own, next>>
  BY <1>1, WantedIs
<1>3. \A j \in 1..Len(got) : Honest(got[j], Wanted(Rec)[j], catalog, failed)
  BY <1>0 DEF Remembered
<1>4. \A k \in Keys : catalog[k.sku] \in SUBSET Offers
  BY OffersType DEF TypeOK
<1>5. got \in Seq(Amounts)
  BY DEF TypeOK
<1>6. a \in Amounts /\ b \in Amounts
  BY <1>5 DEF Amounts
<1>7. IF Rec.priced THEN CostHonest(Money(a), own, catalog, failed)
      ELSE Money(a) = None
  <2>1. CASE Rec.priced
    <3>1. Len(got) >= 1 /\ Wanted(Rec)[1] = own
      BY <1>0, <1>2, <2>1
    <3>2. Honest(a, own, catalog, failed)
      BY <1>3, <1>5, <3>1
    <3> QED
      BY <1>2, <1>4, <2>1, <3>2, MoneyHonest
  <2>2. CASE ~Rec.priced
    BY <1>0, <1>2, <2>2 DEF Money
  <2> QED
    BY <2>1, <2>2
<1>8. IF Rec.priced /\ Rec.target # None
      THEN CostHonest(Money(b), next, catalog, failed)
      ELSE Money(b) = None
  <2>1. CASE Rec.priced /\ Rec.target # None
    <3>1. Len(got) = 2 /\ Wanted(Rec)[2] = next
      BY <1>0, <1>2, <2>1
    <3>2. Honest(b, next, catalog, failed)
      BY <1>3, <1>5, <3>1
    <3> QED
      BY <1>2, <1>4, <2>1, <3>2, MoneyHonest
  <2>2. CASE ~(Rec.priced /\ Rec.target # None)
    <3>1. Wanted(Rec) = <<>> \/ Wanted(Rec) = <<own>>
      BY <1>2, <2>2
    <3>2. Len(Wanted(Rec)) # 2
      BY <3>1, Len(<<>>) = 0, Len(<<own>>) = 1
    <3>3. Len(got) # 2
      BY <1>0, <3>2
    <3> QED
      BY <2>2, <3>3 DEF Money
  <2> QED
    BY <2>1, <2>2
<1>9. rows' = Append(rows, row)
  BY DEF FinopsRow
<1> HIDE DEF a, b
<1>10. RowHonest(Rec, row, catalog, failed)
  <2>1. /\ row.current = Money(a) /\ row.projected = Money(b)
        /\ row.saving = Money(Saving(a, b))
    OBVIOUS
  <2> HIDE DEF row
  <2> QED
    BY <1>6, <1>7, <1>8, <2>1, SavingHonest DEF RowHonest
<1> HIDE DEF row
<1>11. mode = "finops" /\ Len(advised) = Len(rows) + 1
  BY <1>0 DEF Remembered, OneMode, Idle, TypeOK
<1>12. ASSUME NEW i \in DOMAIN rows'
       PROVE  RowHonest(advised[i], rows'[i], catalog, failed)
  <2>1. DOMAIN rows' = 1..(Len(rows) + 1) /\ Len(rows) \in Nat
    BY <1>9 DEF TypeOK
  <2>2. CASE i = Len(rows) + 1
    <3>1. rows'[i] = row /\ advised[i] = Rec
      BY <1>9, <1>11, <2>2 DEF TypeOK, Rec
    <3> QED
      BY <1>10, <3>1
  <2>3. CASE i \in 1..Len(rows)
    <3>1. rows'[i] = rows[i] /\ i \in DOMAIN rows
      BY <1>9, <2>3 DEF TypeOK
    <3> QED
      BY <1>11, <3>1 DEF Remembered
  <2> QED
    BY <2>1, <2>2, <2>3
<1>13. Len(rows') = Len(advised) /\ Len(advised) \in Nat
  BY <1>9, <1>11 DEF TypeOK
<1>14. Idle'
  BY <1>0, <1>13 DEF Idle
<1>15. /\ Len(rows') <= Len(advised')
       /\ Len(advised') <= Len(rows') + 1
  BY <1>0, <1>13
<1> QED
  BY <1>0, <1>12, <1>14, <1>15 DEF Remembered

\* Every step keeps it.
LEMMA RememberedNext ==
    ASSUME TypeOK, Remembered, OneMode, [Next]_vars
    PROVE  Remembered'
<1>1. ASSUME NEW value \in Values, NEW threshold \in Limits,
             NEW above \in BOOLEAN, NEW group \in Names \cup {NoGroup},
             EvaluateHot(value, threshold, above, group)
      PROVE  Remembered'
  <2>1. /\ UNCHANGED <<mode, catalog, advised, got, cache, asked, failed, lost>>
        /\ mode = "ops" /\ advised = <<>> /\ mode # "finops"
    BY <1>1 DEF EvaluateHot, OneMode
  <2>2. Idle'
    <3>1. rows' = rows \/ \E r : rows' = Append(rows, r)
      BY <1>1 DEF EvaluateHot
    <3>2. Len(rows') \in Nat
      BY <3>1 DEF TypeOK
    <3> QED
      BY <2>1, <3>2 DEF Idle
  <2> QED
    BY <2>1, <2>2 DEF Remembered
<1>2. ASSUME NEW rec \in Advice, Recommend(rec) PROVE Remembered'
  <2>1. /\ UNCHANGED <<mode, catalog, rows, cache, asked, failed, lost>>
        /\ mode = "finops" /\ ~lost /\ Len(rows) >= Len(advised)
        /\ advised' = Append(advised, rec) /\ got' = <<>>
    BY <1>2 DEF Recommend, Idle
  <2>2. Len(rows) = Len(advised)
    BY <2>1 DEF Remembered, TypeOK
  <2>3. Len(advised') = Len(rows) + 1
    BY <2>1, <2>2 DEF TypeOK
  <2>4. ASSUME NEW i \in DOMAIN rows
        PROVE  RowHonest(advised'[i], rows[i], catalog, failed)
    <3>1. advised'[i] = advised[i]
      BY <2>1, <2>2 DEF TypeOK
    <3> QED
      BY <2>1, <3>1 DEF Remembered
  <2>5. Rec' = rec /\ rec \in Recommendations
    BY <2>1, ValuesAssumption DEF Rec, TypeOK
  <2>6. Len(Wanted(rec)) >= 0
    <3>1. \/ Wanted(rec) = <<>>
          \/ \E k \in Keys : Wanted(rec) = <<k>>
          \/ \E k, l \in Keys : Wanted(rec) = <<k, l>>
      BY <2>5, WantedIs
    <3> QED
      BY <3>1
  <2>7. Len(got') <= Len(Wanted(Rec)')
    BY <2>1, <2>5, <2>6
  <2>8. Len(rows') <= Len(advised') /\ Len(advised') <= Len(rows') + 1
    BY <2>1, <2>3 DEF TypeOK
  <2> QED
    BY <2>1, <2>4, <2>7, <2>8 DEF Remembered
<1>3. ASSUME NEW key \in Keys, PriceFromCache(key) PROVE Remembered'
  <2>1. /\ UNCHANGED <<mode, catalog, advised, rows, cache, asked, failed, lost>>
        /\ got' = Append(got, cache[key]) /\ cache[key] # Absent
        /\ ~lost /\ ~Idle /\ Len(got) < Len(Wanted(Rec))
        /\ key = Wanted(Rec)[Len(got) + 1]
    BY <1>3 DEF PriceFromCache, Asks, Key
  <2>2. Rec' = Rec
    BY <2>1 DEF Rec
  <2>3. Honest(cache[key], key, catalog, failed)
    BY <2>1 DEF Remembered
  <2>4. ASSUME NEW j \in 1..Len(got')
        PROVE  Honest(got'[j], Wanted(Rec)[j], catalog, failed)
    <3>1. Len(got') = Len(got) + 1 /\ Len(got) \in Nat
      BY <2>1 DEF TypeOK
    <3>2. CASE j = Len(got) + 1
      <4>1. got'[j] = cache[key]
        BY <2>1, <3>2 DEF TypeOK
      <4> QED
        BY <2>1, <2>3, <3>2, <4>1
    <3>3. CASE j \in 1..Len(got)
      <4>1. got'[j] = got[j]
        BY <2>1, <3>3 DEF TypeOK
      <4> QED
        BY <2>1, <3>3, <4>1 DEF Remembered
    <3> QED
      BY <3>1, <3>2, <3>3
  <2>5. Len(got') <= Len(Wanted(Rec))
    BY <2>1 DEF TypeOK
  <2> QED
    BY <2>1, <2>2, <2>4, <2>5 DEF Remembered, Idle
<1>4. ASSUME NEW key \in Keys, PriceAnswered(key) PROVE Remembered'
  <2> DEFINE price == MonthlyPrice(catalog[key.sku], key.os)
  <2>1. catalog[key.sku] \in SUBSET Offers /\ key.os \in Oses
    BY OffersType DEF TypeOK
  <2>2. price \in Amounts /\ price # Absent
    BY <2>1, MonthlyPriceType, ValuesAssumption DEF Amounts
  <2>3. \A o \in Eligible(catalog[key.sku], key.os) : o.unit \in Nat
    BY <2>1, ValuesAssumption DEF Eligible, Offers
  <2>4. Honest(price, key, catalog, failed)
    <3>1. CASE Eligible(catalog[key.sku], key.os) = {}
      BY <2>1, <3>1, MonthlyPriceIs DEF Honest
    <3>2. CASE Eligible(catalog[key.sku], key.os) # {}
      <4>1. /\ price \in Nat /\ price # None
            /\ \E o \in Eligible(catalog[key.sku], key.os) : price = 73 * o.unit
            /\ \A o \in Eligible(catalog[key.sku], key.os) :
                   price <= 73 * o.unit
        BY <2>1, <3>2, MonthlyPriceIs, ValuesAssumption
      <4> HIDE DEF price
      <4> QED
        BY <4>1 DEF Honest
    <3> QED
      BY <3>1, <3>2
  <2>5. Learn(key, price) /\ failed' = failed
    BY <1>4 DEF PriceAnswered
  <2> HIDE DEF price
  <2> QED
    BY <2>2, <2>4, <2>5, LearnRemembers
<1>5. ASSUME NEW key \in Keys, PriceFails(key) PROVE Remembered'
  <2>1. Learn(key, None) /\ failed \subseteq failed' /\ key \in failed'
    BY <1>5 DEF PriceFails
  <2>2. Honest(None, key, catalog, failed') /\ None # Absent
    BY <2>1, ValuesAssumption DEF Honest
  <2> QED
    BY <2>1, <2>2, LearnRemembers
<1>6. ASSUME NEW key \in Keys, PriceRaises(key) PROVE Remembered'
  <2>1. /\ UNCHANGED <<mode, catalog, advised, cache, asked, failed>>
        /\ lost' = TRUE /\ rows' = <<>>
    BY <1>6 DEF PriceRaises
  <2>2. Len(rows') <= Len(advised)
    BY <2>1 DEF TypeOK
  <2> QED
    BY <2>1, <2>2 DEF Remembered
<1>7. CASE FinopsRow
  BY <1>7, RowRemembers
<1>8. CASE UNCHANGED vars
  BY <1>8 DEF vars, Remembered, Idle, Rec
<1> QED
  BY <1>1, <1>2, <1>3, <1>4, <1>5, <1>6, <1>7, <1>8 DEF Next

\* For any prices, failures and order of recommendations, a finops row is true.
THEOREM CostsShown == Spec => []CostsHonest
<1>1. Init => OneMode /\ BreachShown
  BY DEF Init, OneMode, BreachShown
<1> QED
  BY <1>1, BreachNext, RememberedInit, RememberedNext, RememberedHonest,
     TypeCorrect, PTL DEF Spec
=============================================================================
