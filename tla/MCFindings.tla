----------------------------- MODULE MCFindings -----------------------------
(***************************************************************************)
(* Findings with two teams, one of which claims a group; readings and      *)
(* thresholds around a cent and a half-cent; and two SKUs whose offers     *)
(* differ in operating system, kind and price.                             *)
(***************************************************************************)
EXTENDS Findings, FiniteSetsExt

CONSTANTS g1, g2, lower, upper, r1, r2, s1, s2, nothing

MCGroups    == {g1, g2}
MCSpellings == {lower, upper}
MCRoutes    == {r1, r2}
MCClaims    == [r \in MCRoutes |->
                    IF r = r1 THEN {} ELSE {[lower |-> g1, spelling |-> upper]}]
MCSkus      == {s1, s2}

\* A tie, values on either side of one, and a whole cent; of two and three
\* points also fractions of a mill.
MCSums   == {15, 20, 24, 25, 26, 49, 50, 74, 75}
MCLimits == {20, 24}

\* 73 * 5 = 365 mills is a tie; 73 * 3 = 219 is not.
MCUnits == {3, 5}

Offer(os, excluded, unit) == [os |-> os, excluded |-> excluded, unit |-> unit]

MCCatalogs ==
    {[s \in MCSkus |-> IF s = s1 THEN offers ELSE others] :
        offers \in UNION {kSubset(n, Offers) : n \in 0..2},
        others \in {{}, {Offer("linux", FALSE, 3), Offer("windows", FALSE, 3)}}}

Vm(group, os, target) ==
    [group |-> group, sku |-> s1, os |-> os, target |-> target, priced |-> TRUE]

MCAdvice ==
    {Vm([lower |-> g1, spelling |-> lower], "linux", s2),
     Vm([lower |-> g2, spelling |-> lower], "windows", s2),
     Vm(NoGroup, "linux", nothing),
     [group |-> NoGroup, sku |-> s2, os |-> "linux", target |-> s1,
      priced |-> FALSE]}
=============================================================================
