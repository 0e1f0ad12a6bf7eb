------------------------------ MODULE RiskScore ------------------------------
(***************************************************************************)
(* The risk of an asset and of a site (backend/app/risk.py), in integers:  *)
(* a weight is counted in units of 1/1000 point.  A finding is a category  *)
(* and its weight, the product of severity, confidence and freshness; a    *)
(* KEV priority is a weight of its own.                                    *)
(***************************************************************************)
EXTENDS Integers, FiniteSets, SequencesExt

Point == 1000
MaxScore == 100 * Point

\* CATEGORY_CAPS and KEV_CATEGORY_CAP.
CapOf(c) == (CASE c = "vulnerability" -> 50 [] c = "coverage" -> 30 [] c = "kev" -> 20) * Point

\* DIMINISHING_FACTORS, in hundredths.
Diminishing(i) == CASE i = 1 -> 100 [] i = 2 -> 60 [] i = 3 -> 35 [] OTHER -> 20

AtMost(x, bound) == IF x < bound THEN x ELSE bound

Total(s, term(_)) == FoldLeftDomain(LAMBDA acc, i : acc + term(i), 0, s)

Descending(s) == SortSeq(s, >)

\* Mutant of Contribution: the first factors go to the smallest weights.
ContributionAscending(c, s) ==
    LET ordered == SortSeq(s, <)
    IN  AtMost(Total(ordered, LAMBDA i : (ordered[i] * Diminishing(i)) \div 100), CapOf(c))

\* _finding_contributions for one category: each further finding counts less, and
\* the category is capped.
Contribution(c, s) ==
    LET ordered == Descending(s)
    IN  AtMost(Total(ordered, LAMBDA i : (ordered[i] * Diminishing(i)) \div 100), CapOf(c))

\* _kev_contributions.
KevContribution(s) == AtMost(Total(s, LAMBDA i : s[i]), CapOf("kev"))

\* int(round(x)): the nearest integer, the even one of two.
Rounded(x) ==
    LET q == x \div Point
        r == x % Point
    IN  IF 2 * r > Point \/ (2 * r = Point /\ q % 2 = 1) THEN q + 1 ELSE q

\* calculate_asset_risk; w gives the weights of each category.
AssetRisk(w) ==
    LET findings == AtMost(Contribution("vulnerability", w.vulnerability)
                           + Contribution("coverage", w.coverage), MaxScore)
    IN  Rounded(AtMost(findings + KevContribution(w.kev), MaxScore))

MaxOf(s) == IF s = <<>> THEN 0 ELSE Descending(s)[1]

\* _percentile_nearest_rank(values, 0.75).
UpperQuartile(s) ==
    IF s = <<>> THEN 0 ELSE SortSeq(s, <)[(3 * Len(s) + 3) \div 4]

TopAverage(s) ==
    LET top == SubSeq(Descending(s), 1, AtMost(Len(s), 10))
    IN  IF s = <<>> THEN 0 ELSE Total(top, LAMBDA i : top[i] * Point) \div Len(top)

\* calculate_site_risk; direct is the contribution of the site's own findings.
SiteRisk(scores, direct) ==
    LET portfolio == (MaxOf(scores) * Point * 50 + UpperQuartile(scores) * Point * 30
                      + TopAverage(scores) * 20) \div 100
        component == (((MaxScore - portfolio) \div 100) * direct * 35) \div (100 * Point)
    IN  AtMost(Rounded(portfolio + component), 100)

--------------------------------------------------------------------------------
(* Properties.                                                             *)

\* One more finding never lowers the risk of an asset, wherever it sorts in; the
\* risk is a score.
RiskGrows(w, c, x) ==
    /\ AssetRisk(w) \in 0..100
    /\ AssetRisk([w EXCEPT ![c] = Append(@, x)]) >= AssetRisk(w)

\* The risk of a site stays between half of its riskiest asset's and 100; its own
\* findings only raise it, by at most 35 of each 100 points that are left.
SiteBetween(scores, direct) ==
    LET risk == SiteRisk(scores, direct)
        calm == SiteRisk(scores, 0)
    IN  /\ risk \in 0..100
        /\ 2 * calm >= MaxOf(scores) - 1 /\ calm <= MaxOf(scores)
        /\ risk >= calm /\ 100 * (risk - calm) <= 35 * (100 - calm) + 100
================================================================================
