------------------------------ MODULE FactorPack ------------------------------
(***************************************************************************)
(* research/factor_engine.py: the accounting factors of a report, computed *)
(* from two annual periods; and research/financial_input_safety.py, which  *)
(* selects the filed facts they may be computed from.                      *)
(*                                                                         *)
(* A figure that may be missing is a set of at most one value.  Ratios are *)
(* in thousandths, rounded down, as are the parts of a score.              *)
(***************************************************************************)
EXTENDS Figures, FiniteSets, Sequences

CONSTANTS
    FactorYears,   \* the figures of "now" and "before"
    FactorChoices, \* what a figure may be revised to, for each of its names
    FiledFacts,    \* the facts that may be filed
    MaxFactorSteps \* bound on revisions, and on filed facts

\* Total assets are no negative amount; of nothing else is the sign taken for granted.
ASSUME FactorAssumption ==
    /\ {"now", "before"} \subseteq DOMAIN FactorYears
    /\ \A y \in DOMAIN FactorYears : \A n \in DOMAIN FactorYears[y] :
          FactorYears[y][n] \in (IF n = "TOTAL_ASSETS" THEN Nat ELSE Int)
    /\ \A n \in DOMAIN FactorChoices : FactorChoices[n] \subseteq (IF n = "TOTAL_ASSETS" THEN Nat ELSE Int)
    /\ \A f \in FiledFacts : f.rank \in Int

VARIABLES
    factors,   \* the figures of the two periods
    filed,     \* facts of one company
    factorSteps

factorVars == <<factors, filed, factorSteps>>

Missing == {}
Fact(y, name) == IF name \in DOMAIN y THEN {y[name]} ELSE Missing
FactAbs(y, name) == {AbsOf(v) : v \in Fact(y, name)}
OrNought(v) == IF v = Missing THEN {0} ELSE v

Quotient(n, d) == {IF e < 0 THEN (-1000 * v) \div (-e) ELSE (1000 * v) \div e : v \in n, e \in d \ {0}}
Sum2(a, b) == {v + w : v \in a, w \in b}
Minus(a, b) == {v - w : v \in a, w \in b}
Average(a, b) == IF a = Missing \/ b = Missing THEN a \cup b ELSE {s \div 2 : s \in Sum2(a, b)}
PctChange(now, before) == {(100 * (v - w)) \div AbsOf(w) : v \in now, w \in before \ {0}}
Above(a, b) == \E v \in a, w \in b : v > w

\* Of a sequence of figures: the sum of those there are.
Amount(f) == IF f = Missing THEN 0 ELSE CHOOSE v \in f : TRUE
FactorTotal(figures) ==
    LET sum[i \in 0 .. Len(figures)] == IF i = 0 THEN 0 ELSE sum[i - 1] + Amount(figures[i])
    IN sum[Len(figures)]
Usable(figures) == Cardinality({i \in DOMAIN figures : figures[i] # Missing})
MeanOf(figures) == IF Usable(figures) = 0 THEN Missing ELSE {FactorTotal(figures) \div Usable(figures)}

-----------------------------------------------------------------------------
(* The selection of facts *)

DaysOf(f) == f.end - f.start
SafeFact(f) == f.safe

Fits(f, period) ==
    CASE period = "instant"   -> DaysOf(f) = 0
      [] period = "quarterly" -> DaysOf(f) \in 70 .. 110
      [] period = "annual"    -> DaysOf(f) \in 350 .. 380
      [] OTHER                -> TRUE

\* Mutant of NewestRanked: the facts are sorted the wrong way round.
OldestRanked(facts) == {f \in facts : \A g \in facts : g.rank >= f.rank}

\* By acceptance, then by the date of filing.
NewestRanked(facts) == {f \in facts : \A g \in facts : g.rank <= f.rank}

\* For each end of a period: the first concept of the list that is there; no
\* fact if its facts start on different days, or if the newest disagree.
SelectFacts(facts, concepts, period) ==
    LET usable == {f \in facts : /\ \E i \in DOMAIN concepts : concepts[i] = f.concept
                                 /\ SafeFact(f) /\ Fits(f, period)}
        place(f) == CHOOSE i \in DOMAIN concepts : concepts[i] = f.concept
        bucket(end) == {f \in usable : f.end = end}
        first(end) == {f \in bucket(end) : \A g \in bucket(end) : place(f) <= place(g)}
        newest(end) == NewestRanked(first(end))
        decided(end) == /\ \A f, g \in first(end) : f.start = g.start
                        /\ \A f, g \in newest(end) : f.value = g.value
    IN {CHOOSE f \in newest(end) : TRUE : end \in {e \in {f.end : f \in usable} : decided(e)}}

Comparable(c, p) ==
    /\ c.end - p.end \in 350 .. 380
    /\ c.concept = p.concept
    /\ (DaysOf(c) = 0) = (DaysOf(p) = 0)
    /\ DaysOf(c) # 0 =>
          /\ c.start - p.start \in 350 .. 380
          /\ AbsOf(DaysOf(c) - DaysOf(p)) <= 14
          /\ p.end < c.start

RevenueConcepts == <<"Revenues", "SalesRevenueNet">>
ConceptNames == <<"Assets", "Revenues", "SalesRevenueNet">>

AnnualReportInputs(facts) ==
    LET revenue == SelectFacts(facts, RevenueConcepts, "annual")
    IN {f \in facts : \E r \in revenue : f.end = r.end /\ (f.start = r.start \/ DaysOf(f) = 0)}

\* The facts of each window that some fact gives as a fiscal year.
Candidates(facts, w) == {f \in facts : f.end = w[2] /\ (f.start = w[1] \/ DaysOf(f) = 0)}
ChosenOf(candidates) == UNION {SelectFacts(candidates, <<c>>, "any") : c \in {f.concept : f \in candidates}}
FiscalYears(facts) == {<<f.start, f.end>> : f \in {g \in facts : g.fy /\ DaysOf(g) \in 350 .. 380}}
AnnualPeriods(facts) ==
    {p \in {[start |-> w[1], end |-> w[2], facts |-> ChosenOf(Candidates(facts, w))] : w \in FiscalYears(facts)} :
        \E f \in p.facts : DaysOf(f) # 0}

NewestPeriod(periods) ==
    CHOOSE p \in periods : \A q \in periods : q.end < p.end \/ (q.end = p.end /\ q.start <= p.start)
\* Of the flows, the one whose concept comes first by name.
FirstFlow(p) ==
    LET flows == {f \in p.facts : DaysOf(f) # 0}
        place(f) == CHOOSE i \in DOMAIN ConceptNames : ConceptNames[i] = f.concept
    IN CHOOSE f \in flows : \A g \in flows : place(f) <= place(g)

\* The newest period, and the next one if its first flow is comparable there.
PackPeriods(facts) ==
    LET periods == AnnualPeriods(facts)
        current == NewestPeriod(periods)
        prior == NewestPeriod(periods \ {current})
    IN IF periods = {} THEN <<>>
       ELSE IF periods # {current} /\ \E f \in prior.facts : Comparable(FirstFlow(current), f)
       THEN <<current, prior>>
       ELSE <<current>>

-----------------------------------------------------------------------------
(* Figures with more than one name, or derived *)

GrossProfit(y) == IF "GROSS_PROFIT" \in DOMAIN y THEN Fact(y, "GROSS_PROFIT") ELSE Minus(Fact(y, "REVENUE"), Fact(y, "COST"))
EbitOf(y) == IF "OPERATING_INCOME" \in DOMAIN y THEN Fact(y, "OPERATING_INCOME")
             ELSE Sum2(Fact(y, "PRETAX_INCOME"), FactAbs(y, "INTEREST"))
TotalDebtOf(y) == {d \in Sum2(OrNought(Fact(y, "SHORT_TERM_DEBT")), OrNought(Fact(y, "LONG_TERM_DEBT"))) : d > 0}
MeanAssets(c, p) == Average(Fact(c, "TOTAL_ASSETS"), Fact(p, "TOTAL_ASSETS"))
Accruals(y) == Minus(Fact(y, "NET_INCOME"), Fact(y, "OPERATING_CASH_FLOW"))

AssetQuality(y) ==
    {1000 - q : q \in Quotient(Sum2(Sum2(Fact(y, "CURRENT_ASSETS"), Fact(y, "PPE")), OrNought(Fact(y, "SECURITIES"))),
                               Fact(y, "TOTAL_ASSETS"))}
FactorGrossMargin(y) == Quotient(Minus(Fact(y, "REVENUE"), Fact(y, "COST")), Fact(y, "REVENUE"))
DepreciationRate(y) == Quotient(Fact(y, "DEPRECIATION"), Sum2(OrNought(Fact(y, "DEPRECIATION")), OrNought(Fact(y, "PPE"))))
CurrentLeverage(y) ==
    Quotient(Sum2(OrNought(Fact(y, "CURRENT_LIABILITIES")), OrNought(Fact(y, "LONG_TERM_DEBT"))), Fact(y, "TOTAL_ASSETS"))

BeneishMScore(c, p) ==
    LET of(y, n) == Quotient(Fact(y, n), Fact(y, "REVENUE"))
    IN {-4840 + (920 * dsri + 528 * gmi + 404 * aqi + 892 * sgi + 115 * depi - 172 * sgai + 4679 * tata - 327 * lvgi) \div 1000 :
            dsri \in Quotient(of(c, "RECEIVABLES"), of(p, "RECEIVABLES")),
            gmi \in Quotient(FactorGrossMargin(p), FactorGrossMargin(c)),
            aqi \in Quotient(AssetQuality(c), AssetQuality(p)),
            sgi \in Quotient(Fact(c, "REVENUE"), Fact(p, "REVENUE")),
            depi \in Quotient(DepreciationRate(p), DepreciationRate(c)),
            sgai \in Quotient(of(c, "SGA"), of(p, "SGA")),
            lvgi \in Quotient(CurrentLeverage(c), CurrentLeverage(p)),
            tata \in Quotient(Accruals(c), Fact(c, "TOTAL_ASSETS"))}

\* One point each; no score when a figure of the tests is missing.
PiotroskiFScore(c, p) ==
    LET over(y, n, d) == Quotient(Fact(y, n), Fact(y, d))
        roa(y) == over(y, "NET_INCOME", "TOTAL_ASSETS")
        debt(y) == over(y, "LONG_TERM_DEBT", "TOTAL_ASSETS")
        liquid(y) == over(y, "CURRENT_ASSETS", "CURRENT_LIABILITIES")
        margin(y) == Quotient(GrossProfit(y), Fact(y, "REVENUE"))
        turnover(y) == over(y, "REVENUE", "TOTAL_ASSETS")
        cash == Fact(c, "OPERATING_CASH_FLOW")
        tests == <<Above(roa(c), {0}), Above(cash, {0}), Above(roa(c), roa(p)), Above(cash, Fact(c, "NET_INCOME")),
                   Above(debt(p), debt(c)), Above(liquid(c), liquid(p)), ~Above(Fact(c, "SHARES"), Fact(p, "SHARES")),
                   Above(margin(c), margin(p)), Above(turnover(c), turnover(p))>>
    IN IF \/ cash = Missing
          \/ \E y \in {c, p} : Missing \in {roa(y), debt(y), liquid(y), Fact(y, "SHARES"), margin(y), turnover(y)}
       THEN Missing ELSE {Cardinality({i \in DOMAIN tests : tests[i]})}

AltmanZScore(y) ==
    LET share(n) == Quotient(n, Fact(y, "TOTAL_ASSETS"))
    IN {(656 * x1 + 326 * x2 + 672 * x3 + 105 * x4) \div 100 :
            x1 \in share(Minus(Fact(y, "CURRENT_ASSETS"), Fact(y, "CURRENT_LIABILITIES"))),
            x2 \in share(Fact(y, "RETAINED_EARNINGS")), x3 \in share(EbitOf(y)),
            x4 \in Quotient(Fact(y, "EQUITY"), Fact(y, "LIABILITIES"))}

SloanAccrualRatio(c, p) == Quotient(Accruals(c), MeanAssets(c, p))

CashBasedProfitability(c, p) ==
    LET delta(n) == OrNought(Minus(Fact(c, n), Fact(p, n)))
        costs == <<OrNought(Fact(c, "SGA")), delta("RECEIVABLES"), delta("INVENTORY"), delta("PREPAIDS")>>
        relief == <<delta("DEFERRED_REVENUE"), delta("ACCOUNTS_PAYABLE"), delta("ACCRUED_EXPENSES")>>
    IN IF p = <<>> THEN Missing
       ELSE Quotient({m - FactorTotal(costs) + FactorTotal(relief) : m \in Minus(Fact(c, "REVENUE"), Fact(c, "COST"))}, MeanAssets(c, p))

GrossProfitability(c, p) == Quotient(GrossProfit(c), MeanAssets(c, p))

NetOperatingAssetsRatio(y) ==
    Quotient(Minus(Minus(Fact(y, "TOTAL_ASSETS"), OrNought(Fact(y, "CASH"))),
                   Minus(Fact(y, "LIABILITIES"), OrNought(TotalDebtOf(y)))), Fact(y, "TOTAL_ASSETS"))

AssetGrowth(c, p) == PctChange(Fact(c, "TOTAL_ASSETS"), Fact(p, "TOTAL_ASSETS"))

\* From 0 to 100.
FactorQualityScore(c, p) ==
    LET points(v, at0, per1) == {Within(at0 + (per1 * x) \div 1000, 0, 100) : x \in v}
    IN MeanOf(<<{(100 * f) \div 9 : f \in PiotroskiFScore(c, p)},
                points(CashBasedProfitability(c, p), 50, 180),
                points(GrossProfitability(c, p), 50, 220),
                {Within(z \div 30, 0, 100) : z \in AltmanZScore(c)},
                points(SloanAccrualRatio(c, p), 60, -350),
                {Within(70 - Larger(0, g - 8), 0, 100) : g \in AssetGrowth(c, p)}>>)

FactorForensicRisk(c, p) ==
    MeanOf(<<{IF b > -1780 THEN 90 ELSE IF b > -2220 THEN 70 ELSE 20 : b \in BeneishMScore(c, p)},
             {Within(50 + (400 * s) \div 1000, 0, 100) : s \in SloanAccrualRatio(c, p)},
             {Within(35 + (120 * n) \div 1000, 0, 100) : n \in NetOperatingAssetsRatio(c)}>>)

-----------------------------------------------------------------------------
(* A-HIS: five modules, each the mean of tests between pass and strong *)

Threshold(v, pass, strong) == {Within((1000 * (x - pass)) \div (strong - pass), 0, 1000) : x \in v}

\* Mutant of InverseThreshold: what is stronger than strong counts for more.
InverseUnclamped(v, pass, strong) == {Larger((1000 * (pass - x)) \div (pass - strong), 0) : x \in v}

InverseThreshold(v, pass, strong) == {Within((1000 * (pass - x)) \div (pass - strong), 0, 1000) : x \in v}

\* A test without its figure counts as not passed, unless the whole module is.
ModuleAverage(scores, points) == IF Usable(scores) = 0 THEN Missing ELSE {(points * FactorTotal(scores)) \div Len(scores)}

QualityOfEarnings(c) == Quotient(Fact(c, "OPERATING_CASH_FLOW"), Fact(c, "NET_INCOME"))
CurrentRatio(c) == Quotient(Fact(c, "CURRENT_ASSETS"), Fact(c, "CURRENT_LIABILITIES"))
QuickRatio(c) ==
    Quotient(Sum2(Sum2(OrNought(Fact(c, "CASH")), OrNought(Fact(c, "SECURITIES"))), OrNought(Fact(c, "RECEIVABLES"))),
             Fact(c, "CURRENT_LIABILITIES"))
TimesInterestEarned(c) == Quotient(EbitOf(c), FactAbs(c, "INTEREST"))

\* Cash flow that pays for the capital expenditure and the dividends reported.
CoversNeeds(c) ==
    /\ {"CAPEX", "DIVIDENDS"} \cap DOMAIN c # {}
    /\ ~Above(Sum2(OrNought(FactAbs(c, "CAPEX")), OrNought(FactAbs(c, "DIVIDENDS"))), Fact(c, "OPERATING_CASH_FLOW"))
    /\ Fact(c, "OPERATING_CASH_FLOW") # Missing

AHisModules(c, p) ==
    LET equity == Average(Fact(c, "EQUITY"), Fact(p, "EQUITY"))
        cash == Fact(c, "OPERATING_CASH_FLOW")
        income == Fact(c, "NET_INCOME")
        strongCash == CHOOSE v \in {Larger(AbsOf(i), 1) : i \in OrNought(income)} : TRUE
    IN <<ModuleAverage(<<Threshold(QualityOfEarnings(c), 1000, 1500),
                         InverseThreshold(BeneishMScore(c, p), -2220, -2800),
                         InverseThreshold({AbsOf(s) : s \in SloanAccrualRatio(c, p)}, 80, 20)>>, 25),
         ModuleAverage(<<Threshold(PctChange(Fact(c, "REVENUE"), Fact(p, "REVENUE")), 0, 12),
                         Threshold(PctChange(income, Fact(p, "NET_INCOME")), 0, 12)>>, 20),
         ModuleAverage(<<Threshold(Quotient(income, MeanAssets(c, p)), 80, 120),
                         Threshold(Quotient(income, equity), 120, 180),
                         Threshold(Quotient(income, Fact(c, "REVENUE")), 50, 150),
                         Threshold(Quotient(Fact(c, "REVENUE"), MeanAssets(c, p)), 500, 1200)>>, 20),
         ModuleAverage(<<Threshold(CurrentRatio(c), 1500, 2500), Threshold(QuickRatio(c), 1000, 1500),
                         InverseThreshold(Quotient(Fact(c, "LIABILITIES"), Fact(c, "TOTAL_ASSETS")), 500, 250),
                         Threshold(TimesInterestEarned(c), 3000, 5000)>>, 20),
         ModuleAverage(<<IF CoversNeeds(c) THEN {1000} ELSE {0}, Threshold(cash, 0, strongCash)>>, 15)>>

AHisScore(c, p) == FactorTotal(AHisModules(c, p))

PortfolioEntryPass(c, p) ==
    /\ AHisScore(c, p) >= 75000
    /\ Above(QualityOfEarnings(c), {999})
    /\ Above(CurrentRatio(c), {1499})
    /\ Above(TimesInterestEarned(c), {2999})

-----------------------------------------------------------------------------
FactorInit ==
    /\ factors = FactorYears
    /\ filed = {}
    /\ factorSteps = 0

ReviseFactor(y, n) ==
    /\ \E v \in FactorChoices[n] : factors' = [factors EXCEPT ![y] = Set(@, n, v)]
    /\ UNCHANGED filed

LoseFactor(y, n) ==
    /\ factors' = [factors EXCEPT ![y] = Drop(@, n)]
    /\ UNCHANGED filed

\* Filings arrive in any order.
FileFact(f) ==
    /\ filed' = filed \cup {f}
    /\ UNCHANGED factors

FactorNext ==
    /\ factorSteps < MaxFactorSteps
    /\ factorSteps' = factorSteps + 1
    /\ \/ filed = {} /\ \E y \in DOMAIN factors : \E n \in DOMAIN factors[y] :
              (n \in DOMAIN FactorChoices /\ ReviseFactor(y, n)) \/ LoseFactor(y, n)
       \/ factors = FactorYears /\ \E f \in FiledFacts \ filed : FileFact(f)

FactorSpec == FactorInit /\ [][FactorNext]_factorVars

-----------------------------------------------------------------------------
(* Properties *)

\* A company that loses money or burns cash never passes for the portfolio,
\* though the ratio of two losses looks like earnings of high quality and no
\* test asks for a profit: the points of the other modules do not suffice.
\* Nothing is said of an equity that is negative on average over the year, on
\* which a loss is a positive return.
\* (factor_engine.py 673-743)
EntryNeedsProfit ==
    LET c == factors.now
        p == factors.before
    IN
    (PortfolioEntryPass(c, p) /\ ~Above({0}, Average(Fact(c, "EQUITY"), Fact(p, "EQUITY")))) =>
        /\ \A v \in Fact(c, "NET_INCOME") : v > 0
        /\ \A v \in Fact(c, "OPERATING_CASH_FLOW") : v > 0

\* A fact is outranked by one of its concept and window accepted later.
Outranks(g, f) ==
    /\ g.concept = f.concept /\ g.end = f.end /\ g.start = f.start
    /\ g.safe /\ g.rank > f.rank

\* A fact that arrives late, outranked by one already there, never changes the
\* revenue that is selected, whatever the order in which they are stored; nor
\* the two years that are compared and their figures, unless only the late one
\* is given for a fiscal year: the year it opens takes its figures from others.
\* (financial_input_safety.py 48-78, factor_engine.py 69-77, 129-151)
LateFactsDecideNothing ==
    [][\A f \in filed' \ filed : \A g \in filed : Outranks(g, f) =>
          /\ SelectFacts(filed', RevenueConcepts, "annual") = SelectFacts(filed, RevenueConcepts, "annual")
          /\ (f.fy => g.fy) => PackPeriods(filed') = PackPeriods(filed)]_filed

=============================================================================
