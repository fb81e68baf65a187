-------------------------------- MODULE Grades --------------------------------
(***************************************************************************)
(* What src/accountant/research makes of one company: the route that picks *)
(* a model for it (company_router.py), its blockers and the score of its   *)
(* family (bottleneck_engine.py), its grade, action and position           *)
(* (grading_engine.py), its classification (classification_engine.py) and  *)
(* the tier of its data (data_quality_engine.py).                          *)
(*                                                                         *)
(* The figures of a company are those it has; a description of an industry *)
(* is the set of the markers found in it.  Percentages are whole numbers.  *)
(***************************************************************************)
EXTENDS Figures, FiniteSets

CONSTANTS
    Stats0,         \* key_stats of the report at first
    StatChoices,    \* what a figure may become, for each of its names
    Evidence0,      \* inputs of the grading at first
    EvidenceChoices,
    Markers,        \* the markers of industries in use
    MaxRegrades     \* bound on revisions

\* The inputs of the grading that always have a value, and those that are flags.
AlwaysGiven == {"PENALTY", "COMPLETENESS", "DISPERSION", "RECENCY", "REQUIRED", "POPULATED",
                "SECTOR_TARGET", "SECTOR_CAP"}
Vetoes == {"GOING_CONCERN", "RESTATEMENT", "AUDITOR_CHANGE", "BENEISH_BREACH"}

ASSUME GradesAssumption ==
    /\ \A n \in DOMAIN Stats0 : Stats0[n] \in Int
    /\ \A n \in DOMAIN StatChoices : StatChoices[n] \subseteq Int
    /\ AlwaysGiven \subseteq DOMAIN Evidence0
    /\ \A n \in DOMAIN Evidence0 : Evidence0[n] \in IF n \in Vetoes THEN {0, 1} ELSE Int
    /\ \A n \in DOMAIN EvidenceChoices : EvidenceChoices[n] \subseteq IF n \in Vetoes THEN {0, 1} ELSE Int

VARIABLES
    stats, profile, evidence, verdict, regrades

gradeVars == <<stats, profile, evidence, verdict, regrades>>

-----------------------------------------------------------------------------
(* The route *)

IsFinancial(p) == p.sector = "financials" \/ p.sic \cap {"bank", "finance", "insurance", "broker"} # {}
IsAssetHeavy(p) == p.sector \in {"real estate", "utilities"} \/ p.sic \cap {"reit", "property", "pipeline", "utility"} # {}
IsCompute(p) == p.sector \in {"information technology", "communication services"} \/ p.sic \cap {"semiconductor", "software", "computer"} # {}
IsEnergy(p) == p.sector \in {"energy", "materials"} \/ p.sic \cap {"oil", "gas", "mining", "pipeline", "metal"} # {}
IsGeneral(p) == (p.sector = "" /\ p.sic = {}) \/ p.sector \in {"other", "unknown"} \/ p.sic \cap {"shell", "blank check", "trust", "fund"} # {}

IsPreRevenue(s) ==
    \/ OrZero(s, "REVENUE") <= 0
    \/ OrZero(s, "OWNER") < 0 /\ OrElse(s, "NET_INCOME", -1) < 0

RouteCompany(p, s) ==
    CASE IsFinancial(p)  -> "financials"
      [] ~IsFinancial(p) /\ IsAssetHeavy(p) -> "reit_asset_heavy"
      [] ~IsFinancial(p) /\ ~IsAssetHeavy(p) /\ IsCompute(p) -> "ai_compute"
      [] ~IsFinancial(p) /\ ~IsAssetHeavy(p) /\ ~IsCompute(p) /\ IsEnergy(p) -> "energy_resources"
      [] OTHER -> IF IsPreRevenue(s) THEN "pre_revenue" ELSE IF IsGeneral(p) THEN "general" ELSE "operating_company"

Lane1Supported(family) == family \in {"ai_compute", "energy_resources", "operating_company"}

FocusFamily(p) ==
    CASE p.sic \cap {"semiconductor", "software", "computer"} # {} -> "AI / compute"
      [] p.sic \cap {"semiconductor", "software", "computer"} = {} /\ p.sic \cap {"oil", "gas", "pipeline", "mining"} # {} -> "Energy / resources"
      [] OTHER -> "General"

-----------------------------------------------------------------------------
(* Blockers: categories with a severity *)

Leverage(s) == IF Has(s, {"ASSETS", "LIABILITIES"}) /\ s["ASSETS"] > 0 THEN {(100 * s["LIABILITIES"]) \div s["ASSETS"]} ELSE {}

Blocker(category, severity) == [category |-> category, severity |-> severity]

DataBlockers(p, s) ==
    {b \in {Blocker("coverage", 90)} : p.tier \in {"INSUFFICIENT", "PARTIAL"} \/ OrElse(s, "COVERAGE", 55) < 55}
    \cup (IF OrZero(s, "WARNINGS") > 0 THEN {Blocker("factors", 82)}
          ELSE {b \in {Blocker("factors", 68)} : ~Has(s, {"BENEISH", "PIOTROSKI", "ALTMAN"})})

\* Mutant of GrowthBlockers: a contraction is taken with its sign.
GrowthBlockersSigned(p, s) ==
    IF ~Has(s, {"REVENUE", "GROWTH"}) THEN {Blocker("revenue unknown", 70)}
    ELSE IF s["GROWTH"] < 0 THEN {Blocker("contraction", 82 + Smaller(s["GROWTH"], 30) \div 2)}
    ELSE {b \in {Blocker("slow growth", 55)} : s["GROWTH"] < 5 /\ Lane1Supported(RouteCompany(p, s))}

GrowthBlockers(p, s) ==
    IF ~Has(s, {"REVENUE", "GROWTH"}) THEN {Blocker("revenue unknown", 70)}
    ELSE IF s["GROWTH"] < 0 THEN {Blocker("contraction", 82 + Smaller(-s["GROWTH"], 30) \div 2)}
    ELSE {b \in {Blocker("slow growth", 55)} : s["GROWTH"] < 5 /\ Lane1Supported(RouteCompany(p, s))}

IncomeBlockers(s) ==
    (IF "OWNER" \notin DOMAIN s THEN {Blocker("owner earnings unknown", 62)}
     ELSE {b \in {Blocker("cash burn", 84)} : s["OWNER"] < 0})
    \cup (IF OrZero(s, "NET_INCOME") < 0 THEN {Blocker("losses", 82)}
          ELSE {b \in {Blocker("thin margin", 62)} : OrElse(s, "MARGIN", 5) < 5})

BalanceBlockers(s) ==
    {Blocker("leverage", IF v >= 90 THEN 92 ELSE IF v >= 75 THEN 78 ELSE 60) : v \in {w \in Leverage(s) : w >= 60}}
    \cup {Blocker("dilution", IF v >= 25 THEN 92 ELSE 78) : v \in {w \in {OrZero(s, "DILUTION")} : w >= 10}}

ScoreBlockers(s) ==
    {b \in {Blocker("accounting quality", 75)} : OrElse(s, "QUALITY", 50) < 50}
    \cup {b \in {Blocker("a-his", 76)} : OrElse(s, "AHIS", 50) < 50}
    \cup {b \in {Blocker("eps forecast", 70)} : OrZero(s, "EPS") < 0}

MetricBottlenecks(p, s) ==
    LET found == DataBlockers(p, s) \cup GrowthBlockers(p, s) \cup IncomeBlockers(s) \cup BalanceBlockers(s) \cup ScoreBlockers(s)
        all == IF found = {} THEN {Blocker("none", 20)} ELSE found
    IN {b \in all : Cardinality({c \in all : c.severity > b.severity}) < 3}

Bounded(v, low, high) == IF v = {} THEN 50 ELSE Within((100 * ((CHOOSE w \in v : TRUE) - low)) \div (high - low), 0, 100)
Blend(left, right, pct) == (left * (100 - pct) + right * pct) \div 100
Stat(s, name) == {s[n] : n \in {name} \cap DOMAIN s}

\* A figure of zero counts as a missing one.
TruthyElse(v, default) == IF v \subseteq {0} THEN default ELSE CHOOSE w \in v : TRUE

ModelFamilyScore(p, s) ==
    LET base == TruthyElse(Stat(s, "AHIS"), TruthyElse(Stat(s, "FACTOR_QUALITY"), OrElse(s, "QUALITY", 50)))
        family == RouteCompany(p, s)
        short(v) == 100 - Smaller(AbsOf(v), 100)
    IN Within(CASE family = "financials" -> Blend(base, short(TruthyElse(Leverage(s), 75)), 25)
                [] family = "reit_asset_heavy" ->
                       Blend(Blend(base, short(TruthyElse(Leverage(s), 65)), 30), Bounded(Stat(s, "OWNER_MARGIN"), 0, 40), 20)
                [] family = "pre_revenue" ->
                       Blend(Blend(base, short(2 * Larger(OrZero(s, "DILUTION"), 0)), 35),
                             short(TruthyElse(Stat(s, "OWNER_MARGIN"), -50)), 25)
                [] family = "operating_company" ->
                       Blend(Blend(base, Bounded(Stat(s, "OWNER_MARGIN"), -20, 40), 20), Bounded(Stat(s, "GROWTH"), -20, 50), 15)
                [] OTHER -> Blend(base, Bounded(Stat(s, "MARGIN"), -30, 30), 20), 0, 100)

-----------------------------------------------------------------------------
(* Grades, in hundredths of a point *)

Severities == {"BENEISH", "DECHOW", "ALTMAN", "EVENTS"}

PercentileOf(e, n) == Within(OrElse(e, n, 50), 0, 100)
Severity(e, n) == Within(OrZero(e, n), 0, 100)

Pqc(e) == 35 * PercentileOf(e, "CASH") + 20 * PercentileOf(e, "ALLOCATION") + 15 * PercentileOf(e, "MARGINS")
          + 15 * PercentileOf(e, "BALANCE") + 15 * PercentileOf(e, "ACCRUALS")

RedFlagPenalty(e) ==
    LET worst == CHOOSE v \in {Severity(e, n) : n \in Severities} : \A n \in Severities : Severity(e, n) <= v
    IN Within(worst * e["PENALTY"], 0, 10000)

ForecastAdjustment(e) ==
    IF Has(e, {"FORECAST", "CURRENT"}) THEN 100 * Within(e["FORECAST"] - e["CURRENT"], -15, 15) ELSE 0

HardVeto(e) == \E n \in Vetoes : OrZero(e, n) = 1

GradeScore(e) == IF HardVeto(e) THEN 0 ELSE Within(Pqc(e) - RedFlagPenalty(e) + ForecastAdjustment(e), 0, 10000)

GradeBucket(score) ==
    IF score >= 9000 THEN "A" ELSE IF score >= 7500 THEN "B" ELSE IF score >= 6000 THEN "C" ELSE IF score >= 4000 THEN "D" ELSE "F"

Grade(e) == IF HardVeto(e) THEN "F" ELSE GradeBucket(GradeScore(e))

Action(e) ==
    IF HardVeto(e) THEN "EXIT"
    ELSE CASE Grade(e) \in {"A", "B"} -> "BUY" [] Grade(e) = "C" -> "HOLD" [] Grade(e) = "D" -> "WATCH" [] OTHER -> "EXIT"

\* In hundredths of a per cent.
Confidence(e) ==
    LET sections == IF e["REQUIRED"] > 0 THEN Within((100 * e["POPULATED"]) \div e["REQUIRED"], 0, 100) ELSE 100
    IN (Within(e["COMPLETENESS"], 0, 100) * sections * Within(100 - e["DISPERSION"], 0, 100) * Within(e["RECENCY"], 0, 100)) \div 10000

GradeWeight == [A |-> 10, B |-> 7, C |-> 3, D |-> 0, F |-> 0]

SectorScalar(e) == IF e["SECTOR_TARGET"] > 0 THEN Within((100 * e["SECTOR_CAP"]) \div e["SECTOR_TARGET"], 0, 100) ELSE 100

PositionSize(e) == GradeWeight[Grade(e)] * Confidence(e) * SectorScalar(e)

-----------------------------------------------------------------------------
(* Classification and the tier of the data *)

\* v: the quality, the forensic risk, the yield, the range and the price it has.
Classification(v) ==
    LET quality == OrZero(v, "ACCOUNTING_QUALITY")
        price == OrZero(v, "PRICE")
    IN CASE OrZero(v, "NEGATIVE_FCF") = 1 \/ OrZero(v, "DECLINING_REVENUE") = 1 \/ OrElse(v, "ACCOUNTING_QUALITY", 40) < 40 ->
                "REJECTED_BY_RULES"
         [] OTHER ->
              IF quality >= 70 /\ OrZero(v, "FORENSIC_RISK") \in 1 .. 30 THEN "HIGH_QUALITY"
              ELSE IF OrZero(v, "RANGE_LOW") # 0 /\ price # 0
                   THEN IF "RANGE_HIGH" \notin DOMAIN v THEN "RAISES"
                        ELSE IF 100 * (v["RANGE_HIGH"] - price) >= 30 * price THEN "ATTRACTIVE_VALUATION"
                        ELSE IF v["RANGE_HIGH"] # 0 /\ 100 * price > 115 * v["RANGE_HIGH"] THEN "EXPENSIVE"
                        ELSE IF ~Has(v, {"ACCOUNTING_QUALITY", "YIELD"}) THEN "INSUFFICIENT_DATA" ELSE "WATCHLIST"
              ELSE IF OrZero(v, "RANGE_HIGH") # 0 /\ price # 0 /\ 100 * price > 115 * v["RANGE_HIGH"] THEN "EXPENSIVE"
              ELSE IF ~Has(v, {"ACCOUNTING_QUALITY", "YIELD"}) THEN "INSUFFICIENT_DATA" ELSE "WATCHLIST"

FilingCoverage(annual, quarterly) == 20 * (annual + quarterly)
StatementCompleteness(b, i, c) == (b + i + c) \div 3
MetricAvailability(have, all) == IF all = 0 THEN 0 ELSE (100 * have) \div all

DataTier(filings, statements, metrics, mapping) ==
    LET mean == (filings + statements + metrics + mapping) \div 4
    IN IF mean >= 100 THEN "COMPLETE" ELSE IF mean >= 85 THEN "COMPREHENSIVE" ELSE IF mean >= 70 THEN "SUBSTANTIAL"
       ELSE IF mean >= 50 THEN "ADEQUATE" ELSE "INSUFFICIENT"

ResearchUsable(tier) == tier # "INSUFFICIENT"

DataIssues(years, restated, filings, metrics) ==
    {i \in {"history", "restatements", "filings", "metrics"} :
        CASE i = "history" -> years < 3 [] i = "restatements" -> restated
          [] i = "filings" -> filings < 80 [] OTHER -> metrics < 70}

-----------------------------------------------------------------------------
GradesInit ==
    /\ stats = Stats0
    /\ profile \in [sector : {"", "financials", "industrials"}, sic : {m \in SUBSET Markers : Cardinality(m) <= 1}, tier : {"ADEQUATE"}]
    /\ evidence = Evidence0
    /\ verdict = [ACCOUNTING_QUALITY |-> 80, FORENSIC_RISK |-> 10, YIELD |-> 5]
    /\ regrades = 0

ReviseStat(n) ==
    /\ \/ \E v \in StatChoices[n] : stats' = Set(stats, n, v)
       \/ stats' = Drop(stats, n)
    /\ UNCHANGED <<profile, evidence, verdict>>

ReviseEvidence(n) ==
    /\ \E v \in EvidenceChoices[n] : evidence' = Set(evidence, n, v)
    /\ UNCHANGED <<stats, profile, verdict>>

ReviseVerdict(n) ==
    /\ \E v \in {0, 10, 35, 80} : verdict' = Set(verdict, n, v)
    /\ UNCHANGED <<stats, profile, evidence>>

GradesNext ==
    /\ regrades < MaxRegrades
    /\ regrades' = regrades + 1
    /\ \/ \E n \in DOMAIN StatChoices : ReviseStat(n)
       \/ \E n \in DOMAIN EvidenceChoices : ReviseEvidence(n)
       \/ \E n \in {"ACCOUNTING_QUALITY", "FORENSIC_RISK", "PRICE", "RANGE_LOW", "RANGE_HIGH"} : ReviseVerdict(n)

GradesSpec == GradesInit /\ [][GradesNext]_gradeVars

-----------------------------------------------------------------------------
(* Properties *)

TopSeverity(p, s) == CHOOSE v \in {b.severity : b \in MetricBottlenecks(p, s)} : \A b \in MetricBottlenecks(p, s) : b.severity <= v

SameNames(s, t) == DOMAIN s = DOMAIN t

\* Total assets, where they are known, of which a part can be owed.
HasAssets(s) == OrElse(s, "ASSETS", 1) > 0

\* Worse never looks better.  While a company keeps its route and has assets, a
\* figure that gets worse never makes the worst blocker named for it look milder:
\* each list of thresholds is tried from its worst end, and the three kept are
\* the severest.  (A change of route does hide blockers: "slow growth" is looked
\* for on some routes only.  So does the loss of all assets: line 341 computes
\* no leverage then.)  Evidence that gets worse never makes a position larger,
\* nor does a veto leave one standing: neither the penalty, the forecast nor the
\* confidence gives back what another takes.
\* (bottleneck_engine.py 317-392, company_router.py, grading_engine.py 57-170)
WorseNeverLooksBetter ==
    [][/\ (/\ stats' # stats
           /\ SameNames(stats, stats')
           /\ RouteCompany(profile, stats') = RouteCompany(profile, stats)
           /\ HasAssets(stats')
           /\ \A n \in DOMAIN stats : IF n \in {"LIABILITIES", "DILUTION", "WARNINGS"} THEN stats'[n] >= stats[n]
                                      ELSE stats'[n] <= stats[n])
          => TopSeverity(profile, stats') >= TopSeverity(profile, stats)
       /\ LET worse(n) == IF n \in Severities \cup Vetoes \cup {"DISPERSION", "REQUIRED", "CURRENT", "PENALTY", "SECTOR_TARGET"}
                          THEN evidence'[n] >= evidence[n] ELSE evidence'[n] <= evidence[n]
          IN (evidence' # evidence /\ SameNames(evidence, evidence') /\ \A n \in DOMAIN evidence : worse(n)) =>
                /\ PositionSize(evidence') <= PositionSize(evidence)
                /\ HardVeto(evidence') => PositionSize(evidence') = 0]_gradeVars
=============================================================================
