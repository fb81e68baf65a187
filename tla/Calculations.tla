---------------------------- MODULE Calculations ----------------------------
(***************************************************************************)
(* The calculators of src/accountant/calculations: margins, cash flow and  *)
(* returns of a year's statements, maintenance capex, owner earnings, the  *)
(* two implementations of economic debt and of dilution, and the ledger of *)
(* how capital was allocated.                                              *)
(*                                                                         *)
(* A year's figures are a function of the concepts it reports to whole     *)
(* dollars; a ratio is a pair <<numerator, denominator>>, and what cannot  *)
(* be calculated has none.  Figures are restated, one at a time.           *)
(***************************************************************************)
EXTENDS Figures, FiniteSets, Sequences

CONSTANTS
    Reported,       \* the figures of this year and of the year before, before restatements
    Amounts,        \* what a figure may be restated to
    Allocated,      \* the ledger's entries, before restatements
    MaxRestatements \* bound on restatements

ASSUME FiguresAssumption ==
    /\ "now" \in DOMAIN Reported
    /\ \A y \in DOMAIN Reported : \A c \in DOMAIN Reported[y] : Reported[y][c] \in Int
    /\ Amounts \subseteq Int

VARIABLES
    years,    \* this year's figures and the prior year's
    ledger,   \* three years of allocation
    restated  \* how many restatements there were

figureVars == <<years, ledger, restated>>

-----------------------------------------------------------------------------
(* Margins, cash flow and returns *)

RevenueGrowth(f, p) ==
    IF ~Has(f, {"REVENUE"}) \/ OrZero(p, "REVENUE") = 0 THEN NoData
    ELSE Valid(100 * (f["REVENUE"] - p["REVENUE"]), p["REVENUE"])

OfRevenue(f, amount) == IF f["REVENUE"] = 0 THEN NoData ELSE Valid(100 * amount, f["REVENUE"])

GrossMargin(f) ==
    IF Has(f, {"GROSS_PROFIT", "REVENUE"}) THEN OfRevenue(f, f["GROSS_PROFIT"]) ELSE NoData
OperatingMargin(f) ==
    IF Has(f, {"OPERATING_INCOME", "REVENUE"}) THEN OfRevenue(f, f["OPERATING_INCOME"]) ELSE NoData
NetMargin(f) ==
    IF Has(f, {"NET_INCOME", "REVENUE"}) THEN OfRevenue(f, f["NET_INCOME"]) ELSE NoData

\* Mutant of FreeCashFlow: capex counts with the sign it was reported with.
FreeCashFlowSigned(f) ==
    IF Has(f, {"OPERATING_CASH_FLOW", "CAPEX"})
    THEN Valid(f["OPERATING_CASH_FLOW"] + f["CAPEX"], 1)
    ELSE NoData

\* Capex is reported with either sign.
FreeCashFlow(f) ==
    IF Has(f, {"OPERATING_CASH_FLOW", "CAPEX"})
    THEN Valid(f["OPERATING_CASH_FLOW"] - AbsOf(f["CAPEX"]), 1)
    ELSE NoData

FcfMargin(f) ==
    IF Has(f, {"REVENUE", "OPERATING_CASH_FLOW", "CAPEX"})
    THEN OfRevenue(f, f["OPERATING_CASH_FLOW"] - AbsOf(f["CAPEX"]))
    ELSE NoData

\* Half of a sum is near zero when the sum is less than two.
Roe(f, p) ==
    IF ~Has(f, {"NET_INCOME", "EQUITY"}) THEN NoData
    ELSE LET twice == f["EQUITY"] + (IF Has(p, {"EQUITY"}) THEN p["EQUITY"] ELSE f["EQUITY"])
         IN IF AbsOf(twice) < 2 THEN NoData ELSE Valid(200 * f["NET_INCOME"], twice)

\* The reported rate when it lies between 0 and 50%, the statutory one otherwise.
TaxRate(f) ==
    LET pretax == OrZero(f, "PRETAX_INCOME")
        tax == OrZero(f, "INCOME_TAX")
        rate == Ratio(tax, pretax)
    IN IF tax # 0 /\ AbsOf(pretax) > 1 /\ 0 <= rate[1] /\ 2 * rate[1] <= rate[2]
       THEN rate ELSE <<21, 100>>

Nopat(f) ==
    IF ~Has(f, {"OPERATING_INCOME"}) THEN NoData
    ELSE LET rate == TaxRate(f)
         IN Valid(f["OPERATING_INCOME"] * (rate[2] - rate[1]), rate[2])

Capital(f) == OrZero(f, "TOTAL_ASSETS") - OrZero(f, "CASH") - OrZero(f, "ACCOUNTS_PAYABLE")

InvestedCapital(f) == IF Has(f, {"TOTAL_ASSETS"}) THEN Valid(Capital(f), 1) ELSE NoData

\* A prior year without total assets counts as one without assets.
Roic(f, p) ==
    LET twice == Capital(f) + Capital(p) IN
    IF Nopat(f) = NoData \/ InvestedCapital(f) = NoData \/ AbsOf(twice) < 2 THEN NoData
    ELSE Valid(200 * Nopat(f).value[1], Nopat(f).value[2] * twice)

\* From the prior year to this one; less capital is flagged, and given.
IncrementalRoic(f, p) ==
    LET a == Nopat(p)
        b == Nopat(f)
        more == Capital(f) - Capital(p)
        gain == b.value[1] * a.value[2] - a.value[1] * b.value[2]
    IN IF NoData \in {a, b, InvestedCapital(f), InvestedCapital(p)} THEN NoData
       ELSE IF more = 0 THEN [NoData EXCEPT !.status = "UNSTABLE_DENOMINATOR"]
       ELSE [status |-> IF more < 0 THEN "NEGATIVE_INCREMENTAL_CAPITAL" ELSE "VALID",
             value |-> Ratio(100 * gain, a.value[2] * b.value[2] * more)]

-----------------------------------------------------------------------------
(* Maintenance capex: low, base and high, in hundredths of a dollar *)

Range3(low, base, high) == [low |-> low, base |-> base, high |-> high]
NoRange == [low |-> <<>>, base |-> <<>>, high |-> <<>>]

DaAnchor(f) ==
    LET da == OrZero(f, "DEPRECIATION") IN
    IF da = 0 THEN NoRange ELSE Range3(<<9 * da, 10>>, <<da, 1>>, <<11 * da, 10>>)

HistoricalRatio(f) ==
    LET capex == AbsOf(OrZero(f, "CAPEX")) IN
    IF ~Has(f, {"CAPEX"}) \/ OrZero(f, "PPE") = 0 \/ capex > 1000 * AbsOf(OrZero(f, "PPE")) THEN NoRange
    ELSE Range3(<<50 * capex, 100>>, <<65 * capex, 100>>, <<80 * capex, 100>>)

\* Growth takes its part of the change of fixed assets, at the rate of revenue.
GrowthSeparation(f, p) ==
    LET rate == RevenueGrowth(f, p).value
        change == AbsOf(f["PPE"] - p["PPE"])
        left == AbsOf(f["CAPEX"]) * 100 * rate[2] - change * (IF rate[1] > 0 THEN rate[1] ELSE 0)
        base == Ratio(IF left > 0 THEN left ELSE 0, 100 * rate[2])
    IN IF ~Has(f, {"CAPEX", "PPE"}) \/ ~Has(p, {"PPE"}) \/ RevenueGrowth(f, p) = NoData THEN NoRange
       ELSE Range3(<<80 * base[1], 100 * base[2]>>, base, <<120 * base[1], 100 * base[2]>>)

CapexRatios(f, p) ==
    {Ratio(AbsOf(y["CAPEX"]), AbsOf(y["REVENUE"])) :
        y \in {z \in {f, p} : Has(z, {"CAPEX", "REVENUE"}) /\ OrZero(z, "REVENUE") # 0
                              /\ AbsOf(OrZero(z, "CAPEX")) <= 1000 * AbsOf(OrZero(z, "REVENUE"))}}

\* The smallest, mean and largest share of revenue, of this year's revenue.
RangeOfYears(f, p) ==
    LET ratios == CapexRatios(f, p)
        low == CHOOSE q \in ratios : \A r \in ratios : ~Less(r, q)
        high == CHOOSE q \in ratios : \A r \in ratios : ~Less(q, r)
        revenue == AbsOf(OrZero(f, "REVENUE"))
    IN IF ratios = {} \/ revenue = 0 THEN NoRange
       ELSE Range3(<<low[1] * revenue, low[2]>>,
                   <<(low[1] * high[2] + high[1] * low[2]) * revenue, 2 * low[2] * high[2]>>,
                   <<high[1] * revenue, high[2]>>)

-----------------------------------------------------------------------------
(* Owner earnings, economic debt and dilution *)

Adjustments(f) == OrZero(f, "WORKING_CAPITAL") + OrZero(f, "ADJUSTMENTS") - OrZero(f, "NONCASH")

\* Three models: all capex, its maintenance part, and from the cash flow.
ConservativeEarnings(f) ==
    IF ~Has(f, {"NET_INCOME"}) THEN NoData
    ELSE Valid(f["NET_INCOME"] - Adjustments(f) - OrZero(f, "CAPEX"), 1)

MaintenanceEarnings(f) ==
    IF ~Has(f, {"NET_INCOME"}) THEN NoData
    ELSE Valid(f["NET_INCOME"] - Adjustments(f) - OrZero(f, "MAINTENANCE_CAPEX"), 1)

CfoEarnings(f) ==
    IF ~Has(f, {"OPERATING_CASH_FLOW"}) THEN NoData
    ELSE Valid(f["OPERATING_CASH_FLOW"] - OrZero(f, "MAINTENANCE_CAPEX") - OrZero(f, "ADJUSTMENTS"), 1)

\* Mutant of EngineReportedDebt: finance leases are forgotten.
EngineDebtUnleased(f) ==
    OrZero(f, "SHORT_TERM_DEBT") + OrZero(f, "CURRENT_PORTION") + OrZero(f, "LONG_TERM_DEBT")
    + OrZero(f, "OPERATING_LEASES")

\* The engine: borrowings and leases, then the other claims, less cash.
EngineReportedDebt(f) ==
    OrZero(f, "SHORT_TERM_DEBT") + OrZero(f, "CURRENT_PORTION") + OrZero(f, "LONG_TERM_DEBT")
    + OrZero(f, "OPERATING_LEASES") + OrZero(f, "FINANCE_LEASES")

EngineAdjustedDebt(f) ==
    EngineReportedDebt(f) + OrZero(f, "CONVERTIBLES") + OrZero(f, "PREFERRED") + OrZero(f, "PENSION")
    + OrZero(f, "SUPPLIER_FINANCE") + OrZero(f, "FACTORING") + OrZero(f, "OTHER_CLAIMS")

EngineDebt(f) == IF EngineAdjustedDebt(f) > 0 THEN Valid(EngineAdjustedDebt(f), 1) ELSE NoData

EngineNetDebt(f) ==
    [status |-> IF EngineAdjustedDebt(f) >= 0 THEN "VALID" ELSE "INSUFFICIENT_DATA",
     value |-> <<EngineAdjustedDebt(f) - OrZero(f, "CASH") - OrZero(f, "INVESTMENTS"), 1>>]

\* The calculator: total debt is a figure of its own, and must be there.
CalculatorReportedDebt(f) ==
    IF ~Has(f, {"TOTAL_DEBT"}) THEN NoData
    ELSE Valid(f["TOTAL_DEBT"] + OrZero(f, "OPERATING_LEASES") + OrZero(f, "FINANCE_LEASES")
               + OrZero(f, "PENSION") + OrZero(f, "OTHER_CLAIMS"), 1)

CalculatorAdjustedDebt(f) ==
    LET reported == CalculatorReportedDebt(f) IN
    IF reported = NoData THEN NoData
    ELSE Valid(reported.value[1] + OrZero(f, "CAPITALIZED_INTANGIBLES") + OrZero(f, "ENVIRONMENT"), 1)

\* Debt at two and a half times the market capitalisation, less net cash.
ImpliedDebt(f) ==
    LET twice == 5 * f["MARKET_CAP"] - 2 * OrZero(f, "NET_CASH") IN
    IF OrZero(f, "MARKET_CAP") < 1 THEN NoData
    ELSE Valid(IF twice > 0 THEN twice ELSE 0, 2)

EngineSbc(f) ==
    IF ~Has(f, {"SBC", "PRICE"}) \/ OrZero(f, "PRICE") <= 0 THEN NoData
    ELSE Valid(3 * f["SBC"], f["PRICE"])

CalculatorSbc(f) ==
    IF OrZero(f, "SHARES") <= 0 \/ OrZero(f, "SBC") < 1 \/ OrZero(f, "PRICE") < 1 THEN NoData
    ELSE Valid(3 * f["SBC"], f["PRICE"])

Treasury(itm, strike, price) ==
    LET net == itm * (price - strike) IN Valid(IF net > 0 THEN net ELSE 0, price)

EngineWarrants(f) ==
    IF ~Has(f, {"IN_THE_MONEY", "STRIKE", "PRICE"}) \/ OrZero(f, "PRICE") <= 0 THEN NoData
    ELSE Treasury(f["IN_THE_MONEY"], f["STRIKE"], f["PRICE"])

\* A strike of zero counts as missing, and a missing one as the price.
CalculatorWarrants(f) ==
    LET strike == IF OrZero(f, "STRIKE") = 0 THEN f["PRICE"] ELSE f["STRIKE"] IN
    IF OrZero(f, "SHARES") <= 0 \/ OrZero(f, "PRICE") < 1 \/ OrZero(f, "IN_THE_MONEY") <= 0 THEN NoData
    ELSE Treasury(f["IN_THE_MONEY"], strike, f["PRICE"])

\* What the buyback did to the dilution d, a ratio.
BuybackEffectiveness(d, bought) ==
    IF d[1] = 0 THEN "INSUFFICIENT_DATA"
    ELSE IF bought = 0 THEN "NET_DILUTION"
    ELSE IF 10 * bought * d[2] >= 12 * d[1] THEN "STRONG_NET_REDUCTION"
    ELSE IF bought * d[2] >= d[1] THEN "MODEST_NET_REDUCTION"
    ELSE IF 10 * bought * d[2] >= 8 * d[1] THEN "OFFSETTING_SBC"
    ELSE "INEFFECTIVE_BUYBACK"

Shares(r) == IF r = NoData THEN <<0, 1>> ELSE r.value

Dilution(f) ==
    LET sbc == Shares(EngineSbc(f))
        warrants == Shares(EngineWarrants(f))
        both == <<sbc[1] * warrants[2] + warrants[1] * sbc[2], sbc[2] * warrants[2]>>
    IN [status |-> IF NoData \in {EngineSbc(f), EngineWarrants(f)} THEN "INSUFFICIENT_DATA" ELSE "VALID",
        shares |-> both,
        effect |-> BuybackEffectiveness(both, OrZero(f, "REPURCHASED"))]

CagrOver(first, last, period) ==
    IF first <= 0 \/ period <= 0 THEN NoData ELSE [status |-> "VALID", value |-> <<last, first>>]

ShareCountCagr(f, p) ==
    IF ~Has(f, {"SHARES"}) \/ ~Has(p, {"SHARES"}) THEN NoData ELSE CagrOver(p["SHARES"], f["SHARES"], 1)

\* A rate of zero counts as missing.
EvaluateAllocation(f, roic, wacc) ==
    LET allocated == OrZero(f, "CAPEX") + OrZero(f, "REPURCHASED") + OrZero(f, "DIVIDENDS") + OrZero(f, "REPAID")
        spends == OrZero(f, "CAPEX") # 0
    IN IF OrZero(f, "OWNER_EARNINGS") < 1 \/ allocated < 1 THEN "INSUFFICIENT_DATA"
       ELSE IF 0 \in {roic, wacc} \/ roic = wacc THEN "UNKNOWN"
       ELSE IF roic > wacc THEN IF spends THEN "VALUE_CREATING" ELSE "APPROPRIATE"
       ELSE IF spends THEN "VALUE_DESTROYING" ELSE "NEUTRAL"

-----------------------------------------------------------------------------
(* The ledger of capital allocation *)

Total(entries, name) ==
    LET sum[i \in 0 .. Len(entries)] == IF i = 0 THEN 0 ELSE sum[i - 1] + OrZero(entries[i], name)
    IN sum[Len(entries)]

EntryStatus(e) ==
    IF DOMAIN e \cap {"CAPEX", "ACQUISITIONS", "DIVIDENDS", "BUYBACKS"} = {} THEN "INSUFFICIENT_DATA" ELSE "VALID"

Judged(e) == Has(e, {"ROIC", "WACC"})
Spreads(entries) == SelectSeq(entries, Judged)
Spread(entries) == Total(Spreads(entries), "ROIC") - Total(Spreads(entries), "WACC")
AboveCost(entries) == Cardinality({i \in DOMAIN entries : Judged(entries[i]) /\ entries[i]["ROIC"] > entries[i]["WACC"]})

PerShare(entries) == SelectSeq(entries, LAMBDA e : Has(e, {"FCF_PER_SHARE"}))

\* A root of a negative ratio is complex, and comparing it raises.
GrowthFails(entries) ==
    LET fcf == PerShare(entries) IN
    Len(fcf) > 2 /\ fcf[1]["FCF_PER_SHARE"] > 0 /\ fcf[Len(fcf)]["FCF_PER_SHARE"] < 0 /\ Len(fcf) % 2 = 1

\* Cash flow per share grew by more than the percentage a year.
GrewBy(entries, pct) ==
    LET fcf == PerShare(entries)
        n == Len(fcf) - 1
    IN /\ n >= 1
       /\ fcf[1]["FCF_PER_SHARE"] > 0
       /\ fcf[n + 1]["FCF_PER_SHARE"] * 100^n > fcf[1]["FCF_PER_SHARE"] * (100 + pct)^n

\* Two percent above the cost of capital on average, two years of three above it.
AllocationScore(entries) ==
    (IF Spread(entries) > 2 * Len(Spreads(entries)) THEN 50
     ELSE IF Spread(entries) > 0 THEN 30
     ELSE 0)
    + (IF 100 * AboveCost(entries) >= 66 * Len(entries) THEN 30
       ELSE IF AboveCost(entries) > 0 THEN 15
       ELSE 0)
    + (IF GrewBy(entries, 10) THEN 20 ELSE IF GrewBy(entries, 0) THEN 10 ELSE 0)

\* Debt counts when more was issued than repaid.
AllocationStrategy(entries) ==
    LET deployed == Total(entries, "CAPEX") + Total(entries, "ACQUISITIONS")
                    + Total(entries, "BUYBACKS") + Total(entries, "DIVIDENDS")
        part(name, pct) == deployed > 0 /\ 100 * Total(entries, name) > pct * deployed
    IN IF part("CAPEX", 40) THEN "GROWTH"
       ELSE IF part("ACQUISITIONS", 30) THEN "M&A"
       ELSE IF part("BUYBACKS", 30) THEN "BUYBACK"
       ELSE IF part("DIVIDENDS", 30) THEN "INCOME"
       ELSE IF 5 * (Total(entries, "REPAID") - Total(entries, "ISSUED")) < -deployed THEN "DELEVERAGING"
       ELSE "BALANCED"

\* What the ledger gives for the years, or nothing when it raises.
Aggregate(entries) ==
    IF GrowthFails(entries) THEN [score |-> -1, strategy |-> "RAISES"]
    ELSE [score |-> AllocationScore(entries), strategy |-> AllocationStrategy(entries)]

-----------------------------------------------------------------------------
(* The registry: the inputs a metric names *)

GrowthInputs ==
    [RevenueGrowth |-> {"REVENUE"},
     GrossMargin |-> {"GROSS_PROFIT", "REVENUE"},
     OperatingMargin |-> {"OPERATING_INCOME", "REVENUE"},
     NetMargin |-> {"NET_INCOME", "REVENUE"},
     FreeCashFlow |-> {"OPERATING_CASH_FLOW", "CAPEX"},
     FcfMargin |-> {"OPERATING_CASH_FLOW", "CAPEX", "REVENUE"}]

ReturnInputs ==
    [Roe |-> {"NET_INCOME", "EQUITY"},
     Nopat |-> {"OPERATING_INCOME", "INCOME_TAX", "PRETAX_INCOME"},
     InvestedCapital |-> {"TOTAL_ASSETS", "ACCOUNTS_PAYABLE", "CURRENT_LIABILITIES"},
     Roic |-> {"OPERATING_INCOME", "INCOME_TAX", "PRETAX_INCOME", "TOTAL_ASSETS"},
     IncrementalRoic |-> {"OPERATING_INCOME", "INCOME_TAX", "TOTAL_ASSETS"}]

Metric(n, f, p) ==
    CASE n = "RevenueGrowth" -> RevenueGrowth(f, p)
      [] n = "GrossMargin" -> GrossMargin(f)
      [] n = "OperatingMargin" -> OperatingMargin(f)
      [] n = "NetMargin" -> NetMargin(f)
      [] n = "FreeCashFlow" -> FreeCashFlow(f)
      [] n = "FcfMargin" -> FcfMargin(f)
      [] n = "Roe" -> Roe(f, p)
      [] n = "Nopat" -> Nopat(f)
      [] n = "InvestedCapital" -> InvestedCapital(f)
      [] n = "Roic" -> Roic(f, p)
      [] n = "IncrementalRoic" -> IncrementalRoic(f, p)

MaintenanceCapex(f, p) ==
    [anchor |-> DaAnchor(f), historical |-> HistoricalRatio(f),
     separated |-> GrowthSeparation(f, p), years |-> RangeOfYears(f, p)]

-----------------------------------------------------------------------------
(* Restatements *)

CalculationsInit == years = Reported /\ ledger = Allocated /\ restated = 0

\* A figure of a year is filed anew, or withdrawn.
Restate(y, c) ==
    /\ restated < MaxRestatements
    /\ restated' = restated + 1
    /\ \/ c \in DOMAIN years[y] /\ years' = [years EXCEPT ![y] = Drop(years[y], c)]
       \/ \E v \in Amounts : years' = [years EXCEPT ![y] = Set(years[y], c, v)]
    /\ UNCHANGED ledger

\* A year's return, or its cash flow per share, is assessed anew.
Reassess(i, c) ==
    /\ restated < MaxRestatements
    /\ restated' = restated + 1
    /\ c \in DOMAIN ledger[i]
    /\ \E v \in Amounts : ledger' = [ledger EXCEPT ![i] = Set(ledger[i], c, v)]
    /\ UNCHANGED years

CalculationsNext ==
    \/ \E y \in DOMAIN years : \E c \in DOMAIN Reported[y] : Restate(y, c)
    \/ \E i \in DOMAIN ledger, c \in {"ROIC", "FCF_PER_SHARE"} : Reassess(i, c)

CalculationsSpec == CalculationsInit /\ [][CalculationsNext]_figureVars

-----------------------------------------------------------------------------
(* Properties *)

Changed == {c \in DOMAIN Reported.now : \E y \in DOMAIN years :
                \/ c \in DOMAIN years[y] /\ c \notin DOMAIN years'[y]
                \/ c \notin DOMAIN years[y] /\ c \in DOMAIN years'[y]
                \/ c \in DOMAIN years[y] /\ c \in DOMAIN years'[y] /\ years[y][c] # years'[y][c]}

\* The inputs the calculators read beside those the registry names.
Unnamed ==
    [InvestedCapital |-> {"CASH"}, Roic |-> {"CASH", "ACCOUNTS_PAYABLE"},
     IncrementalRoic |-> {"CASH", "ACCOUNTS_PAYABLE", "PRETAX_INCOME"}]

SignOfCapexOnly(changed) ==
    /\ changed = {"CAPEX"}
    /\ \A y \in DOMAIN years : /\ Has(years[y], {"CAPEX"}) /\ Has(years'[y], {"CAPEX"})
                               /\ AbsOf(years[y]["CAPEX"]) = AbsOf(years'[y]["CAPEX"])

\* A restatement changes a metric only through an input the metric declares
\* in the registry, of this year or the one before, apart from the inputs of
\* Unnamed; capex counts the same with either sign; and raising the return of
\* one year, all else kept, never lowers the allocation score.
\* (calculators.py against framework.py 160-433, capital_allocation_ledger.py
\* 238-288)
InputsDecide ==
    [][/\ LET changed == Changed
              kept(n) == Metric(n, years.now, years.before) = Metric(n, years'.now, years'.before)
          IN years' # years =>
          /\ \A n \in DOMAIN GrowthInputs : changed \cap GrowthInputs[n] = {} => kept(n)
          /\ \A n \in DOMAIN ReturnInputs :
                changed \cap (ReturnInputs[n] \cup OrElse(Unnamed, n, {})) = {} => kept(n)
          /\ SignOfCapexOnly(changed)
                => /\ FreeCashFlow(years.now) = FreeCashFlow(years'.now)
                   /\ MaintenanceCapex(years.now, years.before) = MaintenanceCapex(years'.now, years'.before)
       /\ (\E i \in DOMAIN ledger :
              /\ ledger' # ledger
              /\ OrZero(ledger'[i], "ROIC") > OrZero(ledger[i], "ROIC")
              /\ ledger' = [ledger EXCEPT ![i] = ledger'[i]]
              /\ Drop(ledger[i], "ROIC") = Drop(ledger'[i], "ROIC"))
           => Aggregate(ledger').score >= Aggregate(ledger).score]_figureVars

Borrowings(f) == OrZero(f, "SHORT_TERM_DEBT") + OrZero(f, "CURRENT_PORTION") + OrZero(f, "LONG_TERM_DEBT")

\* The two implementations of economic debt, and the two of dilution, give
\* the same figure wherever both give one from the same facts; a strike of
\* zero is where they part.  (economic_debt_engine.py and
\* economic_analysis.py, dilution_engine.py and economic_analysis.py)
EnginesAgree ==
    LET f == years.now IN
    /\ (/\ CalculatorReportedDebt(f) # NoData
        /\ f["TOTAL_DEBT"] = Borrowings(f)
        /\ \A c \in {"CONVERTIBLES", "PREFERRED", "SUPPLIER_FINANCE", "FACTORING"} : OrZero(f, c) = 0
        /\ EngineDebt(f) # NoData)
         => EngineDebt(f) = CalculatorReportedDebt(f)
    /\ NoData \notin {EngineSbc(f), CalculatorSbc(f)} => EngineSbc(f) = CalculatorSbc(f)
    /\ (NoData \notin {EngineWarrants(f), CalculatorWarrants(f)} /\ f["STRIKE"] # 0)
         => EngineWarrants(f) = CalculatorWarrants(f)
=============================================================================
