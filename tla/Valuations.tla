------------------------------ MODULE Valuations ------------------------------
(***************************************************************************)
(* The engines of src/accountant/valuation: discounted cash flow and what  *)
(* a market price implies, the cost of capital, credit quality, the        *)
(* capital structure, the bear case and special situations.                *)
(*                                                                         *)
(* The inputs of all of them are one record of figures, some missing, and  *)
(* they are revised one at a time.  Rates of the discounted cash flow are  *)
(* counted in RateUnit-ths, other rates in basis points; prices and flows  *)
(* per share in cents.                                                     *)
(***************************************************************************)
EXTENDS Figures, FiniteSets, Sequences

CONSTANTS
    Base,         \* the inputs before revisions
    ValuationChoices,      \* what each input may be revised to
    RateUnit,     \* one is 1/RateUnit of a rate
    Horizon,      \* DEFAULT_FORECAST_HORIZON
    PriceHorizon, \* years a market price is held against, 10 in the code
    Halvings,     \* iterations of the bisection, 20 in the code
    MaxRevisions  \* bound on revisions

\* What a market price is held against; a rate or growth is above -100%.
Searched == {"quote", "perShare", "discount", "growth"}
IsSearched(name, v) == v \in Int /\ (name \in {"discount", "growth"} => v > -RateUnit)

ASSUME PricesAssumption ==
    /\ RateUnit \in Nat \ {0} /\ PriceHorizon \in Nat /\ Halvings \in Nat \ {0}
    /\ \A n \in Searched : n \in DOMAIN Base /\ IsSearched(n, Base[n])
    /\ \A n \in Searched \cap DOMAIN ValuationChoices : \A v \in ValuationChoices[n] : IsSearched(n, v)

VARIABLES
    firm,     \* the inputs
    revised   \* how many revisions there were

firmVars == <<firm, revised>>

Positive(f, name) == OrZero(f, name) > 0

-----------------------------------------------------------------------------
(* Discounted cash flow.  A rate, or a horizon, of zero counts as missing. *)

OrDefault(f, name, default) == IF OrZero(f, name) = 0 THEN default ELSE f[name]
DiscountRate(f) == OrDefault(f, "discount", RateUnit \div 10)
TerminalGrowth(f) == OrDefault(f, "growth", RateUnit \div 40)

\* The flows that are known within the horizon; a gap keeps its place.
Flows(f) == DOMAIN f["flows"] \cap 1 .. Horizon

\* The present value as a ratio over the horizon's discount factor.
ForecastValue(f) ==
    LET q == RateUnit + DiscountRate(f)
        sum[i \in 0 .. Horizon] ==
            IF i = 0 THEN 0
            ELSE sum[i - 1] + (IF i \in Flows(f) THEN f["flows"][i] * RateUnit^i * q^(Horizon - i) ELSE 0)
    IN <<sum[Horizon], q^Horizon>>

\* The last known flow, growing for good; none when growth reaches the rate.
HasTerminal(f) == Flows(f) # {} /\ DiscountRate(f) > TerminalGrowth(f)

TerminalValue(f) ==
    LET last == CHOOSE i \in Flows(f) : \A j \in Flows(f) : j <= i
    IN <<f["flows"][last] * (RateUnit + TerminalGrowth(f)), DiscountRate(f) - TerminalGrowth(f)>>

Enterprise(f) ==
    LET v == ForecastValue(f)
        t == TerminalValue(f)
    IN IF HasTerminal(f) THEN <<v[1] * t[2] + t[1] * RateUnit^Horizon, v[2] * t[2]>> ELSE v

Dcf(f) ==
    IF DOMAIN f["flows"] = {} THEN NoData
    ELSE [status |-> "VALID", value |-> Enterprise(f)]

MethodApplies(f, method) ==
    CASE method = "DCF" -> IF f["sector"] \in {"FINANCIAL", "REIT"} THEN "NOT_APPLICABLE"
                           ELSE IF "flows" \in f["history"] THEN "APPLICABLE" ELSE "INSUFFICIENT_DATA"
      [] method = "DIVIDEND_DISCOUNT" -> IF "dividends" \in f["history"] THEN "APPLICABLE" ELSE "NOT_APPLICABLE"
      [] method = "HISTORICAL_MULTIPLES" -> IF "multiples" \in f["history"] THEN "APPLICABLE" ELSE "INSUFFICIENT_DATA"
      [] method = "PEER_MULTIPLES" -> IF "peers" \in f["history"] THEN "APPLICABLE" ELSE "INSUFFICIENT_DATA"
      [] method = "SUM_OF_PARTS" -> IF "segments" \in f["history"] THEN "APPLICABLE" ELSE "NOT_APPLICABLE"
      [] method = "NET_ASSET_VALUE" -> IF f["sector"] \in {"FINANCIAL", "REIT"} THEN "APPLICABLE" ELSE "NOT_APPLICABLE"
      [] OTHER -> "INSUFFICIENT_DATA"

-----------------------------------------------------------------------------
(* The cost of capital, in basis points *)

CostOfEquity(f) == OrDefault(f, "riskFree", 450) + OrDefault(f, "beta", 1) * OrDefault(f, "premium", 600)

\* After tax; missing when the debt or its interest is.
CostOfDebt(f) ==
    IF ~Positive(f, "debt") \/ ~Positive(f, "interest") THEN NoData
    ELSE Valid(f["interest"] * 100 * (100 - OrDefault(f, "taxRate", 21)), f["debt"])

\* Debt without a known cost weighs in at no cost.
Wacc(f) ==
    LET value == OrZero(f, "marketCap") + OrZero(f, "debt")
        interest == IF CostOfDebt(f) = NoData THEN 0 ELSE CostOfDebt(f).value[1]
    IN IF value <= 0 THEN NoData ELSE Valid(OrZero(f, "marketCap") * CostOfEquity(f) + interest, value)

\* The sensitivities multiply by a cost of debt that may be missing.
WaccRaises(f) ==
    /\ Positive(f, "marketCap")
    /\ Positive(f, "debt")
    /\ CostOfDebt(f) = NoData

StructureOf(f) ==
    LET debt == 100 * OrZero(f, "debt")
        value == OrZero(f, "marketCap") + OrZero(f, "debt")
    IN IF value <= 0 THEN "NONE"
       ELSE IF debt > 60 * value THEN "DEBT_HEAVY"
       ELSE IF debt >= 40 * value THEN "BALANCED"
       ELSE IF debt > 0 THEN "EQUITY_HEAVY"
       ELSE "NO_DEBT"

-----------------------------------------------------------------------------
(* What a price implies: a bisection over the grid of 2^Halvings cells *)

\* How many cells so many halvings leave one of.
Cells[i \in 0 .. Halvings] == IF i = 0 THEN 1 ELSE 2 * Cells[i - 1]
Grid == Cells[Halvings]

\* The search goes up from the places of up and down elsewhere.  It ends
\* early at a hit, where the price computed is the one given to within a cent.
Search(up, hits) ==
    LET step[i \in 0 .. Halvings] ==
            IF i = 0 THEN [low |-> 0, high |-> Grid, mid |-> -1]
            ELSE LET s == step[i - 1]
                     mid == (s.low + s.high) \div 2
                 IN IF s.mid \in hits THEN s
                    ELSE IF mid \in up THEN [low |-> mid, high |-> s.high, mid |-> mid]
                    ELSE [low |-> s.low, high |-> mid, mid |-> mid]
    IN step[Halvings].mid

\* Growth is searched from -1% to 4%, the rate from 1% to 30%, a place of the
\* grid apart; the unit is a Grid-th of a per cent.
One == 100 * Grid
GrowthAt(place) == 5 * place - Grid
RateAt(place) == 29 * place + Grid
InUnits(rate) == (One * rate) \div RateUnit
RateGiven(f) == InUnits(DiscountRate(f))
GrowthGiven(f) == InUnits(TerminalGrowth(f))

Powers(x) ==
    LET power[i \in 0 .. PriceHorizon] == IF i = 0 THEN 1 ELSE x * power[i - 1]
    IN power

\* Flows that grow from each year to the next by a factor, carried to the last.
Annuity(factor, q) ==
    LET sum[i \in 0 .. PriceHorizon] == IF i = 0 THEN 0 ELSE q * sum[i - 1] + Powers(factor)[i]
    IN sum[PriceHorizon]

\* The price computed, as a ratio: the flows of the years, and that of the last
\* year, which is the first grown by another factor, growing for good.
PriceOf(f, rate, factor, lastFactor, growth) ==
    LET q == One + rate
    IN <<f["perShare"] * (Annuity(factor, q) * (rate - growth) + Powers(lastFactor)[PriceHorizon] * (One + growth)),
         Powers(q)[PriceHorizon] * (rate - growth)>>

PriceAt(f, rate, growth) == PriceOf(f, rate, One, One + growth, growth)

UnderQuote(price, f) == price[1] < f["quote"] * price[2]
OverQuote(price, f) == price[1] > f["quote"] * price[2]
WithinACent(price, f) == AbsOf(price[1] - f["quote"] * price[2]) < price[2]

\* A growth the rate does not exceed is too high, and no price is computed of it.
GrowthTooLow(f) == {g \in 0 .. Grid : GrowthAt(g) < RateGiven(f) /\ UnderQuote(PriceAt(f, RateGiven(f), GrowthAt(g)), f)}
GrowthHits(f) == {g \in 0 .. Grid : GrowthAt(g) < RateGiven(f) /\ WithinACent(PriceAt(f, RateGiven(f), GrowthAt(g)), f)}

\* A rate that does not exceed the growth is too low.
RateTooLow(f) == {r \in 0 .. Grid : RateAt(r) <= GrowthGiven(f) \/ OverQuote(PriceAt(f, RateAt(r), GrowthGiven(f)), f)}
RateHits(f) == {r \in 0 .. Grid : RateAt(r) > GrowthGiven(f) /\ WithinACent(PriceAt(f, RateAt(r), GrowthGiven(f)), f)}

\* Mutant of ImpliedGrowth: the half that holds the price is thrown away.
ImpliedGrowthAway(f) == Search({g \in 0 .. Grid : GrowthAt(g) < RateGiven(f)} \ GrowthTooLow(f), GrowthHits(f))

ImpliedGrowth(f) == Search(GrowthTooLow(f), GrowthHits(f))
ImpliedRate(f) == Search(RateTooLow(f), RateHits(f))

\* Here the flows grow with the revenue and the last for good at 2.5%.  The
\* price computed does not depend on the margin: the search runs to one end, or
\* ends at once.  (A rate of 2.5% divides by zero, as in the code.)
ImpliedMargin(f) ==
    LET factor == One + InUnits(f["expansion"])
        of == PriceOf(f, RateGiven(f), factor, factor, (5 * Grid) \div 2)
        price == Ratio(of[1], of[2])
    IN Search(IF UnderQuote(price, f) THEN {} ELSE 0 .. Grid, IF WithinACent(price, f) THEN 0 .. Grid ELSE {})

\* Growth is always within its bounds; rates between 5 and 25 of 1 to 30%.
ReverseDcf(f, variable) ==
    IF ~Positive(f, "perShare") \/ OrZero(f, "quote") = 0 THEN "INSUFFICIENT_DATA"
    ELSE IF variable = "TERMINAL_GROWTH_RATE" THEN "SOLVED"
    ELSE IF variable # "DISCOUNT_RATE" THEN "INSUFFICIENT_DATA"
    ELSE IF RateAt(ImpliedRate(f)) \in 5 * Grid .. 25 * Grid THEN "SOLVED"
    ELSE "OUT_OF_BOUNDS"

-----------------------------------------------------------------------------
(* Credit quality: four scores, a total only of all four *)

NetDebt(f) == IF Positive(f, "debt") THEN f["debt"] - OrZero(f, "cash") ELSE 0

\* Net debt, or what else is given, in multiples of a flow.
Multiple(amount, f, flow) == IF amount > 0 /\ Positive(f, flow) THEN Valid(amount, f[flow]) ELSE NoData
NetLeverage(f) == Multiple(NetDebt(f), f, "ebitda")
DebtToFcf(f) == Multiple(OrZero(f, "debt"), f, "fcf")

Coverage(f, flow, of) ==
    IF Positive(f, flow) /\ Positive(f, of) THEN Valid(f[flow], f[of]) ELSE NoData

Due(f) == <<OrZero(f, "due1"), OrZero(f, "due3"), OrZero(f, "due5"), OrZero(f, "dueLater")>>
Falling(f) == Due(f)[1] + Due(f)[2] + Due(f)[3] + Due(f)[4]
NearTerm(f) == IF Falling(f) > 0 THEN Valid(100 * Due(f)[1], Falling(f)) ELSE NoData

Concentration(f) ==
    LET largest == CHOOSE n \in {Due(f)[i] : i \in 1 .. 4} : \A i \in 1 .. 4 : Due(f)[i] <= n
    IN IF Falling(f) <= 0 THEN "BALANCED"
       ELSE IF 2 * largest > Falling(f) THEN "CONCENTRATED"
       ELSE IF 5 * largest < Falling(f) THEN "LADDERED"
       ELSE "BALANCED"

Points == <<25, 20, 15, 8, 2>>

\* The points of the first limit, in tenths, that the ratio does not pass.
AtMost(r, limits) ==
    IF r = NoData THEN NoData
    ELSE LET met == {i \in DOMAIN limits : 10 * r.value[1] <= limits[i] * r.value[2]}
         IN Valid(Points[IF met = {} THEN 5 ELSE CHOOSE i \in met : \A j \in met : i <= j], 1)
AtLeast(r, limits) ==
    IF r = NoData THEN NoData
    ELSE LET met == {i \in DOMAIN limits : 100 * r.value[1] >= limits[i] * r.value[2]}
         IN Valid(Points[IF met = {} THEN 5 ELSE CHOOSE i \in met : \A j \in met : i <= j], 1)

ScoreLeverage(f) == AtMost(NetLeverage(f), <<10, 20, 30, 40>>)
ScoreCoverage(f) == AtLeast(Coverage(f, "ebitda", "interest"), <<800, 500, 300, 150>>)
\* Mutant of ScoreLiquidity: the debt service is taken for the cash.
ScoreLiquidityInverted(f) == AtLeast(Coverage(f, "service", "cash"), <<150, 100, 75, 50>>)

ScoreLiquidity(f) == AtLeast(Coverage(f, "cash", "service"), <<150, 100, 75, 50>>)
ScoreMaturity(f) == AtMost(NearTerm(f), <<200, 300, 400, 500>>)

CreditScore(f) ==
    LET scores == <<ScoreLeverage(f), ScoreCoverage(f), ScoreLiquidity(f), ScoreMaturity(f)>>
    IN IF \E i \in 1 .. 4 : scores[i] = NoData THEN NoData
       ELSE Valid(scores[1].value[1] + scores[2].value[1] + scores[3].value[1] + scores[4].value[1], 1)

CreditQuality(f) ==
    LET s == CreditScore(f) IN
    IF s = NoData THEN 0
    ELSE IF s.value[1] >= 85 THEN 5
    ELSE IF s.value[1] >= 65 THEN 4
    ELSE IF s.value[1] >= 45 THEN 3
    ELSE IF s.value[1] >= 25 THEN 2
    ELSE 1

-----------------------------------------------------------------------------
(* The capital structure.  Without earnings the leverage counts as none. *)

LeverageOf(f) ==
    IF Positive(f, "ebitda") THEN Ratio(OrZero(f, "debt") - OrZero(f, "cash"), f["ebitda"]) ELSE <<0, 1>>

\* From distressed, 1, to rich in cash, 5.
CapStructure(f) ==
    LET x == LeverageOf(f) IN
    IF 5 * OrZero(f, "cash") > OrZero(f, "marketCap") + OrZero(f, "debt") THEN 5
    ELSE IF x[1] < x[2] THEN 4
    ELSE IF 2 * x[1] < 7 * x[2] THEN 3
    ELSE IF x[1] < 4 * x[2] THEN 2
    ELSE 1

\* Half a year of operating cost is kept; without the cost, nothing is.
ExcessCash(f) == Larger(0, 2 * OrZero(f, "cash") - OrZero(f, "opex"))

\* In halves of a turn.
TargetLeverage(f) == CASE f["sector"] \in {"TECHNOLOGY", "HEALTHCARE"} -> 3
                       [] f["sector"] = "UTILITY" -> 5
                       [] f["sector"] = "FINANCIAL" -> 2
                       [] OTHER -> 4

\* Borrow, hold or reduce: 3, 2 or 1.
LeverageAdvice(f) ==
    LET x == LeverageOf(f)
        room == TargetLeverage(f) * x[2] - 2 * x[1]
    IN IF room > x[2] THEN 3 ELSE IF room > 0 THEN 2 ELSE 1

BuybackAdvice(f) ==
    LET gap == 100 * (f["intrinsic"] - f["price"]) IN
    IF gap < 0 THEN "NONE"
    ELSE IF gap > 20 * f["intrinsic"] THEN "AGGRESSIVE"
    ELSE IF gap > 10 * f["intrinsic"] THEN "MODERATE"
    ELSE "CONSERVATIVE"

\* Expand, maintain or reduce: 3, 2 or 1.  No dividend is not covered.
DividendAdvice(f) ==
    LET paid == OrZero(f, "dividend") IN
    IF paid = 0 \/ OrZero(f, "fcf") < paid THEN 1
    ELSE IF Positive(f, "income") /\ 10 * paid > 6 * f["income"] THEN 1
    ELSE IF 10 * paid < 3 * OrZero(f, "fcf") THEN 3
    ELSE 2

\* What the excess cash is put to.
Allocation(f) ==
    IF ExcessCash(f) = 0 THEN {}
    ELSE {use \in {"buyback", "dividend", "debt_reduction"} :
            CASE use = "buyback" -> BuybackAdvice(f) \in {"MODERATE", "AGGRESSIVE"}
              [] use = "dividend" -> DividendAdvice(f) = 3
              [] use = "debt_reduction" -> LeverageOf(f)[1] > LeverageOf(f)[2]}

-----------------------------------------------------------------------------
(* The bear case *)

CriticalBreakers(f) ==
    {b \in {"NEGATIVE_FCF", "DECLINING_REVENUE", "UNSUSTAINABLE_DEBT"} :
        CASE b = "NEGATIVE_FCF" -> OrZero(f, "fcf") < 0
          [] b = "DECLINING_REVENUE" ->
                /\ Len(f["revenues"]) >= 2
                /\ Cardinality({i \in 2 .. Len(f["revenues"]) : f["revenues"][i] < f["revenues"][i - 1]}) >= 2
          [] b = "UNSUSTAINABLE_DEBT" ->
                LET x == NetLeverage(f)
                    c == Coverage(f, "fcf", "interest")
                IN NoData \notin {x, c} /\ x.value[1] > 4 * x.value[2] /\ 2 * c.value[1] < 3 * c.value[2]}

OtherBreakers(f) ==
    {b \in {"CUSTOMER_CONCENTRATION", "CAPEX_INFLATION", "REGULATORY_RISK", "GOODWILL_IMPAIRMENT"} :
        CASE b = "CUSTOMER_CONCENTRATION" -> OrZero(f, "topCustomers") > 50
          [] b = "CAPEX_INFLATION" ->
                /\ \A n \in {"capex", "capexPrior", "revenue", "revenuePrior"} : Positive(f, n)
                /\ 100 * f["capex"] * f["revenuePrior"] > 115 * f["revenue"] * f["capexPrior"]
          [] b = "REGULATORY_RISK" -> "regulator" \in f["flags"]
          [] b = "GOODWILL_IMPAIRMENT" -> "goodwill" \in f["flags"]}

\* Points of each risk, a tenth of its probability.
RiskPoints(f) ==
    LET lost(now, before, each) ==
            IF Has(f, {now, before}) /\ f[now] < f[before] THEN Smaller(10, each * (f[before] - f[now])) ELSE 0
    IN lost("share", "shareBefore", 2)
       + lost("margin", "marginBefore", 1)
       + (IF Has(f, {"multiple", "multipleBefore"}) /\ 10 * f["multiple"] > 12 * f["multipleBefore"] THEN 6 ELSE 0)
       + (IF Has(f, {"revenue"}) THEN 4 ELSE 0)
       + (IF DebtToFcf(f) # NoData /\ DebtToFcf(f).value[1] > 3 * DebtToFcf(f).value[2] THEN 7 ELSE 0)

\* The risk of a capex above 8% of revenue names a member that is not there.
RiskRaises(f) == OrZero(f, "capexIntensity") > 8

BearScore(f) == Smaller(100, (IF CriticalBreakers(f) # {} THEN 75 ELSE 0) + RiskPoints(f))

\* The three scenarios leave 690, 887 and 658 thousandths of the price; their
\* weights, taken a third each time, sum to less than a third.
Scenario(f, which) ==
    CASE which = "RECESSION" -> 690 * OrZero(f, "price")
      [] which = "MARGIN_COMPRESSION" -> 887 * OrZero(f, "price")
      [] which = "REGULATORY" -> 658 * OrZero(f, "price")
      [] which = "COMBINED" -> ((690 * 35 + 887 * 30 + 658 * 20) * 33 * OrZero(f, "price")) \div 10000

BearAction(f) ==
    IF BearScore(f) >= 75 THEN "AVOID"
    ELSE IF BearScore(f) >= 60 THEN "REDUCE"
    ELSE IF Positive(f, "consensus") /\ Scenario(f, "COMBINED") < 850 * OrZero(f, "consensus") THEN "RELATIVE_VALUE"
    ELSE "HOLD"

-----------------------------------------------------------------------------
(* Special situations *)

ControlPremium(f) ==
    Within(30 + (IF "buyer" \in f["flags"] THEN 10 ELSE 0) - (IF "regulator" \in f["flags"] THEN 10 ELSE 0), 15, 45)
DealLikelihood(f) ==
    Within(35 + (IF "buyer" \in f["flags"] THEN 15 ELSE 0) - (IF "regulator" \in f["flags"] THEN 10 ELSE 0), 10, 90)

\* An offer is at a premium of 30% unless it is given.
TenderDownside(f) == IF 10 * OrElse(f, "offer", (13 * f["price"]) \div 10) > 11 * f["price"] THEN -20 ELSE -10

SumOfParts(f) ==
    f["revenue"] * f["margin"] * (IF f["margin"] > 20 THEN 15 ELSE 12)
    + f["spunRevenue"] * f["spunMargin"] * (IF f["spunMargin"] > 15 THEN 20 ELSE 15)

\* What equity keeps of the enterprise, and how far the lost debt dilutes it.
Restructured(f, kind) ==
    LET keeps == IF kind = "CHAPTER_11" THEN 5 ELSE 10
        lost == IF kind = "CHAPTER_11" THEN 30 ELSE 20
    IN Ratio(OrZero(f, "debt") * lost, Larger(100, OrZero(f, "enterprise") * keeps))

\* Expected over a bear case of 80 and a bull case of 125 per cent, times 10000.
ExpectedPrice(f) == f["price0"] * (80 * (100 - f["probability"]) + 125 * f["probability"])

\* Buy, hold or reduce: 3, 2 or 1.
SituationAction(f) ==
    LET dear == 10000 * f["price"] - ExpectedPrice(f) IN
    IF 100 * dear < -5 * ExpectedPrice(f) /\ f["probability"] > 40 THEN 3
    ELSE IF 100 * dear > 5 * ExpectedPrice(f) /\ f["probability"] > 60 THEN 1
    ELSE 2

-----------------------------------------------------------------------------
(* Revisions *)

ValuationsInit == firm = Base /\ revised = 0

Revise(name) ==
    /\ revised < MaxRevisions
    /\ revised' = revised + 1
    /\ \E v \in ValuationChoices[name] : firm' = Set(firm, name, v)

Withdraw(name) ==
    /\ revised < MaxRevisions
    /\ revised' = revised + 1
    /\ name \in DOMAIN firm
    /\ firm' = Drop(firm, name)

\* A figure is revised, and one that may be missing withdrawn.
ValuationsNext ==
    \/ \E name \in DOMAIN ValuationChoices : Revise(name)
    \/ \E name \in {"interest", "cash", "debt"} : Withdraw(name)

ValuationsSpec == ValuationsInit /\ [][ValuationsNext]_firmVars

-----------------------------------------------------------------------------
(* Properties *)

Rose(name) == Has(firm, {name}) /\ Has(firm', {name}) /\ firm'[name] > firm[name]
              /\ \A n \in DOMAIN firm : n # name => firm'[n] = firm[n]
Fell(name) == Has(firm, {name}) /\ Has(firm', {name}) /\ firm'[name] < firm[name]
              /\ \A n \in DOMAIN firm : n # name => firm'[n] = firm[n]

\* The firm borrows more, earns less, holds less cash or owes more soon.
Weakens ==
    \/ \E n \in {"debt", "interest", "service", "due1"} : Rose(n)
    \/ Fell("cash") \/ (Fell("ebitda") /\ Positive(firm', "ebitda"))
    \/ (Fell("fcf") /\ Positive(firm', "fcf"))

NotAbove(a, b) == NoData \in {a, b} \/ ~Less(b.value, a.value)

\* A revision that only weakens the firm improves no judgement of it: not its
\* credit, its capital structure, the advice on its debt and dividend, or its
\* bear case; dearer debt makes capital no cheaper, a higher rate makes a firm
\* worth no more, a regulator makes no deal likelier, and a higher price is no
\* reason to buy.  Where an input is missing there is no judgement to compare,
\* and a firm without earnings counts as one without leverage.
\* (credit_engine.py, capital_structure_engine.py, bear_case_engine.py,
\* wacc_engine.py, valuation_engine.py)
WeakerNeverRatesBetter ==
    [][/\ Weakens =>
            /\ NotAbove(CreditScore(firm'), CreditScore(firm))
            /\ CreditScore(firm') # NoData => CreditScore(firm) = NoData \/ CreditQuality(firm') <= CreditQuality(firm)
            /\ CapStructure(firm') <= CapStructure(firm)
            /\ LeverageAdvice(firm') <= LeverageAdvice(firm)
            /\ DividendAdvice(firm') <= DividendAdvice(firm)
            /\ BearScore(firm') >= BearScore(firm)
            /\ BearAction(firm) = "AVOID" => BearAction(firm') = "AVOID"
       /\ Rose("interest") => NotAbove(Wacc(firm), Wacc(firm'))
       /\ (Rose("discount") /\ firm["discount"] # 0 /\ HasTerminal(firm) /\ \A i \in Flows(firm) : firm["flows"][i] >= 0) => NotAbove(Dcf(firm'), Dcf(firm))
       /\ firm'["flags"] = firm["flags"] \cup {"regulator"} =>
            DealLikelihood(firm') <= DealLikelihood(firm) /\ ControlPremium(firm') <= ControlPremium(firm)
       /\ Rose("price") => SituationAction(firm') <= SituationAction(firm)
      ]_firm

\* The search has found a price within a cent, or the one cell in which the
\* price computed passes the one given; an end of the grid only when the price
\* given lies beyond it.
Finds(found, up, hits) ==
    \/ found \in hits
    \/ \E low \in 0 .. Grid - 1 :
          /\ found \in {low, low + 1}
          /\ low \in up \/ (low = 0 /\ up = {})
          /\ low + 1 \notin up \/ (low + 1 = Grid /\ up = 0 .. Grid)

\* The bisection finds what the price implies: it never loses the side the
\* price is on, whether it narrows to one cell, ends within a cent, or skips the
\* places at which no price is computed.  (reverse_dcf_engine.py 111-212)
SearchFindsPrice ==
    Positive(firm, "perShare") /\ firm["quote"] # 0 =>
        /\ Finds(ImpliedGrowth(firm), GrowthTooLow(firm), GrowthHits(firm))
        /\ Finds(ImpliedRate(firm), RateTooLow(firm), RateHits(firm))
=============================================================================
