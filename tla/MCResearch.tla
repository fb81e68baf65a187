----------------------------- MODULE MCResearch -----------------------------
(* The rules that turn figures into findings, values and grades, the report  *)
(* cards and the evidence of a scoring.  Each keeps state of its own, so     *)
(* their interleavings add nothing: in a behaviour one of them moves and the *)
(* others stay at the start.                                                 *)
EXTENDS Calculations, Valuations, PeerAnalysis, FactorPack,
        Grades, ReportCards, Evidence

VARIABLE turn

\* ReportCards: a company that amends its annual report, and one that files no
\* more; a card of each of the earlier version.
CardFiling(form, period, day, number, amends) ==
    [form |-> form, period |-> period, filed |-> day,
     accepted |-> day, number |-> number, amends |-> amends]
TwoCompanies ==
    << <<CardFiling("10-K", 2, 1, 1, ""), CardFiling("10-K/A", 1, 2, 2, "10-K")>>, <<>> >>
VerdictOf(grade, composite, action) ==
    [grade |-> grade, composite |-> composite, quality |-> 10, pqc |-> 20, letter |-> "B",
     action |-> action, veto |-> FALSE, catastrophe |-> FALSE, lane1 |-> TRUE,
     excluded |-> FALSE, tier |-> "ADEQUATE", facts |-> 3, complete |-> 80, route |-> "x",
     value |-> {8, 12}, own |-> {10}]
TwoVerdicts == {VerdictOf(80, 60, "BUY"), VerdictOf(60, 80, "HOLD")}
EarlierCards ==
    << [id |-> <<1, "10-K", 2, 1>>, company |-> 1, filing |-> TwoCompanies[1][1],
        verdict |-> VerdictOf(90, 90, "BUY"), scored |-> 1, approval |-> "RESEARCH_APPROVED",
        range |-> {}, prior |-> 0, restates |-> 0],
       [id |-> <<2, "10-Q", 2, 4>>, company |-> 2, filing |-> CardFiling("10-Q", 2, 1, 4, ""),
        verdict |-> VerdictOf(85, 70, "BUY"), scored |-> 1, approval |-> "RESEARCH_APPROVED",
        range |-> {}, prior |-> 0, restates |-> 0] >>

\* Evidence: two quarterly reports, two events and an insider's form.
Words(words, eps, rates, fees) ==
    [words |-> words, risk |-> [strong |-> 2, loss |-> 1], eps |-> eps, rates |-> rates,
     fees |-> fees]
FourTexts ==
    [k1 |-> Words([growth |-> 2, loss |-> 1], {9}, {5}, {[audit |-> 10, other |-> 4]}),
     k2 |-> Words([growth |-> 1, loss |-> 3], {12}, {}, {}),
     e1 |-> Words([auditor |-> 1, dismissed |-> 1], {}, {}, {}),
     e2 |-> Words([cfo |-> 1, ceo |-> 1], {}, {}, {[audit |-> 0, other |-> 4]})]
Paper(form, day, url, title) == [form |-> form, filed |-> day, url |-> url, title |-> title]
FivePapers ==
    <<Paper("10-Q", 1, "k1", {}), Paper("8-K", 2, "e1", {"auditor"}),
      Paper("10-Q", 3, "k2", {}), Paper("4", 3, "", {}), Paper("8-K", 4, "e2", {})>>

\* Calculations: a year of a sound company, the year before, its ledger.
Now ==
    [REVENUE |-> 60, GROSS_PROFIT |-> 30, OPERATING_INCOME |-> 12, NET_INCOME |-> 8,
     OPERATING_CASH_FLOW |-> 14, CAPEX |-> -6, EQUITY |-> 40, INCOME_TAX |-> 3,
     PRETAX_INCOME |-> 10, TOTAL_ASSETS |-> 90, CASH |-> 9, ACCOUNTS_PAYABLE |-> 7,
     PPE |-> 50, DEPRECIATION |-> 5, TOTAL_DEBT |-> 12, SHORT_TERM_DEBT |-> 2,
     LONG_TERM_DEBT |-> 10, OPERATING_LEASES |-> 3, FINANCE_LEASES |-> 2, PENSION |-> 4,
     SBC |-> 6, PRICE |-> 20, IN_THE_MONEY |-> 6, STRIKE |-> 12, SHARES |-> 30]
Before ==
    [REVENUE |-> 50, OPERATING_INCOME |-> 9, CAPEX |-> 5, EQUITY |-> 38, INCOME_TAX |-> 3,
     PRETAX_INCOME |-> 8, TOTAL_ASSETS |-> 80, CASH |-> 8, ACCOUNTS_PAYABLE |-> 6, PPE |-> 45]
TwoYears == [now |-> Now, before |-> Before]

Year(roic, wacc, perShare) ==
    [CAPEX |-> 5, DIVIDENDS |-> 3, ROIC |-> roic, WACC |-> wacc, FCF_PER_SHARE |-> perShare,
     ISSUED |-> 2]
ThreeYears == <<Year(-6, 3, 2), Year(14, 3, 3), Year(6, 3, 4)>>

SwingsOfSix == {-6, 6}

\* Valuations: the inputs, and what each may be revised to.
Firm ==
    [flows |-> 1 :> 1 @@ 2 :> 2, discount |-> 4, growth |-> 1, sector |-> "INDUSTRIAL",
     history |-> {"flows"}, debt |-> 30, interest |-> 3, cash |-> 6, marketCap |-> 60,
     ebitda |-> 12, fcf |-> 8, income |-> 8, dividend |-> 2, service |-> 6, due1 |-> 8,
     due3 |-> 10, dueLater |-> 12, opex |-> 6, price |-> 10, intrinsic |-> 12,
     price0 |-> 11, probability |-> 65, revenues |-> <<9, 8, 7>>, revenue |-> 9,
     flags |-> {}, margin |-> 15, marginBefore |-> 18, multiple |-> 20,
     multipleBefore |-> 15, consensus |-> 12, quote |-> 12, perShare |-> 0,
     beta |-> 1]
FirmChoices ==
    [debt |-> {0, 10, 48, 60}, interest |-> {0, 1, 6, 9}, cash |-> {0, 9, 20},
     marketCap |-> {0, 100}, ebitda |-> {-4, 4, 7, 30}, fcf |-> {-3, 0, 2, 5, 12},
     service |-> {2, 4, 12}, due1 |-> {0, 4, 20}, discount |-> {0, 1, 2, 6},
     growth |-> {0, 2, 4},
     flows |-> {2 :> 2, 1 :> -2 @@ 2 :> 2, 1 :> 1 @@ 2 :> -1},
     price |-> {6, 12, 16}, dividend |-> {0, 4}, quote |-> {0, 1, 11, 40, 250},
     perShare |-> {1, 20}, income |-> {3}, probability |-> {30, 50},
     revenues |-> {<<7, 8, 9>>}, beta |-> {2},
     flags |-> {{"regulator"}, {"buyer"}, {"buyer", "regulator"}}]

\* PeerAnalysis: eleven peers.
ElevenPeers == <<4, 1, 9, 3, 3, 7, 2, 8, 5, 6, 6>>
PeerLevels == {-20, 0, 5, 10, 12, 14, 20, 25, 35}

\* FactorPack: two years, and facts filed late.
FactorNow ==
    [REVENUE |-> 120, COST |-> 60, GROSS_PROFIT |-> 60, OPERATING_INCOME |-> 30,
     NET_INCOME |-> 20, OPERATING_CASH_FLOW |-> 32, CAPEX |-> 5, DIVIDENDS |-> 4,
     INTEREST |-> 4, CURRENT_ASSETS |-> 60, CURRENT_LIABILITIES |-> 20,
     TOTAL_ASSETS |-> 100, LIABILITIES |-> 20, EQUITY |-> 70, CASH |-> 20,
     SECURITIES |-> 5, RECEIVABLES |-> 10, PPE |-> 25, DEPRECIATION |-> 5, SGA |-> 20,
     LONG_TERM_DEBT |-> 10, RETAINED_EARNINGS |-> 30, SHARES |-> 10, INVENTORY |-> 5]
FactorBefore ==
    [REVENUE |-> 100, COST |-> 52, GROSS_PROFIT |-> 48, NET_INCOME |-> 15,
     CURRENT_ASSETS |-> 50, CURRENT_LIABILITIES |-> 20, TOTAL_ASSETS |-> 90,
     EQUITY |-> 60, RECEIVABLES |-> 9, PPE |-> 26, DEPRECIATION |-> 5, SGA |-> 18,
     LONG_TERM_DEBT |-> 12, SHARES |-> 10, INVENTORY |-> 4]
FactorPair == [now |-> FactorNow, before |-> FactorBefore]
FactorRevisions ==
    [NET_INCOME |-> {-20, -1, 5}, OPERATING_CASH_FLOW |-> {-30, -1, 3},
     REVENUE |-> {50, 300}, TOTAL_ASSETS |-> {40}, LIABILITIES |-> {0},
     EQUITY |-> {-90}, CURRENT_LIABILITIES |-> {45}]
LateFiled ==
    [concept : {"Revenues", "SalesRevenueNet"}, start : {1, 8}, end : {366},
     rank : {1, 2, 3}, value : {10, 20}, safe : {TRUE}, fy : {TRUE}]
    \cup [concept : {"Revenues"}, start : {1}, end : {366}, rank : {3}, value : {10},
          safe : BOOLEAN, fy : {FALSE}]
    \cup [concept : {"Revenues"}, start : {-365}, end : {0}, rank : {1, 2}, value : {10},
          safe : {TRUE}, fy : {TRUE}]

\* Grades: the statistics and the inputs of the grading.
SoundStats ==
    [REVENUE |-> 100, GROWTH |-> 8, NET_INCOME |-> 10, OWNER |-> 9, MARGIN |-> 10,
     OWNER_MARGIN |-> 9, ASSETS |-> 100, LIABILITIES |-> 40, DILUTION |-> 2,
     COVERAGE |-> 80, QUALITY |-> 70, AHIS |-> 66, BENEISH |-> -3, PIOTROSKI |-> 6,
     ALTMAN |-> 4]
StatRevisions ==
    [REVENUE |-> {0}, GROWTH |-> {-60, -20, 3}, NET_INCOME |-> {-5}, OWNER |-> {-5},
     MARGIN |-> {2}, ASSETS |-> {0, 50}, LIABILITIES |-> {70, 95}, DILUTION |-> {12, 30},
     COVERAGE |-> {40}, AHIS |-> {0, 40}, WARNINGS |-> {0, 1}, EPS |-> {-1}]
SoundEvidence ==
    [CASH |-> 95, ALLOCATION |-> 90, MARGINS |-> 90, BALANCE |-> 92, BENEISH |-> 5,
     EVENTS |-> 0, PENALTY |-> 80, FORECAST |-> 80, CURRENT |-> 78, COMPLETENESS |-> 90,
     DISPERSION |-> 10, RECENCY |-> 100, REQUIRED |-> 4, POPULATED |-> 4,
     SECTOR_TARGET |-> 10, SECTOR_CAP |-> 8, GOING_CONCERN |-> 0, RESTATEMENT |-> 0]
EvidenceRevisions ==
    [CASH |-> {20, 60}, BALANCE |-> {40}, BENEISH |-> {40, 120}, EVENTS |-> {30},
     FORECAST |-> {40, 99}, CURRENT |-> {90}, COMPLETENESS |-> {50, 130},
     DISPERSION |-> {150}, REQUIRED |-> {0, 8}, POPULATED |-> {2}, SECTOR_CAP |-> {0},
     SECTOR_TARGET |-> {0, 40}, GOING_CONCERN |-> {1}, RESTATEMENT |-> {1},
     PENALTY |-> {100}]

researchVars ==
    <<figureVars, firmVars, analysisVars, factorVars, gradeVars,
      cardVars, evidenceVars, turn>>

ResearchInit ==
    /\ turn \in {"calculations", "valuations", "peers", "factors", "grades", "cards",
               "evidence"}
    /\ CalculationsInit /\ ValuationsInit /\ AnalysisInit /\ FactorInit /\ GradesInit
    /\ CardsInit /\ EvidenceInit
    \* One profile is enough while the grading stays at the start.
    /\ turn # "grades" => profile.sector = "" /\ profile.sic = {}

ResearchNext ==
    /\ UNCHANGED turn
    /\ \/ turn = "calculations" /\ CalculationsNext
          /\ UNCHANGED <<firmVars, analysisVars, factorVars, gradeVars,
                      cardVars, evidenceVars>>
       \/ turn = "valuations" /\ ValuationsNext
          /\ UNCHANGED <<figureVars, analysisVars, factorVars, gradeVars,
                      cardVars, evidenceVars>>
       \/ turn = "peers" /\ AnalysisNext
          /\ UNCHANGED <<figureVars, firmVars, factorVars, gradeVars, cardVars, evidenceVars>>
       \/ turn = "factors" /\ FactorNext
          /\ UNCHANGED <<figureVars, firmVars, analysisVars, gradeVars,
                      cardVars, evidenceVars>>
       \/ turn = "grades" /\ GradesNext
          /\ UNCHANGED <<figureVars, firmVars, analysisVars, factorVars,
                      cardVars, evidenceVars>>
       \/ turn = "cards" /\ CardsNext
          /\ UNCHANGED <<figureVars, firmVars, analysisVars, factorVars,
                      gradeVars, evidenceVars>>
       \/ turn = "evidence" /\ EvidenceNext
          /\ UNCHANGED <<figureVars, firmVars, analysisVars, factorVars, gradeVars, cardVars>>

ResearchSpec == ResearchInit /\ [][ResearchNext]_researchVars
=============================================================================
