---------------------------- MODULE AnalysisProofs ----------------------------
(***************************************************************************)
(* The rules that turn figures into findings, values and grades, for any   *)
(* figures and revisions of them.                                          *)
(*                                                                         *)
(* Calculations: the two engines agree on what is owed.                    *)
(* PeerAnalysis: what is worse never finds or scores less.                 *)
(* Valuations: the bisection finds what a price implies.                   *)
(* FactorPack: a late fact decides nothing, and no company that loses      *)
(* money or burns cash passes for the portfolio.                           *)
(* Grades: worse figures name no milder blocker, worse evidence gives no   *)
(* larger position.                                                        *)
(*                                                                         *)
(* Totals and searches are functions computed step by step; that there are *)
(* such functions comes first.                                             *)
(***************************************************************************)
EXTENDS Calculations, PeerAnalysis, Valuations, FactorPack, Grades,
        FiniteSetTheorems, WellFoundedInduction, TLAPS

-----------------------------------------------------------------------------
(* Functions computed step by step *)

\* A set of numbers that is not empty has a least one.
LEMMA LeastNumber ==
    ASSUME NEW T \in SUBSET Nat, T # {}
    PROVE  \E x \in T : \A y \in T : x <= y
<1> DEFINE R == OpToRel(<, Nat)
<1>1. IsWellFoundedOn(R, Nat)
  BY NatLessThanWellFounded
<1>2. \A x, y \in Nat : y < x => <<y, x>> \in R
  BY DEF OpToRel
<1> HIDE DEF R
<1>3. PICK x \in T : \A y \in T : ~ (<<y, x>> \in R)
  BY <1>1, WFMin
<1>4. ASSUME NEW y \in T PROVE x <= y
  <2>1. ~ (y < x)
    BY <1>2, <1>3
  <2>2. QED
    BY <2>1
<1>5. QED
  BY <1>4

\* From a start, each value from the one before it: there is such a function.
Steps(g, start, n, F) == g[0] = start /\ \A i \in 1 .. n : g[i] = F[i][g[i - 1]]

LEMMA StepByStep ==
    ASSUME NEW T, NEW start \in T, NEW n \in Nat, NEW F \in [1 .. n -> [T -> T]]
    PROVE  \E g \in [0 .. n -> T] : Steps(g, start, n, F)
<1> DEFINE Made(g, m) == Steps(g, start, m, F)
           Failed == {m \in Nat : m <= n /\ ~ \E g \in [0 .. m -> T] : Made(g, m)}
<1>1. SUFFICES ASSUME Failed # {} PROVE FALSE
  <2>1. n \in Failed \/ \E g \in [0 .. n -> T] : Made(g, n)
    OBVIOUS
  <2>2. QED
    BY <2>1
<1>2. PICK m \in Failed : \A k \in Failed : m <= k
  <2>1. Failed \in SUBSET Nat
    OBVIOUS
  <2> HIDE DEF Failed
  <2>2. QED
    BY <1>1, <2>1, LeastNumber
<1>3. m \in Nat /\ m <= n /\ ~ \E g \in [0 .. m -> T] : Made(g, m)
  OBVIOUS
<1>4. CASE m = 0
  <2> DEFINE g == [k \in 0 .. 0 |-> start]
  <2>1. g \in [0 .. m -> T] /\ Made(g, m)
    BY <1>4 DEF Steps
  <2> HIDE DEF g
  <2>2. QED
    BY <1>3, <2>1
<1>5. CASE m # 0
  <2>1. m - 1 \in Nat /\ m - 1 <= n /\ m - 1 \notin Failed
    <3>1. \A k \in Failed : m <= k
      BY <1>2
    <3> HIDE DEF Failed
    <3>2. QED
      BY <1>3, <1>5, <3>1
  <2>2. PICK g \in [0 .. m - 1 -> T] : Made(g, m - 1)
    BY <2>1
  <2> DEFINE last == F[m][g[m - 1]]
             h == [k \in 0 .. m |-> IF k = m THEN last ELSE g[k]]
  <2>3. last \in T
    <3>1. m - 1 \in 0 .. m - 1 /\ m \in 1 .. n
      BY <1>3, <1>5, <2>1
    <3>2. g[m - 1] \in T
      BY <3>1
    <3>3. QED
      BY <3>1, <3>2
  <2>4. \A k \in 0 .. m - 1 : h[k] = g[k] /\ g[k] \in T
    BY <1>3
  <2>5. h[m] = last /\ h \in [0 .. m -> T]
    BY <1>3, <2>3
  <2> HIDE DEF h
  <2>6. ASSUME NEW i \in 1 .. m
        PROVE  h[i] = F[i][h[i - 1]]
    <3>1. i - 1 \in 0 .. m - 1
      BY <1>3
    <3>2. h[i - 1] = g[i - 1]
      BY <2>4, <3>1
    <3>3. CASE i = m
      BY <2>5, <3>2, <3>3
    <3>4. CASE i # m
      <4>1. i \in 1 .. m - 1 /\ i \in 0 .. m - 1
        BY <1>3, <3>4
      <4>2. g[i] = F[i][g[i - 1]]
        BY <2>2, <4>1 DEF Steps
      <4>3. QED
        BY <2>4, <3>2, <4>1, <4>2
    <3>5. QED
      BY <3>3, <3>4
  <2>7. h[0] = start
    <3>1. 0 \in 0 .. m - 1
      BY <1>3, <1>5
    <3>2. QED
      BY <2>2, <2>4, <3>1 DEF Steps
  <2>8. \E f \in [0 .. m -> T] : Made(f, m)
    BY <2>5, <2>6, <2>7 DEF Steps
  <2>9. QED
    BY <1>3, <2>8
<1>6. QED
  BY <1>4, <1>5

-----------------------------------------------------------------------------
(* Calculations *)

FiguresAreWhole ==
    /\ DOMAIN years = DOMAIN Reported
    /\ \A y \in DOMAIN years : \A c \in DOMAIN years[y] : years[y][c] \in Int

\* Restating a figure keeps it whole.
LEMMA FiguresStep == FiguresAreWhole /\ [CalculationsNext]_figureVars => FiguresAreWhole'
<1> SUFFICES ASSUME FiguresAreWhole, [CalculationsNext]_figureVars PROVE FiguresAreWhole'
  OBVIOUS
<1>1. ASSUME NEW y \in DOMAIN years, NEW c, Restate(y, c)
      PROVE  FiguresAreWhole'
  <2>1. CASE years' = [years EXCEPT ![y] = Drop(years[y], c)]
    <3>1. \A d \in DOMAIN Drop(years[y], c) : Drop(years[y], c)[d] \in Int
      BY DEF Drop, FiguresAreWhole
    <3>2. QED
      BY <2>1, <3>1 DEF FiguresAreWhole
  <2>2. CASE \E v \in Amounts : years' = [years EXCEPT ![y] = Set(years[y], c, v)]
    <3>1. PICK v \in Amounts : years' = [years EXCEPT ![y] = Set(years[y], c, v)]
      BY <2>2
    <3>2. \A d \in DOMAIN Set(years[y], c, v) : Set(years[y], c, v)[d] \in Int
      BY FiguresAssumption DEF Set, FiguresAreWhole
    <3>3. QED
      BY <3>1, <3>2 DEF FiguresAreWhole
  <2>3. QED
    BY <1>1, <2>1, <2>2 DEF Restate
<1>2. CASE UNCHANGED years
  BY <1>2 DEF FiguresAreWhole
<1>3. QED
  BY <1>1, <1>2 DEF CalculationsNext, Reassess, figureVars

\* Of whole figures the two implementations agree.
LEMMA WholeFiguresAgree == FiguresAreWhole => EnginesAgree
<1> SUFFICES ASSUME FiguresAreWhole PROVE EnginesAgree
  OBVIOUS
<1> DEFINE f == years.now
<1>1. \A c \in DOMAIN f : f[c] \in Int
  BY FiguresAssumption DEF FiguresAreWhole
<1>2. \A c : OrZero(f, c) \in Int
  BY <1>1 DEF OrZero
<1> HIDE DEF f
<1>3. ASSUME CalculatorReportedDebt(f) # NoData,
             f["TOTAL_DEBT"] = Borrowings(f),
             \A c \in {"CONVERTIBLES", "PREFERRED", "SUPPLIER_FINANCE", "FACTORING"} : OrZero(f, c) = 0,
             EngineDebt(f) # NoData
      PROVE  EngineDebt(f) = CalculatorReportedDebt(f)
  <2> DEFINE owed == Borrowings(f) + OrZero(f, "OPERATING_LEASES") + OrZero(f, "FINANCE_LEASES")
                     + OrZero(f, "PENSION") + OrZero(f, "OTHER_CLAIMS")
  <2>1. EngineAdjustedDebt(f) = owed
    BY <1>2, <1>3 DEF EngineAdjustedDebt, EngineReportedDebt, Borrowings
  <2>2. EngineDebt(f) = Valid(owed, 1)
    BY <1>3, <2>1 DEF EngineDebt
  <2>3. CalculatorReportedDebt(f) = Valid(owed, 1)
    BY <1>3 DEF CalculatorReportedDebt
  <2>4. QED
    BY <2>2, <2>3
<1>4. NoData \notin {EngineSbc(f), CalculatorSbc(f)} => EngineSbc(f) = CalculatorSbc(f)
  BY DEF EngineSbc, CalculatorSbc
<1>5. ASSUME NoData \notin {EngineWarrants(f), CalculatorWarrants(f)}, f["STRIKE"] # 0
      PROVE  EngineWarrants(f) = CalculatorWarrants(f)
  <2>1. "STRIKE" \in DOMAIN f /\ EngineWarrants(f) = Treasury(f["IN_THE_MONEY"], f["STRIKE"], f["PRICE"])
    BY <1>5 DEF EngineWarrants, Has
  <2>2. OrZero(f, "STRIKE") # 0
    BY <1>5, <2>1 DEF OrZero
  <2>3. QED
    BY <1>5, <2>1, <2>2 DEF CalculatorWarrants
<1>6. QED
  BY <1>3, <1>4, <1>5 DEF EnginesAgree, f

\* The two implementations of economic debt, of stock compensation and of
\* warrants agree wherever both give a figure from the same facts, whatever the
\* amounts and however they are restated.  (economic_debt_engine.py,
\* dilution_engine.py, economic_analysis.py)
THEOREM EnginesGiveOneFigure == CalculationsSpec => []EnginesAgree
<1>1. CalculationsInit => FiguresAreWhole
  BY FiguresAssumption DEF CalculationsInit, FiguresAreWhole
<1>2. QED
  BY <1>1, FiguresStep, WholeFiguresAgree, PTL DEF CalculationsSpec

-----------------------------------------------------------------------------
(* PeerAnalysis *)

\* Every rule has a level, and books and trend have whole figures.
AnalysisInv ==
    /\ levels \in [ScannedRules -> {-1, 0, 1}]
    /\ books \in [reported : Int, economic : Int]
    /\ trend \in [before : Int, z : Int]

LEMMA AnalysisStep == AnalysisInv /\ [AnalysisNext]_analysisVars => AnalysisInv'
<1> SUFFICES ASSUME AnalysisInv, [AnalysisNext]_analysisVars PROVE AnalysisInv'
  OBVIOUS
<1>1. ASSUME NEW r \in ScannedRules, ReviseLevel(r) PROVE AnalysisInv'
  BY <1>1 DEF AnalysisInv, ReviseLevel
<1>2. CASE ReviseBooks
  BY <1>2, PeersAssumption DEF AnalysisInv, ReviseBooks
<1>3. CASE ReviseTrend
  BY <1>3, PeersAssumption DEF AnalysisInv, ReviseTrend
<1>4. CASE UNCHANGED <<levels, books, trend>>
  BY <1>4 DEF AnalysisInv
<1>5. QED
  BY <1>1, <1>2, <1>3, <1>4 DEF AnalysisNext, RevisePeer, LosePeer, analysisVars

LEMMA QuotientGrows ==
    ASSUME NEW a \in Int, NEW b \in Int, NEW d \in Nat \ {0}, 0 <= a, a <= b
    PROVE  a \div d \in Int /\ b \div d \in Int /\ 0 <= a \div d /\ a \div d <= b \div d
OBVIOUS

LEMMA FewAreFinite ==
    ASSUME NEW a, NEW b, NEW c
    PROVE  IsFiniteSet({a, b, c})
<1>1. {a, b, c} = ({a} \cup {b}) \cup {c}
  OBVIOUS
<1>2. IsFiniteSet({a}) /\ IsFiniteSet({b}) /\ IsFiniteSet({c})
  BY FS_Singleton
<1>3. IsFiniteSet({a} \cup {b})
  BY <1>2, FS_Union
<1>4. IsFiniteSet(({a} \cup {b}) \cup {c})
  BY <1>2, <1>3, FS_Union
<1>5. QED
  BY <1>1, <1>4

LEMMA RulesAreFinite == IsFiniteSet(AlertRules) /\ IsFiniteSet(WarningRules)
<1> DEFINE revenue == {"REV_001", "REV_002", "REV_003"}
           assets == {"ASSET_002", "ASSET_003", "ASSET_004"}
           cash == {"CF_001", "CF_002", "CF_003"}
           others == {"EARN_002", "EARN_003", "EARN_002"} \cup {"LIAB_002", "LIAB_003", "LIAB_002"}
<1>1. /\ IsFiniteSet(revenue) /\ IsFiniteSet(assets) /\ IsFiniteSet(cash)
      /\ IsFiniteSet({"EARN_002", "EARN_003", "EARN_002"}) /\ IsFiniteSet({"LIAB_002", "LIAB_003", "LIAB_002"})
      /\ IsFiniteSet({"REV_004", "EARN_001", "ASSET_001"}) /\ IsFiniteSet({"LIAB_001"})
  BY FewAreFinite, FS_Singleton
<1>2. WarningRules = ((revenue \cup assets) \cup cash) \cup others
  BY DEF WarningRules
<1>3. AlertRules = {"REV_004", "EARN_001", "ASSET_001"} \cup {"LIAB_001"}
  BY DEF AlertRules
<1>4. IsFiniteSet(others) /\ IsFiniteSet(revenue \cup assets) /\ IsFiniteSet((revenue \cup assets) \cup cash)
  BY <1>1, FS_Union
<1>5. IsFiniteSet(((revenue \cup assets) \cup cash) \cup others)
  <2> HIDE DEF revenue, assets, cash, others
  <2>1. QED
    BY <1>4, FS_Union
<1>6. QED
  BY <1>1, <1>2, <1>3, <1>5, FS_Union

\* More findings, more of each kind.
LEMMA MoreFindings ==
    ASSUME NEW m, NEW n, ForensicFindings(m) \subseteq ForensicFindings(n),
           DOMAIN m = ScannedRules, DOMAIN n = ScannedRules
    PROVE  /\ ForensicReport(n).risk >= ForensicReport(m).risk
           /\ ForensicReport(n).earnings <= ForensicReport(m).earnings
           /\ ForensicReport(n).assets <= ForensicReport(m).assets
           /\ ForensicReport(n).cashFlow <= ForensicReport(m).cashFlow
<1> DEFINE found == ForensicFindings(m)
           more == ForensicFindings(n)
<1>1. IsFiniteSet(AlertRules) /\ IsFiniteSet(WarningRules)
  BY RulesAreFinite
<1> HIDE DEF found, more
<1>2. \A S, R : IsFiniteSet(R) => Cardinality(S \cap R) \in Nat
  BY FS_Intersection, FS_CardinalityType
<1>3. ASSUME NEW R, IsFiniteSet(R)
      PROVE  Cardinality(found \cap R) <= Cardinality(more \cap R)
  <2>1. found \cap R \subseteq more \cap R /\ IsFiniteSet(more \cap R)
    BY <1>3, FS_Intersection DEF found, more
  <2>2. QED
    BY <2>1, FS_Subset
<1> DEFINE a == Cardinality(found \cap AlertRules)
           b == Cardinality(more \cap AlertRules)
           v == Cardinality(found \cap WarningRules)
           w == Cardinality(more \cap WarningRules)
<1>4. a \in Nat /\ b \in Nat /\ v \in Nat /\ w \in Nat /\ a <= b /\ v <= w
  BY <1>1, <1>2, <1>3
<1>5. /\ ForensicReport(m) = [risk |-> Smaller(100, 15 * a + 5 * v), earnings |-> Larger(0, 100 - 10 * v),
                              assets |-> Larger(0, 100 - 15 * a), cashFlow |-> Larger(0, 100 - 8 * v)]
      /\ ForensicReport(n) = [risk |-> Smaller(100, 15 * b + 5 * w), earnings |-> Larger(0, 100 - 10 * w),
                              assets |-> Larger(0, 100 - 15 * b), cashFlow |-> Larger(0, 100 - 8 * w)]
  BY DEF ForensicReport, found, more
<1> HIDE DEF a, b, v, w
<1>6. QED
  BY <1>4, <1>5 DEF Larger, Smaller

LEMMA WorseFindsMore ==
    ASSUME AnalysisInv, AnalysisInv', NEW q \in ScannedRules, ReviseLevel(q),
           NEW r \in ScannedRules \ {"EARN_001"}, Worsened(r)
    PROVE  ForensicFindings(levels) \subseteq ForensicFindings(levels')
<1>1. levels[r] \in Int /\ levels'[r] \in Int
  BY DEF AnalysisInv
<1>2. \A s \in ScannedRules \ {r} : levels'[s] = levels[s]
  BY <1>1 DEF ReviseLevel, Worsened, AnalysisInv
<1>3. EvaluateRule(r, levels[r]) => EvaluateRule(r, levels'[r])
  BY <1>1 DEF EvaluateRule, Worsened, SmallIsWorse
<1>4. QED
  BY <1>2, <1>3 DEF ForensicFindings, AnalysisInv

LEMMA OverstatingScoresMore ==
    ASSUME NEW b \in [reported : Int, economic : Int], NEW c \in [reported : Int, economic : Int],
           c.reported > b.reported, c.economic = b.economic, b.reported >= b.economic
    PROVE  TwinScore(c) >= TwinScore(b)
<1>1. Divergence(b) \in Int /\ Divergence(c) \in Int /\ 0 <= Divergence(b) /\ Divergence(b) <= Divergence(c)
  <2>1. CASE b.economic = 0
    BY <2>1 DEF Divergence
  <2>2. CASE b.economic # 0
    <3> DEFINE d == AbsOf(b.economic)
               x == 100 * (b.reported - b.economic)
               y == 100 * (c.reported - c.economic)
    <3>1. d \in Nat \ {0}
      BY <2>2 DEF AbsOf
    <3>2. x \in Int /\ y \in Int /\ 0 <= x /\ x <= y
      OBVIOUS
    <3>3. Divergence(b) = x \div d /\ Divergence(c) = y \div d
      BY <2>2 DEF Divergence
    <3> HIDE DEF d, x, y
    <3>4. QED
      BY <3>1, <3>2, <3>3, QuotientGrows
  <2>3. QED
    BY <2>1, <2>2
<1> DEFINE p == Divergence(b)
           q == Divergence(c)
           points(n) == IF n > 15 THEN 20 ELSE 0
<1>2. \A e : Divergence(e) \in Int /\ Divergence(e) >= 0 =>
               TwinScore(e) = Smaller(100, points(Divergence(e)) + Divergence(e))
  BY DEF TwinScore, Aggressiveness, AbsOf
<1>3. TwinScore(b) = Smaller(100, points(p) + p) /\ TwinScore(c) = Smaller(100, points(q) + q)
  BY <1>1, <1>2
<1>4. p \in Int /\ q \in Int /\ 0 <= p /\ p <= q
  BY <1>1
<1> HIDE DEF p, q
<1>5. QED
  BY <1>3, <1>4 DEF Smaller

LEMMA FurtherIsNoFewer ==
    ASSUME NEW now, NEW t \in [before : Int, z : Int], NEW u \in [before : Int, z : Int], NEW count,
           u.before = t.before, AbsOf(u.z) > AbsOf(t.z)
    PROVE  AnomalyScore(now, u, count) >= AnomalyScore(now, t, count)
<1> DEFINE points(s) == CASE s = "CRITICAL" -> 30 [] s = "HIGH" -> 15 [] s = "MEDIUM" -> 5 [] OTHER -> 0
           fixed == points(TrendAnomaly(now, t.before))
<1>1. fixed \in {0, 5, 15, 30}
  OBVIOUS
<1>2. /\ AnomalyScore(now, t, count) = Smaller(100, points(Outlier(t.z, count)) + fixed)
      /\ AnomalyScore(now, u, count) = Smaller(100, points(Outlier(u.z, count)) + fixed)
  BY DEF AnomalyScore
<1>3. /\ points(Outlier(t.z, count)) \in Int /\ points(Outlier(u.z, count)) \in Int
      /\ points(Outlier(t.z, count)) <= points(Outlier(u.z, count))
  <2>1. AbsOf(t.z) \in Int /\ AbsOf(u.z) \in Int
    BY DEF AbsOf
  <2>2. QED
    BY <2>1 DEF Outlier
<1> HIDE DEF points, fixed
<1>4. QED
  BY <1>1, <1>2, <1>3 DEF Smaller

\* A metric that worsens finds no less and scores no better, books that
\* overstate more score no less aggressive, and a company further from its
\* peers has no fewer anomalies, for any figures the books and the trend may be
\* revised to.  (forensic_rules_engine.py, accounting_twin_engine.py,
\* peer_anomaly_engine.py)
THEOREM ConcernsOnlyGrow == AnalysisSpec => ConcernsNeverShrink
<1> DEFINE Step ==
       LET before == ForensicReport(levels)
           after == ForensicReport(levels')
       IN /\ (\E r \in ScannedRules \ {"EARN_001"} : Worsened(r)) =>
                /\ after.risk >= before.risk
                /\ after.earnings <= before.earnings
                /\ after.assets <= before.assets
                /\ after.cashFlow <= before.cashFlow
          /\ (/\ books'.reported > books.reported
              /\ books'.economic = books.economic
              /\ books.reported >= books.economic) => TwinScore(books') >= TwinScore(books)
          /\ (trend'.before = trend.before /\ AbsOf(trend'.z) > AbsOf(trend.z)) =>
                AnomalyScore(peers[1], trend', Len(peers)) >= AnomalyScore(peers[1], trend, Len(peers))
<1>1. AnalysisInit => AnalysisInv
  BY PeersAssumption DEF AnalysisInit, AnalysisInv
<1>2. AnalysisInv /\ [AnalysisNext]_analysisVars => [Step]_<<levels, books, trend>>
  <2> SUFFICES ASSUME AnalysisInv, AnalysisInv', AnalysisNext PROVE Step
    BY AnalysisStep DEF analysisVars
  <2>1. ASSUME NEW r \in ScannedRules \ {"EARN_001"}, Worsened(r)
        PROVE  ForensicFindings(levels) \subseteq ForensicFindings(levels')
    <3>1. levels' # levels
      BY <2>1 DEF Worsened, AnalysisInv
    <3>2. PICK q \in ScannedRules : ReviseLevel(q)
      BY <3>1 DEF AnalysisNext, ReviseBooks, RevisePeer, LosePeer, ReviseTrend
    <3>3. QED
      BY <2>1, <3>2, WorseFindsMore
  <2>2. DOMAIN levels = ScannedRules /\ DOMAIN levels' = ScannedRules
    BY DEF AnalysisInv
  <2>3. QED
    BY <2>1, <2>2, MoreFindings, OverstatingScoresMore, FurtherIsNoFewer DEF AnalysisInv
<1>3. QED
  BY <1>1, <1>2, AnalysisStep, PTL DEF AnalysisSpec, ConcernsNeverShrink

-----------------------------------------------------------------------------
(* Valuations: the search for what a price implies *)

Doubles(g) == g = [i \in 0 .. Halvings |-> IF i = 0 THEN 1 ELSE 2 * g[i - 1]]

LEMMA CellsDouble ==
    /\ Halvings \in Nat /\ Halvings # 0
    /\ Cells[0] = 1
    /\ \A i \in 1 .. Halvings : Cells[i] = 2 * Cells[i - 1]
    /\ \A i \in 0 .. Halvings : Cells[i] \in Nat \ {0}
<1> DEFINE T == Nat \ {0}
           F == [i \in 1 .. Halvings |-> [x \in T |-> 2 * x]]
<1>1. Halvings \in Nat /\ Halvings # 0
  BY PricesAssumption
<1>2. 1 \in T /\ F \in [1 .. Halvings -> [T -> T]]
  OBVIOUS
<1>3. \A i \in 1 .. Halvings, x \in T : F[i][x] = 2 * x
  OBVIOUS
<1> HIDE DEF F, T
<1>4. PICK g \in [0 .. Halvings -> T] : Steps(g, 1, Halvings, F)
  BY <1>1, <1>2, StepByStep
<1>5. ASSUME NEW i \in 1 .. Halvings PROVE g[i] = 2 * g[i - 1]
  <2>1. i - 1 \in 0 .. Halvings
    BY <1>1
  <2>2. g[i - 1] \in T
    BY <2>1
  <2>3. QED
    BY <1>3, <1>4, <2>2 DEF Steps
<1>6. g = [i \in 0 .. Halvings |-> IF i = 0 THEN 1 ELSE 2 * g[i - 1]]
  <2>1. \A i \in 0 .. Halvings : g[i] = IF i = 0 THEN 1 ELSE 2 * g[i - 1]
    BY <1>1, <1>4, <1>5 DEF Steps
  <2>2. g = [i \in 0 .. Halvings |-> g[i]]
    BY <1>4
  <2>3. QED
    BY <2>1, <2>2
<1>7. Doubles(Cells)
  <2>1. Doubles(g)
    BY <1>6 DEF Doubles
  <2>2. QED
    BY <2>1 DEF Doubles, Cells
<1>8. Cells[0] = 1 /\ \A i \in 1 .. Halvings : Cells[i] = 2 * Cells[i - 1]
  BY <1>1, <1>7 DEF Doubles
<1>9. \A i \in 0 .. Halvings : Cells[i] \in Nat \ {0}
  <2> DEFINE Bad == {i \in Nat : i <= Halvings /\ Cells[i] \notin Nat \ {0}}
  <2>1. SUFFICES ASSUME Bad # {} PROVE FALSE
    BY <1>1
  <2>2. PICK m \in Bad : \A k \in Bad : m <= k
    <3>1. Bad \in SUBSET Nat
      OBVIOUS
    <3> HIDE DEF Bad
    <3>2. QED
      BY <2>1, <3>1, LeastNumber
  <2>3. m \in Nat /\ m <= Halvings /\ Cells[m] \notin Nat \ {0}
    OBVIOUS
  <2>4. m # 0
    BY <1>8, <2>3
  <2>5. m - 1 \in Nat /\ m - 1 \notin Bad
    <3>1. \A k \in Bad : m <= k
      BY <2>2
    <3> HIDE DEF Bad
    <3>2. QED
      BY <2>3, <2>4, <3>1
  <2>6. Cells[m - 1] \in Nat \ {0}
    BY <1>1, <2>3, <2>5
  <2>7. QED
    BY <1>1, <1>8, <2>3, <2>4, <2>6
<1>10. QED
  BY <1>1, <1>8, <1>9

\* One halving, as a function.
Bounds == [low : Int, high : Int, mid : Int]
Halved(s, up, hits) ==
    LET mid == (s.low + s.high) \div 2
    IN IF s.mid \in hits THEN s
       ELSE IF mid \in up THEN [low |-> mid, high |-> s.high, mid |-> mid]
       ELSE [low |-> s.low, high |-> mid, mid |-> mid]
Searches(g, up, hits) ==
    g = [i \in 0 .. Halvings |-> IF i = 0 THEN [low |-> 0, high |-> Grid, mid |-> -1] ELSE Halved(g[i - 1], up, hits)]

\* What is left after i halvings: the place searched for, in so many cells.
Narrowed(s, i, up) ==
    /\ s \in Bounds
    /\ s.high - s.low = Cells[Halvings - i]
    /\ 0 <= s.low /\ s.high <= Grid
    /\ s.low = 0 \/ s.low \in up
    /\ s.high = Grid \/ s.high \notin up
    /\ i # 0 => s.mid \in {s.low, s.high}

LEMMA HalvedNarrows ==
    ASSUME NEW i \in 1 .. Halvings, NEW up, NEW hits, NEW s, Narrowed(s, i - 1, up), s.mid \notin hits
    PROVE  Narrowed(Halved(s, up, hits), i, up)
<1> DEFINE mid == (s.low + s.high) \div 2
           half == Cells[Halvings - i]
<1>1. /\ Cells[Halvings - (i - 1)] = 2 * half /\ half \in Nat \ {0}
  <2>1. Halvings - (i - 1) \in 1 .. Halvings /\ Halvings - i \in 0 .. Halvings
        /\ (Halvings - (i - 1)) - 1 = Halvings - i
    BY CellsDouble
  <2>2. QED
    BY <2>1, CellsDouble
<1>2. s.low \in Int /\ s.high \in Int
  BY DEF Narrowed, Bounds
<1> HIDE DEF half
<1>3. s.high = s.low + 2 * half
  BY <1>1, <1>2 DEF Narrowed
<1>4. mid = s.low + half
  BY <1>1, <1>2, <1>3
<1>5. mid \in Int /\ mid - s.low = half /\ s.high - mid = half
  BY <1>1, <1>2, <1>3, <1>4
<1> HIDE DEF mid
<1>6. CASE mid \in up
  <2> DEFINE r == [low |-> mid, high |-> s.high, mid |-> mid]
  <2>1. Halved(s, up, hits) = r
    BY <1>6 DEF Halved, mid
  <2>2. r \in Bounds /\ r.low = mid /\ r.high = s.high /\ r.mid = mid
    BY <1>2, <1>5 DEF Bounds
  <2> HIDE DEF r
  <2>3. QED
    BY <1>1, <1>2, <1>5, <1>6, <2>1, <2>2 DEF Narrowed, half
<1>7. CASE mid \notin up
  <2> DEFINE r == [low |-> s.low, high |-> mid, mid |-> mid]
  <2>1. Halved(s, up, hits) = r
    BY <1>7 DEF Halved, mid
  <2>2. r \in Bounds /\ r.low = s.low /\ r.high = mid /\ r.mid = mid
    BY <1>2, <1>5 DEF Bounds
  <2> HIDE DEF r
  <2>3. 0 <= r.low /\ r.high <= Grid
    BY <1>1, <1>2, <1>5, <2>2, CellsDouble DEF Narrowed, Grid
  <2>4. QED
    BY <1>1, <1>2, <1>5, <1>7, <2>1, <2>2, <2>3 DEF Narrowed, half
<1>8. QED
  BY <1>6, <1>7

LEMMA SearchRuns ==
    ASSUME NEW up, NEW hits
    PROVE  \E g : Searches(g, up, hits) /\ Search(up, hits) = g[Halvings].mid
<1> DEFINE F == [i \in 1 .. Halvings |-> [s \in Bounds |-> Halved(s, up, hits)]]
           start == [low |-> 0, high |-> Grid, mid |-> -1]
<1>1. Halvings \in Nat /\ Halvings # 0 /\ Grid \in Nat
  BY CellsDouble DEF Grid
<1>2. start \in Bounds
  BY <1>1 DEF Bounds
<1>3. ASSUME NEW s \in Bounds PROVE Halved(s, up, hits) \in Bounds
  BY DEF Halved, Bounds
<1>4. F \in [1 .. Halvings -> [Bounds -> Bounds]]
  BY <1>3
<1>5. \A i \in 1 .. Halvings, s \in Bounds : F[i][s] = Halved(s, up, hits)
  OBVIOUS
<1> HIDE DEF F
<1>6. PICK g \in [0 .. Halvings -> Bounds] : Steps(g, start, Halvings, F)
  <2> HIDE DEF start, Bounds
  <2>1. QED
    BY <1>1, <1>2, <1>4, StepByStep
<1>7. ASSUME NEW i \in 1 .. Halvings PROVE g[i] = Halved(g[i - 1], up, hits)
  <2>1. i - 1 \in 0 .. Halvings
    BY <1>1
  <2>2. g[i - 1] \in Bounds
    BY <2>1
  <2> HIDE DEF Bounds
  <2>3. QED
    BY <1>5, <1>6, <2>2 DEF Steps
<1>8. Searches(g, up, hits)
  <2>1. \A i \in 0 .. Halvings : g[i] = IF i = 0 THEN start ELSE Halved(g[i - 1], up, hits)
    BY <1>1, <1>6, <1>7 DEF Steps
  <2>2. g = [i \in 0 .. Halvings |-> g[i]]
    BY <1>6
  <2>3. QED
    BY <2>1, <2>2 DEF Searches
<1> DEFINE step[i \in 0 .. Halvings] ==
            IF i = 0 THEN [low |-> 0, high |-> Grid, mid |-> -1]
            ELSE LET s == step[i - 1]
                     mid == (s.low + s.high) \div 2
                 IN IF s.mid \in hits THEN s
                    ELSE IF mid \in up THEN [low |-> mid, high |-> s.high, mid |-> mid]
                    ELSE [low |-> s.low, high |-> mid, mid |-> mid]
<1>9. Searches(step, up, hits)
  BY <1>8 DEF Searches, Halved, step
<1>10. Search(up, hits) = step[Halvings].mid
  BY DEF Search
<1> HIDE DEF step
<1>11. QED
  BY <1>9, <1>10

\* The search ends at a hit, or at an end of the one cell it is left with.
LEMMA SearchEnds ==
    ASSUME NEW up, NEW hits
    PROVE  \/ Search(up, hits) \in hits
           \/ \E low \in Int : /\ 0 <= low /\ low + 1 <= Grid
                               /\ low = 0 \/ low \in up
                               /\ low + 1 = Grid \/ low + 1 \notin up
                               /\ Search(up, hits) \in {low, low + 1}
<1>1. PICK g : Searches(g, up, hits) /\ Search(up, hits) = g[Halvings].mid
  BY SearchRuns
<1>2. Halvings \in Nat /\ Halvings # 0 /\ Grid \in Nat /\ Grid = Cells[Halvings] /\ Cells[0] = 1
  BY CellsDouble DEF Grid
<1>3. /\ g[0] = [low |-> 0, high |-> Grid, mid |-> -1]
      /\ \A i \in 1 .. Halvings : g[i] = Halved(g[i - 1], up, hits)
  BY <1>1, <1>2 DEF Searches
<1> DEFINE Fine(i) == g[i].mid \in hits \/ Narrowed(g[i], i, up)
           Bad == {i \in Nat : i <= Halvings /\ ~ Fine(i)}
<1>4. Fine(0)
  BY <1>2, <1>3 DEF Narrowed, Bounds
<1>5. ASSUME NEW i \in 1 .. Halvings, Fine(i - 1) PROVE Fine(i)
  <2>1. g[i] = Halved(g[i - 1], up, hits)
    BY <1>3
  <2>2. CASE g[i - 1].mid \in hits
    <3>1. g[i] = g[i - 1]
      BY <2>1, <2>2 DEF Halved
    <3>2. QED
      BY <2>2, <3>1
  <2>3. CASE g[i - 1].mid \notin hits
    BY <1>5, <2>1, <2>3, HalvedNarrows
  <2>4. QED
    BY <2>2, <2>3
<1> HIDE DEF Fine
<1>6. Bad = {}
  <2>1. SUFFICES ASSUME Bad # {} PROVE FALSE
    OBVIOUS
  <2>2. PICK m \in Bad : \A k \in Bad : m <= k
    <3>1. Bad \in SUBSET Nat
      OBVIOUS
    <3> HIDE DEF Bad
    <3>2. QED
      BY <2>1, <3>1, LeastNumber
  <2>3. m \in Nat /\ m <= Halvings /\ ~ Fine(m) /\ m # 0
    BY <1>4
  <2>4. m - 1 \in Nat /\ m - 1 <= Halvings /\ m - 1 \notin Bad
    <3>1. \A k \in Bad : m <= k
      BY <2>2
    <3> HIDE DEF Bad
    <3>2. QED
      BY <1>2, <2>3, <3>1
  <2>5. Fine(m - 1) /\ m \in 1 .. Halvings
    BY <1>2, <2>3, <2>4
  <2>6. QED
    BY <1>5, <2>3, <2>5
<1>7. Fine(Halvings)
  BY <1>2, <1>6
<1> DEFINE s == g[Halvings]
<1>8. CASE s.mid \in hits
  BY <1>1, <1>8
<1>9. CASE Narrowed(s, Halvings, up)
  <2>1. Halvings - Halvings = 0
    BY <1>2
  <2>2. /\ s.low \in Int /\ s.high \in Int /\ s.high - s.low = 1 /\ 0 <= s.low /\ s.high <= Grid
        /\ s.low = 0 \/ s.low \in up
        /\ s.high = Grid \/ s.high \notin up
        /\ s.mid \in {s.low, s.high}
    BY <1>2, <1>9, <2>1 DEF Narrowed, Bounds
  <2>3. s.high = s.low + 1
    BY <2>2
  <2> HIDE DEF s
  <2>4. Search(up, hits) = s.mid
    BY <1>1 DEF s
  <2>5. QED
    BY <2>2, <2>3, <2>4
<1>10. QED
  BY <1>7, <1>8, <1>9 DEF Fine

\* So it finds the price wherever the places that are too low come first.
LEMMA SearchFinds ==
    ASSUME NEW up \in SUBSET (0 .. Grid), NEW hits,
           \A k \in up : \A l \in 0 .. Grid : l < k => l \in up
    PROVE  Finds(Search(up, hits), up, hits)
<1> DEFINE found == Search(up, hits)
<1>1. Grid \in Nat \ {0}
  BY CellsDouble DEF Grid
<1>2. CASE found \in hits
  BY <1>2 DEF Finds
<1>3. CASE found \notin hits
  <2>1. PICK low \in Int : /\ 0 <= low /\ low + 1 <= Grid
                           /\ low = 0 \/ low \in up
                           /\ low + 1 = Grid \/ low + 1 \notin up
                           /\ found \in {low, low + 1}
    BY <1>3, SearchEnds
  <2>2. low \in 0 .. Grid - 1
    BY <1>1, <2>1
  <2>3. low \in up \/ (low = 0 /\ up = {})
    <3>1. SUFFICES ASSUME low = 0, NEW k \in up PROVE low \in up
      BY <2>1
    <3>2. k \in 0 .. Grid /\ 0 \in 0 .. Grid
      BY <1>1
    <3>3. k = 0 \/ 0 < k
      BY <3>2
    <3>4. QED
      BY <3>1, <3>2, <3>3
  <2>4. low + 1 \notin up \/ (low + 1 = Grid /\ up = 0 .. Grid)
    <3>1. SUFFICES ASSUME low + 1 \in up, NEW l \in 0 .. Grid PROVE l \in up
      BY <2>1
    <3>2. low + 1 = Grid
      BY <2>1, <3>1
    <3>3. l = Grid \/ l < Grid
      BY <1>1
    <3>4. QED
      BY <3>1, <3>2, <3>3
  <2> HIDE DEF found
  <2>5. QED
    BY <2>1, <2>2, <2>3, <2>4 DEF Finds, found
<1>4. QED
  BY <1>2, <1>3

\* What holds at the start and from each step to the next holds up to the end.
LEMMA Climbs ==
    ASSUME NEW n \in Nat, NEW S, 0 \in S, \A i \in 1 .. n : i - 1 \in S => i \in S
    PROVE  0 .. n \subseteq S
<1> DEFINE Bad == {i \in Nat : i <= n /\ i \notin S}
<1>1. SUFFICES ASSUME Bad # {} PROVE FALSE
  OBVIOUS
<1>2. PICK m \in Bad : \A k \in Bad : m <= k
  <2>1. Bad \in SUBSET Nat
    OBVIOUS
  <2> HIDE DEF Bad
  <2>2. QED
    BY <1>1, <2>1, LeastNumber
<1>3. m \in Nat /\ m <= n /\ m \notin S /\ m # 0
  OBVIOUS
<1>4. m - 1 \in Nat /\ m - 1 <= n /\ m - 1 \notin Bad /\ m \in 1 .. n
  <2>1. \A k \in Bad : m <= k
    BY <1>2
  <2> HIDE DEF Bad
  <2>2. QED
    BY <1>3, <2>1
<1>5. QED
  BY <1>3, <1>4

PowersOf(g, x) == g = [i \in 0 .. PriceHorizon |-> IF i = 0 THEN 1 ELSE x * g[i - 1]]
SumsWith(g, factor, q) == g = [i \in 0 .. PriceHorizon |-> IF i = 0 THEN 0 ELSE q * g[i - 1] + Powers(factor)[i]]

LEMMA PowersMultiply ==
    ASSUME NEW x \in Int
    PROVE  /\ Powers(x)[0] = 1
           /\ \A i \in 1 .. PriceHorizon : Powers(x)[i] = x * Powers(x)[i - 1]
           /\ \A i \in 0 .. PriceHorizon : Powers(x)[i] \in Int
<1> DEFINE F == [i \in 1 .. PriceHorizon |-> [v \in Int |-> x * v]]
<1>1. PriceHorizon \in Nat
  BY PricesAssumption
<1>2. 1 \in Int /\ F \in [1 .. PriceHorizon -> [Int -> Int]]
  OBVIOUS
<1>3. \A i \in 1 .. PriceHorizon, v \in Int : F[i][v] = x * v
  OBVIOUS
<1> HIDE DEF F
<1>4. PICK g \in [0 .. PriceHorizon -> Int] : Steps(g, 1, PriceHorizon, F)
  BY <1>1, <1>2, StepByStep
<1>5. ASSUME NEW i \in 1 .. PriceHorizon PROVE g[i] = x * g[i - 1]
  <2>1. g[i - 1] \in Int
    BY <1>1
  <2>2. QED
    BY <1>3, <1>4, <2>1 DEF Steps
<1>6. PowersOf(g, x)
  <2>1. \A i \in 0 .. PriceHorizon : g[i] = IF i = 0 THEN 1 ELSE x * g[i - 1]
    BY <1>1, <1>4, <1>5 DEF Steps
  <2>2. g = [i \in 0 .. PriceHorizon |-> g[i]]
    BY <1>4
  <2>3. QED
    BY <2>1, <2>2 DEF PowersOf
<1> DEFINE power[i \in 0 .. PriceHorizon] == IF i = 0 THEN 1 ELSE x * power[i - 1]
<1>7. PowersOf(power, x)
  BY <1>6 DEF PowersOf, power
<1>8. Powers(x) = power
  BY DEF Powers
<1> HIDE DEF power
<1>9. Powers(x)[0] = 1 /\ \A i \in 1 .. PriceHorizon : Powers(x)[i] = x * Powers(x)[i - 1]
  BY <1>1, <1>7, <1>8 DEF PowersOf
<1>10. 0 .. PriceHorizon \subseteq {i \in 0 .. PriceHorizon : Powers(x)[i] \in Int}
  <2> DEFINE S == {i \in 0 .. PriceHorizon : Powers(x)[i] \in Int}
  <2>1. 0 \in S
    BY <1>1, <1>9
  <2>2. ASSUME NEW i \in 1 .. PriceHorizon, i - 1 \in S PROVE i \in S
    BY <1>1, <1>9, <2>2
  <2> HIDE DEF S
  <2>3. QED
    BY <1>1, <2>1, <2>2, Climbs DEF S
<1>11. QED
  BY <1>9, <1>10

\* Powers of a larger number are no smaller.
LEMMA PowersGrow ==
    ASSUME NEW x \in Nat, NEW y \in Nat, x <= y, NEW n \in 0 .. PriceHorizon
    PROVE  Powers(x)[n] \in Nat /\ Powers(x)[n] <= Powers(y)[n] /\ (x > 0 => Powers(x)[n] > 0)
<1> DEFINE S == {i \in 0 .. PriceHorizon :
                   Powers(x)[i] \in Nat /\ Powers(x)[i] <= Powers(y)[i] /\ (x > 0 => Powers(x)[i] > 0)}
<1>1. PriceHorizon \in Nat
  BY PricesAssumption
<1>2. 0 \in S
  BY <1>1, PowersMultiply
<1>3. ASSUME NEW i \in 1 .. PriceHorizon, i - 1 \in S PROVE i \in S
  <2> DEFINE a == Powers(x)[i - 1]
             b == Powers(y)[i - 1]
  <2>1. Powers(x)[i] = x * a /\ Powers(y)[i] = y * b /\ i \in 0 .. PriceHorizon
    BY <1>1, PowersMultiply
  <2>2. a \in Nat /\ a <= b /\ (x > 0 => a > 0) /\ b \in Int
    BY <1>1, <1>3, PowersMultiply
  <2> HIDE DEF a, b
  <2>3. x * a \in Nat /\ (x > 0 => x * a > 0)
    BY <2>2
  <2>4. x * a <= x * b /\ x * b <= y * b
    BY <2>2
  <2>5. x * a <= y * b
    BY <2>2, <2>4
  <2>6. QED
    BY <2>1, <2>3, <2>5
<1> HIDE DEF S
<1>4. n \in S
  BY <1>1, <1>2, <1>3, Climbs
<1>5. QED
  BY <1>4 DEF S

LEMMA AnnuitySums ==
    ASSUME NEW factor \in Int, NEW q \in Int
    PROVE  \E g : /\ Annuity(factor, q) = g[PriceHorizon] /\ g[0] = 0
                  /\ \A i \in 1 .. PriceHorizon : g[i] = q * g[i - 1] + Powers(factor)[i]
                  /\ \A i \in 0 .. PriceHorizon : g[i] \in Int
<1> DEFINE F == [i \in 1 .. PriceHorizon |-> [v \in Int |-> q * v + Powers(factor)[i]]]
<1>1. PriceHorizon \in Nat /\ \A i \in 1 .. PriceHorizon : Powers(factor)[i] \in Int
  BY PricesAssumption, PowersMultiply
<1>2. 0 \in Int /\ F \in [1 .. PriceHorizon -> [Int -> Int]]
  BY <1>1
<1>3. \A i \in 1 .. PriceHorizon, v \in Int : F[i][v] = q * v + Powers(factor)[i]
  OBVIOUS
<1> HIDE DEF F
<1>4. PICK g \in [0 .. PriceHorizon -> Int] : Steps(g, 0, PriceHorizon, F)
  BY <1>1, <1>2, StepByStep
<1>5. ASSUME NEW i \in 1 .. PriceHorizon PROVE g[i] = q * g[i - 1] + Powers(factor)[i]
  <2>1. g[i - 1] \in Int
    BY <1>1
  <2>2. QED
    BY <1>3, <1>4, <2>1 DEF Steps
<1>6. SumsWith(g, factor, q)
  <2>1. \A i \in 0 .. PriceHorizon : g[i] = IF i = 0 THEN 0 ELSE q * g[i - 1] + Powers(factor)[i]
    BY <1>1, <1>4, <1>5 DEF Steps
  <2>2. g = [i \in 0 .. PriceHorizon |-> g[i]]
    BY <1>4
  <2>3. QED
    BY <2>1, <2>2 DEF SumsWith
<1> DEFINE sum[i \in 0 .. PriceHorizon] == IF i = 0 THEN 0 ELSE q * sum[i - 1] + Powers(factor)[i]
<1>7. SumsWith(sum, factor, q)
  BY <1>6 DEF SumsWith, sum
<1>8. Annuity(factor, q) = sum[PriceHorizon]
  BY DEF Annuity
<1> HIDE DEF sum
<1>9. sum[0] = 0 /\ \A i \in 1 .. PriceHorizon : sum[i] = q * sum[i - 1] + Powers(factor)[i]
  BY <1>1, <1>7 DEF SumsWith
<1>10. \A i \in 0 .. PriceHorizon : sum[i] \in Int
  <2> DEFINE S == {i \in 0 .. PriceHorizon : sum[i] \in Int}
  <2>1. 0 \in S
    BY <1>1, <1>9
  <2>2. ASSUME NEW i \in 1 .. PriceHorizon, i - 1 \in S PROVE i \in S
    <3>1. sum[i - 1] \in Int /\ Powers(factor)[i] \in Int /\ i \in 0 .. PriceHorizon
      BY <1>1, <2>2
    <3>2. sum[i] \in Int
      BY <1>9, <3>1
    <3>3. QED
      BY <3>1, <3>2
  <2> HIDE DEF S
  <2>3. 0 .. PriceHorizon \subseteq S
    BY <1>1, <2>1, <2>2, Climbs
  <2>4. QED
    BY <2>3 DEF S
<1>11. QED
  BY <1>8, <1>9, <1>10

LEMMA AnnuityIs == \A factor, q \in Int : Annuity(factor, q) \in Int
<1> SUFFICES ASSUME NEW factor \in Int, NEW q \in Int PROVE Annuity(factor, q) \in Int
  OBVIOUS
<1>1. PICK g : /\ Annuity(factor, q) = g[PriceHorizon]
               /\ \A i \in 0 .. PriceHorizon : g[i] \in Int
  BY AnnuitySums
<1>2. PriceHorizon \in 0 .. PriceHorizon
  BY PricesAssumption
<1>3. QED
  BY <1>1, <1>2

\* Flows are worth less at a higher rate.
LEMMA AnnuityFalls ==
    ASSUME NEW factor \in Nat, NEW p \in Nat, NEW q \in Nat, p <= q
    PROVE  /\ Annuity(factor, p) \in Nat /\ Annuity(factor, q) \in Nat
           /\ Annuity(factor, q) * Powers(p)[PriceHorizon] <= Annuity(factor, p) * Powers(q)[PriceHorizon]
<1>1. PICK g : /\ Annuity(factor, p) = g[PriceHorizon] /\ g[0] = 0
               /\ \A i \in 1 .. PriceHorizon : g[i] = p * g[i - 1] + Powers(factor)[i]
  BY AnnuitySums
<1>2. PICK h : /\ Annuity(factor, q) = h[PriceHorizon] /\ h[0] = 0
               /\ \A i \in 1 .. PriceHorizon : h[i] = q * h[i - 1] + Powers(factor)[i]
  BY AnnuitySums
<1>3. PriceHorizon \in Nat
  BY PricesAssumption
<1> DEFINE S == {i \in 0 .. PriceHorizon :
                   g[i] \in Nat /\ h[i] \in Nat /\ h[i] * Powers(p)[i] <= g[i] * Powers(q)[i]}
<1>4. 0 \in S
  BY <1>1, <1>2, <1>3, PowersMultiply
<1>5. ASSUME NEW i \in 1 .. PriceHorizon, i - 1 \in S PROVE i \in S
  <2> DEFINE a == g[i - 1]  b == h[i - 1]  c == Powers(factor)[i]
             x == Powers(p)[i - 1]  y == Powers(q)[i - 1]
  <2>1. i \in 0 .. PriceHorizon /\ i - 1 \in 0 .. PriceHorizon
    BY <1>3
  <2>2. /\ g[i] = p * a + c /\ h[i] = q * b + c
        /\ Powers(p)[i] = p * x /\ Powers(q)[i] = q * y
    BY <1>1, <1>2, PowersMultiply
  <2>3. a \in Nat /\ b \in Nat /\ b * x <= a * y
    BY <1>5
  <2>4. c \in Nat /\ x \in Nat /\ y \in Nat /\ p * x <= q * y
    <3>1. c \in Nat /\ x \in Nat /\ y \in Nat
      BY <2>1, PowersGrow
    <3>2. Powers(p)[i] <= Powers(q)[i]
      BY <2>1, PowersGrow
    <3>3. QED
      BY <2>2, <3>1, <3>2
  <2> HIDE DEF a, b, c, x, y
  <2>5. p * a + c \in Nat /\ q * b + c \in Nat
    BY <2>3, <2>4
  <2>6. (p * q) * (b * x) <= (p * q) * (a * y)
    <3> DEFINE m == p * q  u == b * x  v == a * y
    <3>1. m \in Nat /\ u \in Nat /\ v \in Nat /\ u <= v
      BY <2>3, <2>4
    <3> HIDE DEF m, u, v
    <3>2. m * u <= m * v
      BY <3>1
    <3>3. QED
      BY <3>2 DEF m, u, v
  <2>7. c * (p * x) <= c * (q * y)
    <3> DEFINE u == p * x  v == q * y
    <3>1. u \in Nat /\ v \in Nat /\ u <= v
      BY <2>4
    <3> HIDE DEF u, v
    <3>2. c * u <= c * v
      BY <2>4, <3>1
    <3>3. QED
      BY <3>2 DEF u, v
  <2>8. /\ (q * b + c) * (p * x) = (p * q) * (b * x) + c * (p * x)
        /\ (p * a + c) * (q * y) = (p * q) * (a * y) + c * (q * y)
    BY <2>3, <2>4
  <2>9. (p * q) * (b * x) \in Int /\ (p * q) * (a * y) \in Int /\ c * (p * x) \in Int /\ c * (q * y) \in Int
    BY <2>3, <2>4
  <2>10. (q * b + c) * (p * x) <= (p * a + c) * (q * y)
    BY <2>6, <2>7, <2>8, <2>9
  <2>11. QED
    BY <2>1, <2>2, <2>5, <2>10
<1> HIDE DEF S
<1>6. PriceHorizon \in S
  BY <1>3, <1>4, <1>5, Climbs
<1>7. QED
  BY <1>1, <1>2, <1>6 DEF S

\* The inputs of the search stay what they are to be: they are revised and never
\* withdrawn.
PricesFit == \A n \in Searched : n \in DOMAIN firm /\ IsSearched(n, firm[n])

LEMMA PricesStep == PricesFit /\ [ValuationsNext]_firmVars => PricesFit'
<1> SUFFICES ASSUME PricesFit, [ValuationsNext]_firmVars PROVE PricesFit'
  OBVIOUS
<1>1. ASSUME NEW name \in DOMAIN ValuationChoices, Revise(name) PROVE PricesFit'
  <2>1. PICK v \in ValuationChoices[name] : firm' = Set(firm, name, v)
    BY <1>1 DEF Revise
  <2>2. ASSUME NEW n \in Searched PROVE n \in DOMAIN firm' /\ IsSearched(n, firm'[n])
    <3>1. n = name => IsSearched(n, v)
      BY <2>1, PricesAssumption
    <3>2. QED
      BY <2>1, <3>1 DEF Set, PricesFit
  <2>3. QED
    BY <2>2 DEF PricesFit
<1>2. ASSUME NEW name \in {"interest", "cash", "debt"}, Withdraw(name) PROVE PricesFit'
  BY <1>2 DEF Withdraw, Drop, PricesFit, Searched
<1>3. CASE UNCHANGED firmVars
  BY <1>3 DEF firmVars, PricesFit
<1>4. QED
  BY <1>1, <1>2, <1>3 DEF ValuationsNext

\* Growth and rate on the grid, and those given.
LEMMA RatesFit ==
    ASSUME PricesFit
    PROVE  /\ Grid \in Nat \ {0} /\ One \in Nat
           /\ \A k \in 0 .. Grid : /\ GrowthAt(k) \in Int /\ One + GrowthAt(k) \in Nat
                                   /\ RateAt(k) \in Int /\ One + RateAt(k) \in Nat \ {0}
           /\ RateGiven(firm) \in Int
           /\ GrowthGiven(firm) \in Int /\ One + GrowthGiven(firm) \in Nat
           /\ firm["quote"] \in Int /\ firm["perShare"] \in Int
<1>1. Grid \in Nat \ {0} /\ One \in Nat
  BY CellsDouble DEF Grid, One
<1>2. ASSUME NEW k \in 0 .. Grid
      PROVE  /\ GrowthAt(k) \in Int /\ One + GrowthAt(k) \in Nat
             /\ RateAt(k) \in Int /\ One + RateAt(k) \in Nat \ {0}
  <2>1. k \in Int /\ 0 <= k /\ k <= Grid
    BY <1>1
  <2>2. QED
    BY <1>1, <2>1 DEF GrowthAt, RateAt, One
<1>3. RateUnit \in Nat /\ RateUnit > 0
  BY PricesAssumption
<1>4. /\ firm["quote"] \in Int /\ firm["perShare"] \in Int
      /\ firm["discount"] \in Int /\ firm["growth"] \in Int /\ firm["growth"] > - RateUnit
      /\ "discount" \in DOMAIN firm /\ "growth" \in DOMAIN firm
  BY DEF PricesFit, Searched, IsSearched
<1>5. DiscountRate(firm) \in Int /\ TerminalGrowth(firm) \in Int /\ TerminalGrowth(firm) >= - RateUnit
  <2>1. RateUnit \div 10 \in Int /\ RateUnit \div 40 \in Nat
    BY <1>3
  <2>2. QED
    BY <1>3, <1>4, <2>1 DEF DiscountRate, TerminalGrowth, OrDefault, OrZero
<1> DEFINE d == DiscountRate(firm)
           t == TerminalGrowth(firm)
<1> HIDE DEF d, t
<1>6. (One * d) \div RateUnit \in Int /\ (One * t) \div RateUnit \in Int
  <2>1. One * d \in Int /\ One * t \in Int
    BY <1>1, <1>5 DEF d, t
  <2>2. QED
    BY <1>3, <2>1
<1>7. (One * t) \div RateUnit >= - One
  <2>1. t \in Int /\ t >= - RateUnit
    BY <1>5 DEF t
  <2>2. QED
    BY <1>1, <1>3, <2>1
<1>8. RateGiven(firm) = (One * d) \div RateUnit /\ GrowthGiven(firm) = (One * t) \div RateUnit
  BY DEF RateGiven, GrowthGiven, InUnits, d, t
<1>9. One + GrowthGiven(firm) \in Nat
  BY <1>1, <1>6, <1>7, <1>8
<1>10. QED
  BY <1>1, <1>2, <1>4, <1>6, <1>8, <1>9

\* Ratios as the search compares them: v grows with less growth, or a higher rate.
LEMMA UnderStays ==
    ASSUME NEW s \in Nat, NEW k \in Int, NEW an \in Int, NEW q \in Int, NEW t \in Nat, NEW u \in Nat,
           NEW a \in Nat \ {0}, NEW b \in Nat \ {0}, t <= u, b <= a,
           s * (an * b + u) < k * (q * b)
    PROVE  s * (an * a + t) < k * (q * a)
<1> DEFINE m == k * q - s * an
<1>1. m \in Int
  OBVIOUS
<1>2. k * (q * b) - s * (an * b) = m * b /\ k * (q * a) - s * (an * a) = m * a
  OBVIOUS
<1>3. /\ s * (an * b + u) = s * (an * b) + s * u
      /\ s * (an * a + t) = s * (an * a) + s * t
  OBVIOUS
<1>4. /\ s * (an * b) \in Int /\ s * (an * a) \in Int /\ k * (q * b) \in Int /\ k * (q * a) \in Int
      /\ s * u \in Nat /\ s * t \in Nat /\ m * a \in Int /\ m * b \in Int
  BY <1>1
<1> HIDE DEF m
<1>5. s * u < m * b
  BY <1>2, <1>3, <1>4
<1>6. m > 0
  <2>1. m * b > 0
    BY <1>4, <1>5
  <2>2. QED
    BY <1>1, <2>1
<1>7. m * b <= m * a
  BY <1>1, <1>6
<1>8. s * t <= s * u
  OBVIOUS
<1>9. s * t < m * a
  BY <1>4, <1>5, <1>7, <1>8
<1>10. QED
  BY <1>2, <1>3, <1>4, <1>9

LEMMA OverStays ==
    ASSUME NEW s \in Nat, NEW k \in Int, NEW t \in Nat, NEW an \in Nat, NEW bn \in Nat,
           NEW p \in Nat \ {0}, NEW q \in Nat \ {0}, NEW a \in Nat \ {0}, NEW b \in Nat \ {0},
           p <= q, a <= b, bn * p <= an * q,
           s * (bn * b + t) > k * (q * b)
    PROVE  s * (an * a + t) > k * (p * a)
<1> DEFINE v == p * a
           w == q * b
           x == s * (an * a + t)
           y == s * (bn * b + t)
<1>1. v \in Nat \ {0} /\ w \in Nat \ {0} /\ x \in Int /\ y \in Int
  OBVIOUS
<1>2. v <= w
  <2>1. p * a <= q * a /\ q * a <= q * b
    OBVIOUS
  <2>2. p * a \in Int /\ q * a \in Int /\ q * b \in Int
    OBVIOUS
  <2>3. QED
    BY <2>1, <2>2
<1>3. y * v <= x * w
  <2> DEFINE c == (s * a) * b
             d == s * t
             e == bn * p
             f == an * q
  <2>1. c \in Nat /\ d \in Nat /\ e \in Nat /\ f \in Nat /\ e <= f
    OBVIOUS
  <2>2. y * v = c * e + d * v /\ x * w = c * f + d * w
    OBVIOUS
  <2> HIDE DEF c, d, e, f, v, w, x, y
  <2>3. c * e <= c * f /\ d * v <= d * w
    BY <1>1, <1>2, <2>1
  <2>4. c * e \in Int /\ c * f \in Int /\ d * v \in Int /\ d * w \in Int
    BY <1>1, <2>1
  <2>5. QED
    BY <2>2, <2>3, <2>4
<1>4. y > k * w
  OBVIOUS
<1> HIDE DEF v, w, x, y
<1>5. y * v > (k * w) * v
  <2> DEFINE z == k * w
  <2>1. z \in Int /\ y > z
    BY <1>1, <1>4
  <2> HIDE DEF z
  <2>2. y * v > z * v
    BY <1>1, <2>1
  <2>3. QED
    BY <2>2 DEF z
<1>6. (k * w) * v = (k * v) * w
  BY <1>1
<1> DEFINE z == k * v
<1>7. z \in Int
  BY <1>1
<1>8. x * w > z * w
  <2>1. y * v \in Int /\ x * w \in Int /\ (k * w) * v \in Int /\ z * w \in Int
    BY <1>1, <1>7
  <2>2. QED
    BY <1>3, <1>5, <1>6, <2>1
<1> HIDE DEF z
<1>9. x > z
  <2>1. ASSUME x <= z PROVE FALSE
    <3>1. x * w <= z * w
      BY <1>1, <1>7, <2>1
    <3>2. x * w \in Int /\ z * w \in Int
      BY <1>1, <1>7
    <3>3. QED
      BY <1>8, <3>1, <3>2
  <2>2. QED
    BY <1>1, <1>7, <2>1
<1>10. QED
  BY <1>9 DEF x, v, z

\* A growth below one that is too low is too low.
LEMMA GrowthRises ==
    ASSUME PricesFit, firm["perShare"] > 0, NEW g \in GrowthTooLow(firm), NEW h \in 0 .. Grid, h < g
    PROVE  h \in GrowthTooLow(firm)
<1> DEFINE s == firm["perShare"]
           k == firm["quote"]
           r == RateGiven(firm)
           q == Powers(One + r)[PriceHorizon]
           an == Annuity(One, One + r)
           T(gr) == Powers(One + gr)[PriceHorizon] * (One + gr)
<1>1. PriceHorizon \in 0 .. PriceHorizon
  BY PricesAssumption
<1>2. /\ s \in Nat /\ k \in Int /\ r \in Int /\ One \in Nat
      /\ GrowthAt(g) \in Int /\ GrowthAt(h) \in Int /\ g \in 0 .. Grid
      /\ One + GrowthAt(g) \in Nat /\ One + GrowthAt(h) \in Nat
  BY RatesFit DEF GrowthTooLow
<1>3. One + r \in Int
  BY <1>2
<1>4. q \in Int /\ an \in Int
  <2>1. q \in Int
    BY <1>1, <1>3, PowersMultiply
  <2>2. an \in Int
    BY <1>2, <1>3, AnnuityIs
  <2>3. QED
    BY <2>1, <2>2
<1>5. GrowthAt(h) <= GrowthAt(g)
  <2>1. Grid \in Nat /\ g \in Int /\ h \in Int
    BY <1>2, RatesFit
  <2>2. QED
    BY <2>1 DEF GrowthAt
<1>6. T(GrowthAt(h)) \in Nat /\ T(GrowthAt(g)) \in Nat /\ T(GrowthAt(h)) <= T(GrowthAt(g))
  <2> DEFINE c == One + GrowthAt(h)
             d == One + GrowthAt(g)
             cp == Powers(c)[PriceHorizon]
             dp == Powers(d)[PriceHorizon]
  <2>1. c \in Nat /\ d \in Nat /\ c <= d
    BY <1>2, <1>5
  <2> HIDE DEF c, d
  <2>2. cp \in Nat /\ dp \in Nat /\ cp <= dp
    BY <1>1, <2>1, PowersGrow
  <2> HIDE DEF cp, dp
  <2>3. cp * c <= dp * c /\ dp * c <= dp * d
    BY <2>1, <2>2
  <2>4. cp * c \in Nat /\ dp * d \in Nat /\ dp * c \in Nat
    BY <2>1, <2>2
  <2>5. cp * c <= dp * d
    BY <2>3, <2>4
  <2>6. T(GrowthAt(h)) = cp * c /\ T(GrowthAt(g)) = dp * d
    BY DEF c, d, cp, dp
  <2>7. QED
    BY <2>4, <2>5, <2>6
<1>7. /\ GrowthAt(g) < r
      /\ s * (an * (r - GrowthAt(g)) + T(GrowthAt(g))) < k * (q * (r - GrowthAt(g)))
  BY DEF GrowthTooLow, PriceAt, PriceOf, UnderQuote
<1> HIDE DEF s, k, r, q, an, T
<1>8. GrowthAt(h) < r /\ r - GrowthAt(h) \in Nat \ {0} /\ r - GrowthAt(g) \in Nat \ {0}
      /\ r - GrowthAt(g) <= r - GrowthAt(h)
  BY <1>2, <1>5, <1>7
<1>9. s * (an * (r - GrowthAt(h)) + T(GrowthAt(h))) < k * (q * (r - GrowthAt(h)))
  BY <1>2, <1>4, <1>6, <1>7, <1>8, UnderStays
<1>10. QED
  BY <1>8, <1>9 DEF GrowthTooLow, PriceAt, PriceOf, UnderQuote, s, k, r, q, an, T

\* A rate below one that is too low is too low.
LEMMA RateFalls ==
    ASSUME PricesFit, firm["perShare"] > 0, NEW h \in RateTooLow(firm), NEW l \in 0 .. Grid, l < h
    PROVE  l \in RateTooLow(firm)
<1> DEFINE s == firm["perShare"]
           k == firm["quote"]
           gr == GrowthGiven(firm)
           t == Powers(One + gr)[PriceHorizon] * (One + gr)
           lo == RateAt(l)
           hi == RateAt(h)
           p == Powers(One + lo)[PriceHorizon]
           q == Powers(One + hi)[PriceHorizon]
           an == Annuity(One, One + lo)
           bn == Annuity(One, One + hi)
<1>1. PriceHorizon \in 0 .. PriceHorizon
  BY PricesAssumption
<1>2. /\ s \in Nat /\ k \in Int /\ gr \in Int /\ One \in Nat /\ One + gr \in Nat
      /\ lo \in Int /\ hi \in Int /\ h \in 0 .. Grid
      /\ One + lo \in Nat \ {0} /\ One + hi \in Nat \ {0}
  BY RatesFit DEF RateTooLow
<1>3. lo <= hi
  <2>1. Grid \in Nat /\ h \in Int /\ l \in Int
    BY <1>2, RatesFit
  <2>2. QED
    BY <2>1 DEF RateAt
<1>4. One + lo \in Nat /\ One + hi \in Nat /\ One + lo <= One + hi /\ One + lo > 0
  BY <1>2, <1>3
<1>5. p \in Nat \ {0} /\ q \in Nat \ {0} /\ p <= q
  <2>1. p \in Nat /\ p > 0 /\ p <= q
    BY <1>1, <1>4, PowersGrow
  <2>2. q \in Int
    BY <1>1, <1>4, PowersMultiply
  <2>3. QED
    BY <2>1, <2>2
<1>6. an \in Nat /\ bn \in Nat /\ bn * p <= an * q
  BY <1>2, <1>4, AnnuityFalls
<1>7. t \in Nat
  <2>1. Powers(One + gr)[PriceHorizon] \in Nat
    BY <1>1, <1>2, PowersGrow
  <2>2. QED
    BY <1>2, <2>1
<1>8. hi <= gr \/ s * (bn * (hi - gr) + t) > k * (q * (hi - gr))
  BY DEF RateTooLow, PriceAt, PriceOf, OverQuote
<1>9. SUFFICES lo <= gr \/ s * (an * (lo - gr) + t) > k * (p * (lo - gr))
  BY DEF RateTooLow, PriceAt, PriceOf, OverQuote
<1> HIDE DEF s, k, gr, t, lo, hi, p, q, an, bn
<1>10. CASE lo > gr
  <2>1. /\ lo - gr \in Nat \ {0} /\ hi - gr \in Nat \ {0} /\ lo - gr <= hi - gr
        /\ s * (bn * (hi - gr) + t) > k * (q * (hi - gr))
    BY <1>2, <1>3, <1>8, <1>10
  <2>2. s * (an * (lo - gr) + t) > k * (p * (lo - gr))
    BY <1>2, <1>5, <1>6, <1>7, <2>1, OverStays
  <2>3. QED
    BY <2>2
<1>11. QED
  BY <1>2, <1>10

\* The search finds the growth or the rate that a price implies, after any
\* number of halvings and over any horizon: which places are too low is a matter
\* of the price computed at them, and those places come before the others.
\* (SearchFindsPrice)
THEOREM TheSearchFindsThePrice == ValuationsSpec => []SearchFindsPrice
<1>1. ValuationsInit => PricesFit
  BY PricesAssumption DEF ValuationsInit, PricesFit
<1>2. ASSUME PricesFit PROVE SearchFindsPrice
  <2>1. SUFFICES ASSUME Positive(firm, "perShare")
                 PROVE  /\ Finds(ImpliedGrowth(firm), GrowthTooLow(firm), GrowthHits(firm))
                        /\ Finds(ImpliedRate(firm), RateTooLow(firm), RateHits(firm))
    BY DEF SearchFindsPrice
  <2>2. firm["perShare"] > 0
    BY <1>2, <2>1 DEF Positive, OrZero, PricesFit, Searched
  <2>3. GrowthTooLow(firm) \in SUBSET (0 .. Grid) /\ RateTooLow(firm) \in SUBSET (0 .. Grid)
    BY DEF GrowthTooLow, RateTooLow
  <2>4. Finds(ImpliedGrowth(firm), GrowthTooLow(firm), GrowthHits(firm))
    <3>1. \A k \in GrowthTooLow(firm) : \A l \in 0 .. Grid : l < k => l \in GrowthTooLow(firm)
      BY <1>2, <2>2, GrowthRises
    <3>2. QED
      BY <2>3, <3>1, SearchFinds DEF ImpliedGrowth
  <2>5. Finds(ImpliedRate(firm), RateTooLow(firm), RateHits(firm))
    <3>1. \A k \in RateTooLow(firm) : \A l \in 0 .. Grid : l < k => l \in RateTooLow(firm)
      BY <1>2, <2>2, RateFalls
    <3>2. QED
      BY <2>3, <3>1, SearchFinds DEF ImpliedRate
  <2>6. QED
    BY <2>4, <2>5
<1>3. QED
  BY <1>1, <1>2, PricesStep, PTL DEF ValuationsSpec

-----------------------------------------------------------------------------
(* FactorPack: late facts *)

\* What a selection reads, for each end of a period.
UsableFacts(facts, concepts, period) ==
    {f \in facts : /\ \E i \in DOMAIN concepts : concepts[i] = f.concept
                   /\ SafeFact(f) /\ Fits(f, period)}
PlaceIn(concepts, f) == CHOOSE i \in DOMAIN concepts : concepts[i] = f.concept
Ending(usable, end) == {f \in usable : f.end = end}
FirstNamed(concepts, usable, end) ==
    {f \in Ending(usable, end) : \A g \in Ending(usable, end) : PlaceIn(concepts, f) <= PlaceIn(concepts, g)}
Deciding(concepts, usable, end) == NewestRanked(FirstNamed(concepts, usable, end))
Decided(concepts, usable, end) ==
    /\ \A f, g \in FirstNamed(concepts, usable, end) : f.start = g.start
    /\ \A f, g \in Deciding(concepts, usable, end) : f.value = g.value

LEMMA SelectionReads ==
    ASSUME NEW facts, NEW concepts, NEW period
    PROVE  SelectFacts(facts, concepts, period) =
             LET usable == UsableFacts(facts, concepts, period)
             IN {CHOOSE f \in Deciding(concepts, usable, end) : TRUE :
                    end \in {e \in {f.end : f \in usable} : Decided(concepts, usable, e)}}
BY Zenon DEF SelectFacts, UsableFacts, PlaceIn, Ending, FirstNamed, Deciding, Decided

\* A fact another one of its concept and window outranks decides nothing.
LEMMA OutrankedDecidesNothing ==
    ASSUME NEW facts \in SUBSET FiledFacts, NEW f \in FiledFacts, NEW g \in facts,
           g.concept = f.concept, g.end = f.end, g.start = f.start, g.safe, g.rank > f.rank,
           NEW concepts, NEW period
    PROVE  SelectFacts(facts \cup {f}, concepts, period) = SelectFacts(facts, concepts, period)
<1> DEFINE old == UsableFacts(facts, concepts, period)
           new == UsableFacts(facts \cup {f}, concepts, period)
<1>1. CASE f \notin new
  <2>1. new = old
    BY <1>1 DEF UsableFacts
  <2>2. QED
    BY <2>1, SelectionReads
<1>2. CASE f \in new
  <2>1. DaysOf(g) = DaysOf(f)
    BY DEF DaysOf
  <2>2. Fits(g, period) <=> Fits(f, period)
    BY <2>1 DEF Fits
  <2>3. g \in old
    BY <1>2, <2>2 DEF UsableFacts, SafeFact
  <2>4. new = old \cup {f}
    BY <1>2 DEF UsableFacts
  <2>5. old \subseteq FiledFacts
    BY DEF UsableFacts
  <2> HIDE DEF old, new
  <2>6. PlaceIn(concepts, f) = PlaceIn(concepts, g)
    BY DEF PlaceIn
  <2>7. ASSUME NEW end
        PROVE  /\ FirstNamed(concepts, new, end) =
                    FirstNamed(concepts, old, end) \cup (IF g \in FirstNamed(concepts, old, end) THEN {f} ELSE {})
    <3>1. CASE end # f.end
      <4>1. Ending(new, end) = Ending(old, end)
        BY <2>4, <3>1 DEF Ending
      <4>2. g \notin Ending(old, end)
        BY <3>1 DEF Ending
      <4>3. QED
        BY <4>1, <4>2 DEF FirstNamed
    <3>2. CASE end = f.end
      <4>1. Ending(new, end) = Ending(old, end) \cup {f} /\ g \in Ending(old, end)
        BY <2>3, <2>4, <3>2 DEF Ending
      <4>2. ASSUME NEW h
            PROVE  (\A k \in Ending(new, end) : PlaceIn(concepts, h) <= PlaceIn(concepts, k))
                   <=> (\A k \in Ending(old, end) : PlaceIn(concepts, h) <= PlaceIn(concepts, k))
        BY <2>6, <4>1
      <4>3. f \in FirstNamed(concepts, new, end) <=> g \in FirstNamed(concepts, old, end)
        BY <2>6, <4>1, <4>2 DEF FirstNamed
      <4>4. \A h \in Ending(old, end) : h \in FirstNamed(concepts, new, end) <=> h \in FirstNamed(concepts, old, end)
        BY <4>1, <4>2 DEF FirstNamed
      <4>5. FirstNamed(concepts, new, end) \subseteq Ending(old, end) \cup {f}
            /\ FirstNamed(concepts, old, end) \subseteq Ending(old, end)
        BY <4>1 DEF FirstNamed
      <4>6. f \in Ending(old, end) => (f \in FirstNamed(concepts, old, end) <=> g \in FirstNamed(concepts, old, end))
        BY <4>3, <4>4
      <4>7. QED
        BY <4>3, <4>4, <4>5, <4>6
    <3>3. QED
      BY <3>1, <3>2
  <2>8. ASSUME NEW end
        PROVE  Deciding(concepts, new, end) = Deciding(concepts, old, end)
    <3>1. CASE g \notin FirstNamed(concepts, old, end)
      BY <2>7, <3>1 DEF Deciding
    <3>2. CASE g \in FirstNamed(concepts, old, end)
      <4> DEFINE F == FirstNamed(concepts, old, end)
      <4>1. FirstNamed(concepts, new, end) = F \cup {f}
        BY <2>7, <3>2
      <4>2. F \subseteq FiledFacts /\ g \in F
        BY <2>5, <3>2 DEF FirstNamed, Ending
      <4> HIDE DEF F
      <4>3. \A h \in F \cup {f} : h.rank \in Int
        BY <4>2, FactorAssumption
      <4>4. f \notin NewestRanked(F \cup {f}) /\ f \notin NewestRanked(F)
        BY <4>2, <4>3 DEF NewestRanked
      <4>5. \A h \in F : h \in NewestRanked(F \cup {f}) <=> h \in NewestRanked(F)
        BY <4>2, <4>3 DEF NewestRanked
      <4>6. NewestRanked(F \cup {f}) = NewestRanked(F)
        BY <4>4, <4>5 DEF NewestRanked
      <4>7. QED
        BY <4>1, <4>6 DEF Deciding, F
    <3>3. QED
      BY <3>1, <3>2
  <2>9. ASSUME NEW end
        PROVE  Decided(concepts, new, end) <=> Decided(concepts, old, end)
    <3>1. g \in FirstNamed(concepts, old, end) =>
            ((\A h, k \in FirstNamed(concepts, new, end) : h.start = k.start)
             <=> (\A h, k \in FirstNamed(concepts, old, end) : h.start = k.start))
      BY <2>7
    <3>2. QED
      BY <2>7, <2>8, <3>1 DEF Decided
  <2>10. {h.end : h \in new} = {h.end : h \in old}
    BY <2>3, <2>4
  <2>11. {e \in {h.end : h \in new} : Decided(concepts, new, e)} = {e \in {h.end : h \in old} : Decided(concepts, old, e)}
    BY <2>9, <2>10
  <2>12. {CHOOSE h \in Deciding(concepts, new, end) : TRUE : end \in {e \in {h.end : h \in new} : Decided(concepts, new, e)}}
         = {CHOOSE h \in Deciding(concepts, old, end) : TRUE : end \in {e \in {h.end : h \in old} : Decided(concepts, old, e)}}
    BY <2>8, <2>11
  <2>13. QED
    BY <2>12, SelectionReads DEF old, new
<1>3. QED
  BY <1>1, <1>2

\* So it takes no place among the facts of a window, and the periods are as before.
LEMMA PeriodsStay ==
    ASSUME NEW facts \in SUBSET FiledFacts, NEW f \in FiledFacts, NEW g \in facts,
           Outranks(g, f), f.fy => g.fy
    PROVE  AnnualPeriods(facts \cup {f}) = AnnualPeriods(facts)
<1> DEFINE all == facts \cup {f}
<1>1. DaysOf(f) = DaysOf(g)
  BY DEF Outranks, DaysOf
<1>2. FiscalYears(all) = FiscalYears(facts)
  <2>1. <<f.start, f.end>> = <<g.start, g.end>>
    BY DEF Outranks
  <2>2. ASSUME NEW w \in FiscalYears(all) PROVE w \in FiscalYears(facts)
    <3>1. PICK h \in all : h.fy /\ DaysOf(h) \in 350 .. 380 /\ w = <<h.start, h.end>>
      BY DEF FiscalYears
    <3>2. CASE h \in facts
      BY <3>1, <3>2 DEF FiscalYears
    <3>3. CASE h = f
      BY <1>1, <2>1, <3>1, <3>3 DEF FiscalYears
    <3>4. QED
      BY <3>2, <3>3
  <2>3. QED
    BY <2>2 DEF FiscalYears
<1>3. ASSUME NEW w PROVE ChosenOf(Candidates(all, w)) = ChosenOf(Candidates(facts, w))
  <2> DEFINE old == Candidates(facts, w)
  <2>1. CASE f \notin Candidates(all, w)
    <3>1. Candidates(all, w) = old
      BY <2>1 DEF Candidates
    <3>2. QED
      BY <3>1
  <2>2. CASE f \in Candidates(all, w)
    <3>1. Candidates(all, w) = old \cup {f} /\ g \in old /\ old \in SUBSET FiledFacts
      BY <1>1, <2>2 DEF Candidates, Outranks
    <3> HIDE DEF old
    <3>2. {h.concept : h \in old \cup {f}} = {h.concept : h \in old}
      BY <3>1 DEF Outranks
    <3>3. \A c : SelectFacts(old \cup {f}, <<c>>, "any") = SelectFacts(old, <<c>>, "any")
      BY <3>1, OutrankedDecidesNothing DEF Outranks
    <3>4. ChosenOf(old \cup {f}) = ChosenOf(old)
      BY <3>2, <3>3 DEF ChosenOf
    <3>5. QED
      BY <3>1, <3>4 DEF old
  <2>3. QED
    BY <2>1, <2>2
<1> DEFINE P(fs, w) == [start |-> w[1], end |-> w[2], facts |-> ChosenOf(Candidates(fs, w))]
<1>4. ASSUME NEW w PROVE P(all, w) = P(facts, w)
  BY <1>3
<1>5. \A fs : AnnualPeriods(fs) = {p \in {P(fs, w) : w \in FiscalYears(fs)} : \E h \in p.facts : DaysOf(h) # 0}
  BY DEF AnnualPeriods
<1> HIDE DEF P
<1>6. {P(all, w) : w \in FiscalYears(all)} = {P(facts, w) : w \in FiscalYears(facts)}
  BY <1>2, <1>4
<1>7. QED
  BY <1>5, <1>6

\* A fact that arrives when one of its concept and window that was accepted
\* later is there leaves the revenue, and the years that are compared, as they
\* were: where the newest are taken it is outranked, and its place in the list,
\* its start and its end the other fact has as well.  (financial_input_safety.py
\* 48-78, factor_engine.py 129-151)
THEOREM LateFactsAreInert == FactorSpec => LateFactsDecideNothing
<1> DEFINE Kept == filed \subseteq FiledFacts
           Step == \A f \in filed' \ filed : \A g \in filed : Outranks(g, f) =>
                     /\ SelectFacts(filed', RevenueConcepts, "annual") = SelectFacts(filed, RevenueConcepts, "annual")
                     /\ (f.fy => g.fy) => PackPeriods(filed') = PackPeriods(filed)
<1>1. FactorInit => Kept
  BY DEF FactorInit
<1>2. Kept /\ [FactorNext]_factorVars => Kept'
  BY DEF FactorNext, FileFact, ReviseFactor, LoseFactor, factorVars
<1>3. Kept /\ [FactorNext]_factorVars => [Step]_filed
  <2> SUFFICES ASSUME Kept, FactorNext, filed' # filed PROVE Step
    BY DEF factorVars
  <2>1. PICK f \in FiledFacts \ filed : filed' = filed \cup {f}
    BY DEF FactorNext, FileFact, ReviseFactor, LoseFactor
  <2>2. filed' \ filed = {f}
    BY <2>1
  <2>3. ASSUME NEW g \in filed, Outranks(g, f)
        PROVE  SelectFacts(filed', RevenueConcepts, "annual") = SelectFacts(filed, RevenueConcepts, "annual")
    BY <2>1, <2>3, OutrankedDecidesNothing DEF Outranks
  <2>4. ASSUME NEW g \in filed, Outranks(g, f), f.fy => g.fy
        PROVE  PackPeriods(filed') = PackPeriods(filed)
    <3>1. AnnualPeriods(filed') = AnnualPeriods(filed)
      BY <2>1, <2>4, PeriodsStay
    <3>2. QED
      BY <3>1 DEF PackPeriods
  <2>5. QED
    BY <2>2, <2>3, <2>4
<1>4. QED
  BY <1>1, <1>2, <1>3, PTL DEF FactorSpec, LateFactsDecideNothing

-----------------------------------------------------------------------------
(* FactorPack: who passes for the portfolio *)

\* The amount of a figure is one of its values, and nothing if it is missing.
LEMMA AmountIsWhole ==
    ASSUME NEW f \in SUBSET Int
    PROVE  Amount(f) \in Int /\ (f = {} => Amount(f) = 0) /\ (f # {} => Amount(f) \in f)
<1>1. CASE f = {}
  BY <1>1 DEF Amount, Missing
<1>2. CASE f # {}
  <2>1. Amount(f) = CHOOSE v \in f : TRUE
    BY <1>2 DEF Amount, Missing
  <2>2. (CHOOSE v \in f : TRUE) \in f
    BY <1>2
  <2>3. QED
    BY <1>2, <2>1, <2>2
<1>3. QED
  BY <1>1, <1>2

AddsUp(g, s, n) == g[0] = 0 /\ \A i \in 1 .. n : g[i] = g[i - 1] + Amount(s[i])

\* A total of whole figures adds up from the first to the last.
LEMMA TotalAddsUp ==
    ASSUME NEW n \in Nat, NEW s, Len(s) = n, \A i \in 1 .. n : s[i] \in SUBSET Int
    PROVE  \E g : AddsUp(g, s, n) /\ FactorTotal(s) = g[n]
<1> DEFINE F == [i \in 1 .. n |-> [t \in Int |-> t + Amount(s[i])]]
           Sums(h) == h = [i \in 0 .. Len(s) |-> IF i = 0 THEN 0 ELSE h[i - 1] + Amount(s[i])]
<1>1. \A i \in 1 .. n : Amount(s[i]) \in Int
  BY AmountIsWhole
<1>2. F \in [1 .. n -> [Int -> Int]]
  BY <1>1
<1>3. \A i \in 1 .. n, t \in Int : F[i][t] = t + Amount(s[i])
  OBVIOUS
<1> HIDE DEF F
<1>4. PICK g \in [0 .. n -> Int] : Steps(g, 0, n, F)
  <2> DEFINE T == Int
  <2>1. 0 \in T /\ F \in [1 .. n -> [T -> T]]
    BY <1>2
  <2> HIDE DEF T
  <2>2. \E g \in [0 .. n -> T] : Steps(g, 0, n, F)
    BY <2>1, StepByStep
  <2>3. QED
    BY <2>2 DEF T
<1>5. ASSUME NEW i \in 1 .. n PROVE g[i] = g[i - 1] + Amount(s[i])
  <2>1. i - 1 \in 0 .. n
    OBVIOUS
  <2>2. g[i] = F[i][g[i - 1]] /\ g[i - 1] \in Int
    BY <1>4, <2>1 DEF Steps
  <2>3. QED
    BY <1>3, <2>2
<1>6. Sums(g)
  <2>1. \A i \in 0 .. n : g[i] = IF i = 0 THEN 0 ELSE g[i - 1] + Amount(s[i])
    BY <1>4, <1>5 DEF Steps
  <2>2. g = [i \in 0 .. n |-> g[i]]
    BY <1>4
  <2>3. QED
    BY <2>1, <2>2
<1> DEFINE sum[i \in 0 .. Len(s)] == IF i = 0 THEN 0 ELSE sum[i - 1] + Amount(s[i])
<1>7. Sums(sum)
  BY <1>6 DEF sum
<1>8. FactorTotal(s) = sum[Len(s)]
  BY DEF FactorTotal
<1> HIDE DEF sum
<1>9. PICK h : Sums(h) /\ FactorTotal(s) = h[n]
  BY <1>7, <1>8
<1>10. \A i \in 0 .. n : h[i] = IF i = 0 THEN 0 ELSE h[i - 1] + Amount(s[i])
  BY <1>9
<1>11. AddsUp(h, s, n)
  <2>1. h[0] = 0
    BY <1>10
  <2>2. ASSUME NEW i \in 1 .. n PROVE h[i] = h[i - 1] + Amount(s[i])
    <3>1. i \in 0 .. n /\ i # 0
      OBVIOUS
    <3>2. QED
      BY <1>10, <3>1
  <2>3. QED
    BY <2>1, <2>2 DEF AddsUp
<1>12. QED
  BY <1>9, <1>11

LEMMA TotalOfTwo ==
    ASSUME NEW s, Len(s) = 2, \A i \in 1 .. 2 : s[i] \in SUBSET Int
    PROVE  FactorTotal(s) = Amount(s[1]) + Amount(s[2])
<1>1. PICK g : AddsUp(g, s, 2) /\ FactorTotal(s) = g[2]
  BY TotalAddsUp
<1>2. g[0] = 0 /\ g[1] = g[0] + Amount(s[1]) /\ g[2] = g[1] + Amount(s[2])
  BY <1>1 DEF AddsUp
<1>3. Amount(s[1]) \in Int /\ Amount(s[2]) \in Int
  BY AmountIsWhole
<1>4. QED
  BY <1>1, <1>2, <1>3

LEMMA TotalOfThree ==
    ASSUME NEW s, Len(s) = 3, \A i \in 1 .. 3 : s[i] \in SUBSET Int
    PROVE  FactorTotal(s) = Amount(s[1]) + Amount(s[2]) + Amount(s[3])
<1>1. PICK g : AddsUp(g, s, 3) /\ FactorTotal(s) = g[3]
  BY TotalAddsUp
<1>2. g[0] = 0 /\ g[1] = g[0] + Amount(s[1]) /\ g[2] = g[1] + Amount(s[2]) /\ g[3] = g[2] + Amount(s[3])
  BY <1>1 DEF AddsUp
<1>3. Amount(s[1]) \in Int /\ Amount(s[2]) \in Int /\ Amount(s[3]) \in Int
  BY AmountIsWhole
<1>4. QED
  BY <1>1, <1>2, <1>3

LEMMA TotalOfFour ==
    ASSUME NEW s, Len(s) = 4, \A i \in 1 .. 4 : s[i] \in SUBSET Int
    PROVE  FactorTotal(s) = Amount(s[1]) + Amount(s[2]) + Amount(s[3]) + Amount(s[4])
<1>1. PICK g : AddsUp(g, s, 4) /\ FactorTotal(s) = g[4]
  BY TotalAddsUp
<1>2. /\ g[0] = 0 /\ g[1] = g[0] + Amount(s[1]) /\ g[2] = g[1] + Amount(s[2])
      /\ g[3] = g[2] + Amount(s[3]) /\ g[4] = g[3] + Amount(s[4])
  BY <1>1 DEF AddsUp
<1>3. Amount(s[1]) \in Int /\ Amount(s[2]) \in Int /\ Amount(s[3]) \in Int /\ Amount(s[4]) \in Int
  BY AmountIsWhole
<1>4. QED
  BY <1>1, <1>2, <1>3

LEMMA TotalOfFive ==
    ASSUME NEW s, Len(s) = 5, \A i \in 1 .. 5 : s[i] \in SUBSET Int
    PROVE  FactorTotal(s) = Amount(s[1]) + Amount(s[2]) + Amount(s[3]) + Amount(s[4]) + Amount(s[5])
<1>1. PICK g : AddsUp(g, s, 5) /\ FactorTotal(s) = g[5]
  BY TotalAddsUp
<1>2. /\ g[0] = 0 /\ g[1] = g[0] + Amount(s[1]) /\ g[2] = g[1] + Amount(s[2])
      /\ g[3] = g[2] + Amount(s[3]) /\ g[4] = g[3] + Amount(s[4]) /\ g[5] = g[4] + Amount(s[5])
  BY <1>1 DEF AddsUp
<1>3. Amount(s[1]) \in Int /\ Amount(s[2]) \in Int /\ Amount(s[3]) \in Int /\ Amount(s[4]) \in Int /\ Amount(s[5]) \in Int
  BY AmountIsWhole
<1>4. QED
  BY <1>1, <1>2, <1>3

\* The figures of a year are whole, and total assets no negative amount.
WholeYear(y) == \A n \in DOMAIN y : y[n] \in (IF n = "TOTAL_ASSETS" THEN Nat ELSE Int)

FactorsFit == {"now", "before"} \subseteq DOMAIN factors /\ \A y \in DOMAIN factors : WholeYear(factors[y])

LEMMA FactorsStep == FactorsFit /\ [FactorNext]_factorVars => FactorsFit'
<1> SUFFICES ASSUME FactorsFit, [FactorNext]_factorVars PROVE FactorsFit'
  OBVIOUS
<1>1. ASSUME NEW y \in DOMAIN factors, NEW n \in DOMAIN factors[y], n \in DOMAIN FactorChoices, ReviseFactor(y, n)
      PROVE  FactorsFit'
  <2>1. PICK v \in FactorChoices[n] : factors' = [factors EXCEPT ![y] = Set(factors[y], n, v)]
    BY <1>1 DEF ReviseFactor
  <2>2. v \in (IF n = "TOTAL_ASSETS" THEN Nat ELSE Int)
    BY <1>1, FactorAssumption
  <2>3. WholeYear(Set(factors[y], n, v))
    BY <2>2 DEF WholeYear, Set, FactorsFit
  <2>4. QED
    BY <2>1, <2>3 DEF FactorsFit
<1>2. ASSUME NEW y \in DOMAIN factors, NEW n, LoseFactor(y, n)
      PROVE  FactorsFit'
  <2>1. factors' = [factors EXCEPT ![y] = Drop(factors[y], n)]
    BY <1>2 DEF LoseFactor
  <2>2. WholeYear(Drop(factors[y], n))
    BY DEF WholeYear, Drop, FactorsFit
  <2>3. QED
    BY <2>1, <2>2 DEF FactorsFit
<1>3. CASE UNCHANGED factors
  BY <1>3 DEF FactorsFit
<1>4. QED
  BY <1>1, <1>2, <1>3 DEF FactorNext, FileFact, factorVars

\* A figure of a year, and what is made of figures, is whole if it is there.
LEMMA FactIsWhole ==
    ASSUME NEW y, WholeYear(y), NEW n
    PROVE  Fact(y, n) \in SUBSET Int /\ FactAbs(y, n) \in SUBSET Int /\ FactAbs(y, n) \in SUBSET Nat
<1>1. Fact(y, n) \in SUBSET Int
  BY DEF Fact, WholeYear, Missing
<1>2. QED
  BY <1>1 DEF FactAbs, AbsOf

LEMMA WholeOfWhole ==
    ASSUME NEW a \in SUBSET Int, NEW b \in SUBSET Int
    PROVE  /\ Quotient(a, b) \in SUBSET Int /\ Sum2(a, b) \in SUBSET Int /\ Minus(a, b) \in SUBSET Int
           /\ Average(a, b) \in SUBSET Int /\ PctChange(a, b) \in SUBSET Int /\ OrNought(a) \in SUBSET Int
<1>1. ASSUME NEW v \in Int, NEW e \in Int \ {0}
      PROVE  (IF e < 0 THEN (-1000 * v) \div (-e) ELSE (1000 * v) \div e) \in Int
  <2>1. CASE e < 0
    <3>1. -e \in Int /\ -e > 0 /\ -1000 * v \in Int
      BY <2>1
    <3>2. QED
      BY <2>1, <3>1
  <2>2. CASE e > 0
    BY <2>2
  <2>3. QED
    BY <2>1, <2>2
<1>2. Quotient(a, b) \in SUBSET Int
  BY <1>1 DEF Quotient
<1>3. Sum2(a, b) \in SUBSET Int /\ Minus(a, b) \in SUBSET Int
  BY DEF Sum2, Minus
<1>4. Average(a, b) \in SUBSET Int
  BY <1>3 DEF Average
<1>5. ASSUME NEW v \in Int, NEW w \in Int \ {0} PROVE (100 * (v - w)) \div AbsOf(w) \in Int
  <2>1. AbsOf(w) \in Int /\ AbsOf(w) > 0
    BY DEF AbsOf
  <2>2. 100 * (v - w) \in Int
    OBVIOUS
  <2>3. QED
    BY <2>1, <2>2
<1>6. PctChange(a, b) \in SUBSET Int
  BY <1>5 DEF PctChange
<1>7. QED
  BY <1>2, <1>3, <1>4, <1>6 DEF OrNought

LEMMA ScoreIsWhole ==
    ASSUME NEW c, NEW p, WholeYear(c), WholeYear(p)
    PROVE  BeneishMScore(c, p) \in SUBSET Int
<1> DEFINE Inputs(y) == {Quotient(Fact(y, "RECEIVABLES"), Fact(y, "REVENUE")), Quotient(Fact(y, "SGA"), Fact(y, "REVENUE")),
                         FactorGrossMargin(y), AssetQuality(y), Fact(y, "REVENUE"), DepreciationRate(y), CurrentLeverage(y),
                         Accruals(y), Fact(y, "TOTAL_ASSETS")}
<1>1. ASSUME NEW y, WholeYear(y) PROVE Inputs(y) \subseteq SUBSET Int
  <2>1. \A n : Fact(y, n) \in SUBSET Int
    BY <1>1, FactIsWhole
  <2>2. FactorGrossMargin(y) \in SUBSET Int /\ Accruals(y) \in SUBSET Int
    BY <2>1, WholeOfWhole DEF FactorGrossMargin, Accruals
  <2>3. DepreciationRate(y) \in SUBSET Int /\ CurrentLeverage(y) \in SUBSET Int
    BY <2>1, WholeOfWhole DEF DepreciationRate, CurrentLeverage
  <2>4. AssetQuality(y) \in SUBSET Int
    <3>1. Quotient(Sum2(Sum2(Fact(y, "CURRENT_ASSETS"), Fact(y, "PPE")), OrNought(Fact(y, "SECURITIES"))),
                   Fact(y, "TOTAL_ASSETS")) \in SUBSET Int
      BY <2>1, WholeOfWhole
    <3>2. QED
      BY <3>1 DEF AssetQuality
  <2>5. QED
    BY <2>1, <2>2, <2>3, <2>4, WholeOfWhole
<1>2. ASSUME NEW x1 \in Int, NEW x2 \in Int, NEW x3 \in Int, NEW x4 \in Int,
             NEW x5 \in Int, NEW x6 \in Int, NEW x7 \in Int, NEW x8 \in Int
      PROVE  -4840 + (920 * x1 + 528 * x2 + 404 * x3 + 892 * x4
                        + 115 * x5 - 172 * x6 + 4679 * x7 - 327 * x8) \div 1000 \in Int
  OBVIOUS
<1>3. \A y, z : (WholeYear(y) /\ WholeYear(z)) => \A a \in Inputs(y), b \in Inputs(z) : Quotient(a, b) \in SUBSET Int
  BY <1>1, WholeOfWhole
<1>4. /\ Quotient(Quotient(Fact(c, "RECEIVABLES"), Fact(c, "REVENUE")),
                  Quotient(Fact(p, "RECEIVABLES"), Fact(p, "REVENUE"))) \in SUBSET Int
      /\ Quotient(FactorGrossMargin(p), FactorGrossMargin(c)) \in SUBSET Int
      /\ Quotient(AssetQuality(c), AssetQuality(p)) \in SUBSET Int
      /\ Quotient(Fact(c, "REVENUE"), Fact(p, "REVENUE")) \in SUBSET Int
      /\ Quotient(DepreciationRate(p), DepreciationRate(c)) \in SUBSET Int
      /\ Quotient(Quotient(Fact(c, "SGA"), Fact(c, "REVENUE")),
                  Quotient(Fact(p, "SGA"), Fact(p, "REVENUE"))) \in SUBSET Int
      /\ Quotient(CurrentLeverage(c), CurrentLeverage(p)) \in SUBSET Int
      /\ Quotient(Accruals(c), Fact(c, "TOTAL_ASSETS")) \in SUBSET Int
  BY <1>3
<1> HIDE DEF Inputs
<1>5. QED
  BY <1>2, <1>4 DEF BeneishMScore

Tests == SUBSET (0 .. 1000)

\* A test gives from none to a thousand parts of its points.
LEMMA TestIsClamped ==
    ASSUME NEW v \in SUBSET Int, NEW pass \in Int, NEW strong \in Int
    PROVE  /\ pass < strong => Threshold(v, pass, strong) \in Tests
           /\ pass > strong => InverseThreshold(v, pass, strong) \in Tests
<1>1. \A x \in Int : Within(x, 0, 1000) \in 0 .. 1000
  BY DEF Within, Smaller, Larger
<1>2. ASSUME pass < strong PROVE Threshold(v, pass, strong) \in Tests
  <2>1. \A x \in v : (1000 * (x - pass)) \div (strong - pass) \in Int
    BY <1>2
  <2>2. QED
    BY <1>1, <2>1 DEF Threshold, Tests
<1>3. ASSUME pass > strong PROVE InverseThreshold(v, pass, strong) \in Tests
  <2>1. \A x \in v : (1000 * (pass - x)) \div (pass - strong) \in Int
    BY <1>3
  <2>2. QED
    BY <1>1, <2>1 DEF InverseThreshold, Tests
<1>4. QED
  BY <1>2, <1>3

\* Below what passes it gives none.
LEMMA BelowGivesNone ==
    ASSUME NEW v \in SUBSET Int, NEW pass \in Int, NEW strong \in Int, pass < strong, \A x \in v : x < pass
    PROVE  Threshold(v, pass, strong) \in SUBSET {0}
<1>1. ASSUME NEW x \in Int, x < 0 PROVE Within(x, 0, 1000) = 0
  BY <1>1 DEF Within, Smaller, Larger
<1>2. ASSUME NEW x \in v
      PROVE  (1000 * (x - pass)) \div (strong - pass) \in Int /\ (1000 * (x - pass)) \div (strong - pass) < 0
  <2> DEFINE n == 1000 * (x - pass)
             d == strong - pass
  <2>1. n \in Int /\ n < 0 /\ d \in Int /\ d > 0
    OBVIOUS
  <2> HIDE DEF n, d
  <2>2. n \div d \in Int /\ n \div d < 0
    BY <2>1
  <2>3. QED
    BY <2>2 DEF n, d
<1>3. QED
  BY <1>1, <1>2 DEF Threshold

LEMMA AmountOfTest ==
    ASSUME NEW f \in Tests
    PROVE  f \in SUBSET Int /\ Amount(f) \in 0 .. 1000 /\ (f \in SUBSET {0} => Amount(f) = 0)
<1>1. f \in SUBSET Int
  BY DEF Tests
<1>2. QED
  BY <1>1, AmountIsWhole DEF Tests

LEMMA AmountsOfTests == \A f \in Tests : Amount(f) \in Nat
<1> SUFFICES ASSUME NEW f \in Tests PROVE Amount(f) \in Nat
  OBVIOUS
<1> DEFINE amount == Amount(f)
<1>1. amount \in 0 .. 1000
  BY AmountOfTest
<1>2. amount \in Nat
  <2> HIDE DEF amount
  <2>1. QED
    BY <1>1
<1>3. QED
  BY <1>2

LEMMA AmountOfModule ==
    ASSUME NEW scores, NEW points \in Nat, FactorTotal(scores) \in Nat, Len(scores) \in Nat \ {0}
    PROVE  /\ ModuleAverage(scores, points) \in SUBSET Int
           /\ Amount(ModuleAverage(scores, points)) \in {0, (points * FactorTotal(scores)) \div Len(scores)}
<1> DEFINE share == (points * FactorTotal(scores)) \div Len(scores)
<1>1. share \in Int
  OBVIOUS
<1>2. ModuleAverage(scores, points) \in SUBSET {share}
  BY DEF ModuleAverage, Missing
<1> HIDE DEF share
<1>3. ModuleAverage(scores, points) \in SUBSET Int
  BY <1>1, <1>2
<1>4. Amount(ModuleAverage(scores, points)) \in {0, share}
  BY <1>2, <1>3, AmountIsWhole
<1>5. QED
  BY <1>3, <1>4 DEF share

\* What a module gives, by the tests it has.
LEMMA TwoTests ==
    ASSUME NEW s, Len(s) = 2, \A i \in 1 .. 2 : s[i] \in Tests, NEW points \in Nat
    PROVE  /\ ModuleAverage(s, points) \in SUBSET Int
           /\ Amount(ModuleAverage(s, points)) \in {0, (points * (Amount(s[1]) + Amount(s[2]))) \div 2}
<1>1. \A i \in 1 .. 2 : s[i] \in SUBSET Int
  BY AmountOfTest
<1>2. \A f \in Tests : Amount(f) \in Nat
  BY AmountsOfTests
<1>3. \A i \in 1 .. 2 : Amount(s[i]) \in Nat
  BY <1>2
<1>4. FactorTotal(s) = Amount(s[1]) + Amount(s[2])
  BY <1>1, TotalOfTwo
<1>5. FactorTotal(s) \in Nat /\ Len(s) \in Nat \ {0}
  BY <1>3, <1>4
<1>6. QED
  BY <1>4, <1>5, AmountOfModule

LEMMA ThreeTests ==
    ASSUME NEW s, Len(s) = 3, \A i \in 1 .. 3 : s[i] \in Tests, NEW points \in Nat
    PROVE  /\ ModuleAverage(s, points) \in SUBSET Int
           /\ Amount(ModuleAverage(s, points)) \in {0, (points * (Amount(s[1]) + Amount(s[2]) + Amount(s[3]))) \div 3}
<1>1. \A i \in 1 .. 3 : s[i] \in SUBSET Int
  BY AmountOfTest
<1>2. \A f \in Tests : Amount(f) \in Nat
  BY AmountsOfTests
<1>3. \A i \in 1 .. 3 : Amount(s[i]) \in Nat
  BY <1>2
<1>4. FactorTotal(s) = Amount(s[1]) + Amount(s[2]) + Amount(s[3])
  BY <1>1, TotalOfThree
<1>5. FactorTotal(s) \in Nat /\ Len(s) \in Nat \ {0}
  BY <1>3, <1>4
<1>6. QED
  BY <1>4, <1>5, AmountOfModule

LEMMA FourTests ==
    ASSUME NEW s, Len(s) = 4, \A i \in 1 .. 4 : s[i] \in Tests, NEW points \in Nat
    PROVE  /\ ModuleAverage(s, points) \in SUBSET Int
           /\ Amount(ModuleAverage(s, points))
                \in {0, (points * (Amount(s[1]) + Amount(s[2]) + Amount(s[3]) + Amount(s[4]))) \div 4}
<1>1. \A i \in 1 .. 4 : s[i] \in SUBSET Int
  BY AmountOfTest
<1>2. \A f \in Tests : Amount(f) \in Nat
  BY AmountsOfTests
<1>3. \A i \in 1 .. 4 : Amount(s[i]) \in Nat
  BY <1>2
<1>4. FactorTotal(s) = Amount(s[1]) + Amount(s[2]) + Amount(s[3]) + Amount(s[4])
  BY <1>1, TotalOfFour
<1>5. FactorTotal(s) \in Nat /\ Len(s) \in Nat \ {0}
  BY <1>3, <1>4
<1>6. QED
  BY <1>4, <1>5, AmountOfModule

\* Of two figures of opposite sign, the ratio is negative.
LEMMA LossIsNegative ==
    ASSUME NEW a \in SUBSET Int, NEW b \in SUBSET Int
    PROVE  /\ ((\A v \in a : v <= 0) /\ (\A w \in b : w >= 0)) => \A q \in Quotient(a, b) : q <= 0
           /\ ((\A v \in a : v < 0) /\ (\A w \in b : w >= 0)) => \A q \in Quotient(a, b) : q < 0
<1>1. ASSUME NEW n \in Int, NEW d \in Int, d > 0
      PROVE  (1000 * n) \div d \in Int /\ (n <= 0 => (1000 * n) \div d <= 0) /\ (n < 0 => (1000 * n) \div d < 0)
  <2> DEFINE k == 1000 * n
  <2>1. k \in Int /\ (n <= 0 => k <= 0) /\ (n < 0 => k < 0)
    OBVIOUS
  <2> HIDE DEF k
  <2>2. k \div d \in Int /\ (k <= 0 => k \div d <= 0) /\ (k < 0 => k \div d < 0)
    BY <1>1, <2>1
  <2>3. QED
    BY <2>1, <2>2 DEF k
<1>2. ASSUME \A w \in b : w >= 0, NEW q \in Quotient(a, b)
      PROVE  \E v \in a : \E w \in b : w \in Int /\ w > 0 /\ v \in Int /\ q = (1000 * v) \div w
  <2>1. PICK v \in a : \E w \in b \ {0} : q = (1000 * v) \div w
    BY <1>2 DEF Quotient
  <2>2. PICK w \in b \ {0} : q = (1000 * v) \div w
    BY <2>1
  <2>3. w > 0 /\ w \in Int /\ v \in Int
    BY <1>2
  <2>4. QED
    BY <2>2, <2>3
<1>3. ASSUME \A v \in a : v <= 0, \A w \in b : w >= 0, NEW q \in Quotient(a, b)
      PROVE  q <= 0 /\ ((\A v \in a : v < 0) => q < 0)
  <2>1. PICK v \in a : \E w \in b : w \in Int /\ w > 0 /\ v \in Int /\ q = (1000 * v) \div w
    BY <1>2, <1>3
  <2>2. (v <= 0 => q <= 0) /\ (v < 0 => q < 0)
    BY <1>1, <2>1
  <2>3. QED
    BY <1>3, <2>2
<1>4. (\A v \in a : v < 0) => \A v \in a : v <= 0
  OBVIOUS
<1>5. QED
  BY <1>3, <1>4

\* A figure has one value if it is there.
LEMMA FactIsOne ==
    ASSUME NEW y, NEW n, NEW v \in Fact(y, n)
    PROVE  Fact(y, n) = {v}
BY DEF Fact, Missing

LEMMA MeanOfNonnegative ==
    ASSUME NEW a \in SUBSET Nat, NEW b \in SUBSET Nat
    PROVE  \A v \in Average(a, b) : v >= 0
<1>1. \A s \in Sum2(a, b) : s \in Nat
  BY DEF Sum2
<1>2. \A s \in Nat : s \div 2 \in Nat
  OBVIOUS
<1>3. QED
  BY <1>1, <1>2 DEF Average

\* A company with a loss and no cash from operations, whose mean equity is not
\* negative, has at most a quarter of the points for returns and none for cash.
LEMMA FewReturns ==
    ASSUME NEW c, NEW p, WholeYear(c), WholeYear(p),
           \A v \in Fact(c, "NET_INCOME") : v < 0,
           ~Above({0}, Average(Fact(c, "EQUITY"), Fact(p, "EQUITY")))
    PROVE  LET t1 == Threshold(Quotient(Fact(c, "NET_INCOME"), MeanAssets(c, p)), 80, 120)
               t2 == Threshold(Quotient(Fact(c, "NET_INCOME"), Average(Fact(c, "EQUITY"), Fact(p, "EQUITY"))), 120, 180)
               t3 == Threshold(Quotient(Fact(c, "NET_INCOME"), Fact(c, "REVENUE")), 50, 150)
               t4 == Threshold(Quotient(Fact(c, "REVENUE"), MeanAssets(c, p)), 500, 1200)
           IN /\ ModuleAverage(<<t1, t2, t3, t4>>, 20) \in SUBSET Int
              /\ Amount(ModuleAverage(<<t1, t2, t3, t4>>, 20)) <= 5000
<1> DEFINE income == Fact(c, "NET_INCOME")
           revenue == Fact(c, "REVENUE")
           assets == MeanAssets(c, p)
           equity == Average(Fact(c, "EQUITY"), Fact(p, "EQUITY"))
           t1 == Threshold(Quotient(income, assets), 80, 120)
           t2 == Threshold(Quotient(income, equity), 120, 180)
           t3 == Threshold(Quotient(income, revenue), 50, 150)
           t4 == Threshold(Quotient(revenue, assets), 500, 1200)
<1>1. income \in SUBSET Int /\ revenue \in SUBSET Int
  BY FactIsWhole
<1>2. assets \in SUBSET Int /\ \A v \in assets : v >= 0
  <2>1. Fact(c, "TOTAL_ASSETS") \in SUBSET Nat /\ Fact(p, "TOTAL_ASSETS") \in SUBSET Nat
    BY DEF Fact, WholeYear, Missing
  <2>2. \A v \in assets : v >= 0
    BY <2>1, MeanOfNonnegative DEF MeanAssets
  <2>3. Fact(c, "TOTAL_ASSETS") \in SUBSET Int /\ Fact(p, "TOTAL_ASSETS") \in SUBSET Int
    BY FactIsWhole
  <2>4. assets \in SUBSET Int
    BY <2>3, WholeOfWhole DEF MeanAssets
  <2>5. QED
    BY <2>2, <2>4
<1>3. equity \in SUBSET Int /\ \A v \in equity : v >= 0
  <2>1. Fact(c, "EQUITY") \in SUBSET Int /\ Fact(p, "EQUITY") \in SUBSET Int
    BY FactIsWhole
  <2>2. equity \in SUBSET Int
    BY <2>1, WholeOfWhole
  <2>3. QED
    BY <2>2 DEF Above
<1>4. \A v \in income : v < 0
  OBVIOUS
<1> HIDE DEF income, revenue, assets, equity
<1>5. /\ Quotient(income, assets) \in SUBSET Int /\ Quotient(income, equity) \in SUBSET Int
      /\ Quotient(income, revenue) \in SUBSET Int /\ Quotient(revenue, assets) \in SUBSET Int
  BY <1>1, <1>2, <1>3, WholeOfWhole
<1>6. t1 \in Tests /\ t2 \in Tests /\ t3 \in Tests /\ t4 \in Tests
  BY <1>5, TestIsClamped
<1>7. t1 \in SUBSET {0}
  <2>1. \A q \in Quotient(income, assets) : q < 0
    BY <1>1, <1>2, <1>4, LossIsNegative
  <2>2. \A q \in Quotient(income, assets) : q < 80
    BY <1>5, <2>1
  <2>3. QED
    BY <1>5, <2>2, BelowGivesNone
<1>8. t2 \in SUBSET {0}
  <2>1. \A q \in Quotient(income, equity) : q < 0
    BY <1>1, <1>3, <1>4, LossIsNegative
  <2>2. \A q \in Quotient(income, equity) : q < 120
    BY <1>5, <2>1
  <2>3. QED
    BY <1>5, <2>2, BelowGivesNone
<1>9. t3 \in SUBSET {0} \/ t4 \in SUBSET {0}
  <2>1. (\A r \in revenue : r >= 0) \/ (\A r \in revenue : r <= 0)
    BY <1>1, FactIsOne DEF revenue
  <2>2. CASE \A r \in revenue : r >= 0
    <3>1. \A q \in Quotient(income, revenue) : q < 0
      BY <1>1, <1>4, <2>2, LossIsNegative
    <3>2. \A q \in Quotient(income, revenue) : q < 50
      BY <1>5, <3>1
    <3>3. QED
      BY <1>5, <3>2, BelowGivesNone
  <2>3. CASE \A r \in revenue : r <= 0
    <3>1. \A q \in Quotient(revenue, assets) : q <= 0
      BY <1>1, <1>2, <2>3, LossIsNegative
    <3>2. \A q \in Quotient(revenue, assets) : q < 500
      BY <1>5, <3>1
    <3>3. QED
      BY <1>5, <3>2, BelowGivesNone
  <2>4. QED
    BY <2>1, <2>2, <2>3
<1> HIDE DEF t1, t2, t3, t4
<1>10. Amount(t1) = 0 /\ Amount(t2) = 0
  BY <1>6, <1>7, <1>8, AmountOfTest
<1>11. Amount(t3) \in 0 .. 1000 /\ Amount(t4) \in 0 .. 1000 /\ (Amount(t3) = 0 \/ Amount(t4) = 0)
  BY <1>6, <1>9, AmountOfTest
<1> DEFINE s == <<t1, t2, t3, t4>>
<1>12. Len(s) = 4 /\ s[1] = t1 /\ s[2] = t2 /\ s[3] = t3 /\ s[4] = t4
  OBVIOUS
<1> HIDE DEF s
<1>13. ASSUME NEW i \in 1 .. 4 PROVE s[i] \in Tests
  <2>1. i = 1 \/ i = 2 \/ i = 3 \/ i = 4
    OBVIOUS
  <2>2. QED
    BY <1>6, <1>12, <2>1, Zenon
<1>14. /\ ModuleAverage(s, 20) \in SUBSET Int
       /\ Amount(ModuleAverage(s, 20)) \in {0, (20 * (Amount(t1) + Amount(t2) + Amount(t3) + Amount(t4))) \div 4}
  BY <1>12, <1>13, FourTests
<1>15. Amount(ModuleAverage(s, 20)) <= 5000
  <2> DEFINE average == Amount(ModuleAverage(s, 20))
             third == Amount(t3)
             fourth == Amount(t4)
             both == third + fourth
  <2>1. third \in Nat /\ fourth \in Nat /\ both \in 0 .. 1000
    <3>1. third \in 0 .. 1000 /\ fourth \in 0 .. 1000 /\ (third = 0 \/ fourth = 0)
      BY <1>11
    <3> HIDE DEF third, fourth
    <3>2. QED
      BY <3>1
  <2>2. average \in {0, (20 * both) \div 4}
    <3>1. Amount(t1) + Amount(t2) + third + fourth = both
      <4> HIDE DEF third, fourth
      <4>1. QED
        BY <1>10, <2>1
    <3>2. QED
      BY <1>14, <3>1
  <2> HIDE DEF average, both
  <2>3. (20 * both) \div 4 <= 5000
    BY <2>1
  <2>4. average <= 5000
    BY <2>2, <2>3
  <2>5. QED
    BY <2>4 DEF average
<1>16. QED
  BY <1>14, <1>15 DEF s, t1, t2, t3, t4, income, revenue, assets, equity

\* None for cash: it covers no needs, and is no share of what would be strong.
LEMMA NoCashPoints ==
    ASSUME NEW c, WholeYear(c), \A v \in Fact(c, "NET_INCOME") : v < 0, NEW cash \in Int, cash < 0,
           Fact(c, "OPERATING_CASH_FLOW") = {cash}, NEW strong \in Int, strong > 0
    PROVE  LET t1 == IF CoversNeeds(c) THEN {1000} ELSE {0}
               t2 == Threshold(Fact(c, "OPERATING_CASH_FLOW"), 0, strong)
           IN /\ ModuleAverage(<<t1, t2>>, 15) \in SUBSET Int
              /\ Amount(ModuleAverage(<<t1, t2>>, 15)) = 0
<1> DEFINE t1 == IF CoversNeeds(c) THEN {1000} ELSE {0}
           t2 == Threshold(Fact(c, "OPERATING_CASH_FLOW"), 0, strong)
<1>1. ~ CoversNeeds(c)
  <2> DEFINE a == OrNought(FactAbs(c, "CAPEX"))
             b == OrNought(FactAbs(c, "DIVIDENDS"))
  <2>1. a \in SUBSET Nat /\ a # {} /\ b \in SUBSET Nat /\ b # {}
    BY FactIsWhole DEF OrNought, Missing
  <2> HIDE DEF a, b
  <2>2. PICK v \in a, w \in b : v \in Nat /\ w \in Nat
    BY <2>1
  <2>3. v + w \in Sum2(a, b) /\ v + w > cash
    BY <2>2 DEF Sum2
  <2>4. Above(Sum2(a, b), Fact(c, "OPERATING_CASH_FLOW"))
    BY <2>3 DEF Above
  <2>5. QED
    BY <2>4 DEF CoversNeeds, a, b
<1>2. t1 = {0}
  BY <1>1
<1>3. {cash} \in SUBSET Int /\ \A x \in {cash} : x < 0
  OBVIOUS
<1>4. t2 \in SUBSET {0}
  BY <1>3, BelowGivesNone
<1> HIDE DEF t1, t2
<1>5. t1 \in Tests /\ t2 \in Tests /\ t1 \in SUBSET {0}
  BY <1>2, <1>4 DEF Tests
<1>6. Amount(t1) = 0 /\ Amount(t2) = 0
  BY <1>4, <1>5, AmountOfTest
<1> DEFINE s == <<t1, t2>>
<1>7. Len(s) = 2 /\ s[1] = t1 /\ s[2] = t2
  OBVIOUS
<1> HIDE DEF s
<1>8. ASSUME NEW i \in 1 .. 2 PROVE s[i] \in Tests
  <2>1. i = 1 \/ i = 2
    OBVIOUS
  <2>2. QED
    BY <1>5, <1>7, <2>1, Zenon
<1>9. /\ ModuleAverage(s, 15) \in SUBSET Int
      /\ Amount(ModuleAverage(s, 15)) \in {0, (15 * (Amount(t1) + Amount(t2))) \div 2}
  BY <1>7, <1>8, TwoTests
<1>10. Amount(ModuleAverage(s, 15)) = 0
  BY <1>6, <1>9
<1>11. QED
  BY <1>9, <1>10 DEF s, t1, t2

\* The most that two, three and four tests can give.
LEMMA MostOfTwo ==
    ASSUME NEW a \in Tests, NEW b \in Tests
    PROVE  ModuleAverage(<<a, b>>, 20) \in SUBSET Int /\ Amount(ModuleAverage(<<a, b>>, 20)) <= 20000
<1> DEFINE s == <<a, b>>
<1>1. Len(s) = 2 /\ s[1] = a /\ s[2] = b
  OBVIOUS
<1> HIDE DEF s
<1>2. ASSUME NEW i \in 1 .. 2 PROVE s[i] \in Tests
  <2>1. i = 1 \/ i = 2
    OBVIOUS
  <2>2. QED
    BY <1>1, <2>1, Zenon
<1>3. /\ ModuleAverage(s, 20) \in SUBSET Int
      /\ Amount(ModuleAverage(s, 20)) \in {0, (20 * (Amount(a) + Amount(b))) \div 2}
  BY <1>1, <1>2, TwoTests
<1> DEFINE w == Amount(a)
           x == Amount(b)
<1>4. w \in 0 .. 1000 /\ x \in 0 .. 1000
  BY AmountOfTest
<1>5. Amount(ModuleAverage(s, 20)) \in {0, (20 * (w + x)) \div 2}
  BY <1>3
<1> HIDE DEF w, x
<1>6. (20 * (w + x)) \div 2 <= 20000
  BY <1>4
<1>7. Amount(ModuleAverage(s, 20)) <= 20000
  BY <1>5, <1>6
<1>8. QED
  BY <1>3, <1>7 DEF s

LEMMA MostOfThree ==
    ASSUME NEW a \in Tests, NEW b \in Tests, NEW c \in Tests
    PROVE  ModuleAverage(<<a, b, c>>, 25) \in SUBSET Int /\ Amount(ModuleAverage(<<a, b, c>>, 25)) <= 25000
<1> DEFINE s == <<a, b, c>>
<1>1. Len(s) = 3 /\ s[1] = a /\ s[2] = b /\ s[3] = c
  OBVIOUS
<1> HIDE DEF s
<1>2. ASSUME NEW i \in 1 .. 3 PROVE s[i] \in Tests
  <2>1. i = 1 \/ i = 2 \/ i = 3
    OBVIOUS
  <2>2. QED
    BY <1>1, <2>1, Zenon
<1>3. /\ ModuleAverage(s, 25) \in SUBSET Int
      /\ Amount(ModuleAverage(s, 25)) \in {0, (25 * (Amount(a) + Amount(b) + Amount(c))) \div 3}
  BY <1>1, <1>2, ThreeTests
<1> DEFINE w == Amount(a)
           x == Amount(b)
           y == Amount(c)
<1>4. w \in 0 .. 1000 /\ x \in 0 .. 1000 /\ y \in 0 .. 1000
  BY AmountOfTest
<1>5. Amount(ModuleAverage(s, 25)) \in {0, (25 * (w + x + y)) \div 3}
  BY <1>3
<1> HIDE DEF w, x, y
<1>6. (25 * (w + x + y)) \div 3 <= 25000
  BY <1>4
<1>7. Amount(ModuleAverage(s, 25)) <= 25000
  BY <1>5, <1>6
<1>8. QED
  BY <1>3, <1>7 DEF s

LEMMA MostOfFour ==
    ASSUME NEW a \in Tests, NEW b \in Tests, NEW c \in Tests, NEW d \in Tests
    PROVE  ModuleAverage(<<a, b, c, d>>, 20) \in SUBSET Int /\ Amount(ModuleAverage(<<a, b, c, d>>, 20)) <= 20000
<1> DEFINE s == <<a, b, c, d>>
<1>1. Len(s) = 4 /\ s[1] = a /\ s[2] = b /\ s[3] = c /\ s[4] = d
  OBVIOUS
<1> HIDE DEF s
<1>2. ASSUME NEW i \in 1 .. 4 PROVE s[i] \in Tests
  <2>1. i = 1 \/ i = 2 \/ i = 3 \/ i = 4
    OBVIOUS
  <2>2. QED
    BY <1>1, <2>1, Zenon
<1>3. /\ ModuleAverage(s, 20) \in SUBSET Int
      /\ Amount(ModuleAverage(s, 20)) \in {0, (20 * (Amount(a) + Amount(b) + Amount(c) + Amount(d))) \div 4}
  BY <1>1, <1>2, FourTests
<1> DEFINE w == Amount(a)
           x == Amount(b)
           y == Amount(c)
           z == Amount(d)
<1>4. w \in 0 .. 1000 /\ x \in 0 .. 1000 /\ y \in 0 .. 1000 /\ z \in 0 .. 1000
  BY AmountOfTest
<1>5. Amount(ModuleAverage(s, 20)) \in {0, (20 * (w + x + y + z)) \div 4}
  BY <1>3
<1> HIDE DEF w, x, y, z
<1>6. (20 * (w + x + y + z)) \div 4 <= 20000
  BY <1>4
<1>7. Amount(ModuleAverage(s, 20)) <= 20000
  BY <1>5, <1>6
<1>8. QED
  BY <1>3, <1>7 DEF s

LEMMA EntryIsProfitable ==
    ASSUME NEW c, NEW p, WholeYear(c), WholeYear(p), PortfolioEntryPass(c, p),
           ~Above({0}, Average(Fact(c, "EQUITY"), Fact(p, "EQUITY")))
    PROVE  /\ \A v \in Fact(c, "NET_INCOME") : v > 0
           /\ \A v \in Fact(c, "OPERATING_CASH_FLOW") : v > 0
<1>1. PICK cash \in Fact(c, "OPERATING_CASH_FLOW") :
        \E v \in Fact(c, "NET_INCOME") \ {0} :
           (IF v < 0 THEN (-1000 * cash) \div (-v) ELSE (1000 * cash) \div v) > 999
  BY DEF PortfolioEntryPass, Above, QualityOfEarnings, Quotient
<1>2. PICK income \in Fact(c, "NET_INCOME") \ {0} :
        (IF income < 0 THEN (-1000 * cash) \div (-income) ELSE (1000 * cash) \div income) > 999
  BY <1>1
<1>3. cash \in Int /\ income \in Int /\ income # 0
  BY FactIsWhole
<1>4. Fact(c, "OPERATING_CASH_FLOW") = {cash} /\ Fact(c, "NET_INCOME") = {income}
  BY FactIsOne
<1>5. (income > 0 => cash > 0) /\ (income < 0 => cash < 0)
  <2>1. ASSUME NEW k \in Int, NEW d \in Int, d > 0, k \div d > 999 PROVE k > 0
    <3>1. ~ (k <= 0)
      <4>1. k <= 0 => k \div d <= 0
        BY <2>1
      <4>2. QED
        BY <2>1, <4>1
    <3>2. QED
      BY <3>1
  <2>2. CASE income > 0
    <3>1. 1000 * cash \in Int /\ (1000 * cash) \div income > 999
      BY <1>2, <1>3, <2>2
    <3>2. 1000 * cash > 0
      BY <1>3, <2>1, <2>2, <3>1
    <3>3. QED
      BY <1>3, <2>2, <3>2
  <2>3. CASE income < 0
    <3>1. -1000 * cash \in Int /\ (-1000 * cash) \div (-income) > 999 /\ -income \in Int /\ -income > 0
      BY <1>2, <1>3, <2>3
    <3>2. -1000 * cash > 0
      BY <2>1, <3>1
    <3>3. QED
      BY <1>3, <2>3, <3>2
  <2>4. QED
    BY <1>3, <2>2, <2>3
<1>6. ASSUME income < 0, cash < 0 PROVE FALSE
  <2> DEFINE equity == Average(Fact(c, "EQUITY"), Fact(p, "EQUITY"))
             strong == CHOOSE v \in {Larger(AbsOf(i), 1) : i \in OrNought(Fact(c, "NET_INCOME"))} : TRUE
             q1 == Threshold(QualityOfEarnings(c), 1000, 1500)
             q2 == InverseThreshold(BeneishMScore(c, p), -2220, -2800)
             q3 == InverseThreshold({AbsOf(x) : x \in SloanAccrualRatio(c, p)}, 80, 20)
             g1 == Threshold(PctChange(Fact(c, "REVENUE"), Fact(p, "REVENUE")), 0, 12)
             g2 == Threshold(PctChange(Fact(c, "NET_INCOME"), Fact(p, "NET_INCOME")), 0, 12)
             s1 == Threshold(CurrentRatio(c), 1500, 2500)
             s2 == Threshold(QuickRatio(c), 1000, 1500)
             s3 == InverseThreshold(Quotient(Fact(c, "LIABILITIES"), Fact(c, "TOTAL_ASSETS")), 500, 250)
             s4 == Threshold(TimesInterestEarned(c), 3000, 5000)
             m1 == ModuleAverage(<<q1, q2, q3>>, 25)
             m2 == ModuleAverage(<<g1, g2>>, 20)
             m3 == ModuleAverage(<<Threshold(Quotient(Fact(c, "NET_INCOME"), MeanAssets(c, p)), 80, 120),
                                   Threshold(Quotient(Fact(c, "NET_INCOME"), equity), 120, 180),
                                   Threshold(Quotient(Fact(c, "NET_INCOME"), Fact(c, "REVENUE")), 50, 150),
                                   Threshold(Quotient(Fact(c, "REVENUE"), MeanAssets(c, p)), 500, 1200)>>, 20)
             m4 == ModuleAverage(<<s1, s2, s3, s4>>, 20)
             m5 == ModuleAverage(<<IF CoversNeeds(c) THEN {1000} ELSE {0},
                                   Threshold(Fact(c, "OPERATING_CASH_FLOW"), 0, strong)>>, 15)
  <2>1. AHisModules(c, p) = <<m1, m2, m3, m4, m5>>
    BY DEF AHisModules
  <2>2. \A n : Fact(c, n) \in SUBSET Int /\ Fact(p, n) \in SUBSET Int /\ FactAbs(c, n) \in SUBSET Int
    BY FactIsWhole
  <2>3. m1 \in SUBSET Int /\ Amount(m1) <= 25000
    <3>1. QualityOfEarnings(c) \in SUBSET Int
      BY <2>2, WholeOfWhole DEF QualityOfEarnings
    <3>2. BeneishMScore(c, p) \in SUBSET Int
      BY ScoreIsWhole
    <3>3. {AbsOf(x) : x \in SloanAccrualRatio(c, p)} \in SUBSET Int
      <4>1. Accruals(c) \in SUBSET Int /\ MeanAssets(c, p) \in SUBSET Int
        BY <2>2, WholeOfWhole DEF Accruals, MeanAssets
      <4>2. SloanAccrualRatio(c, p) \in SUBSET Int
        BY <4>1, WholeOfWhole DEF SloanAccrualRatio
      <4>3. QED
        BY <4>2 DEF AbsOf
    <3>4. q1 \in Tests /\ q2 \in Tests /\ q3 \in Tests
      BY <3>1, <3>2, <3>3, TestIsClamped
    <3> HIDE DEF q1, q2, q3
    <3>5. QED
      BY <3>4, MostOfThree
  <2>4. m2 \in SUBSET Int /\ Amount(m2) <= 20000
    <3>1. g1 \in Tests /\ g2 \in Tests
      BY <2>2, WholeOfWhole, TestIsClamped
    <3> HIDE DEF g1, g2
    <3>2. QED
      BY <3>1, MostOfTwo
  <2>5. m3 \in SUBSET Int /\ Amount(m3) <= 5000
    <3>1. \A v \in Fact(c, "NET_INCOME") : v < 0
      BY <1>4, <1>6
    <3>2. QED
      BY <3>1, FewReturns
  <2>6. m4 \in SUBSET Int /\ Amount(m4) <= 20000
    <3>1. CurrentRatio(c) \in SUBSET Int
      BY <2>2, WholeOfWhole DEF CurrentRatio
    <3>2. QuickRatio(c) \in SUBSET Int
      BY <2>2, WholeOfWhole DEF QuickRatio
    <3>3. TimesInterestEarned(c) \in SUBSET Int
      <4>1. EbitOf(c) \in SUBSET Int
        BY <2>2, WholeOfWhole DEF EbitOf
      <4>2. QED
        BY <2>2, <4>1, WholeOfWhole DEF TimesInterestEarned
    <3>4. Quotient(Fact(c, "LIABILITIES"), Fact(c, "TOTAL_ASSETS")) \in SUBSET Int
      BY <2>2, WholeOfWhole
    <3>5. s1 \in Tests /\ s2 \in Tests /\ s3 \in Tests /\ s4 \in Tests
      BY <3>1, <3>2, <3>3, <3>4, TestIsClamped
    <3> HIDE DEF s1, s2, s3, s4
    <3>6. QED
      BY <3>5, MostOfFour
  <2>7. m5 \in SUBSET Int /\ Amount(m5) = 0
    <3>1. strong = Larger(AbsOf(income), 1)
      BY <1>4 DEF OrNought, Missing
    <3>2. strong \in Int /\ strong > 0
      <4>1. AbsOf(income) \in Int
        BY <1>3 DEF AbsOf
      <4>2. Larger(AbsOf(income), 1) \in Int /\ Larger(AbsOf(income), 1) > 0
        BY <4>1 DEF Larger
      <4> HIDE DEF strong
      <4>3. QED
        BY <3>1, <4>2
    <3>3. \A v \in Fact(c, "NET_INCOME") : v < 0
      BY <1>4, <1>6
    <3> HIDE DEF strong
    <3>4. QED
      BY <1>3, <1>4, <1>6, <3>2, <3>3, NoCashPoints
  <2> HIDE DEF m1, m2, m3, m4, m5
  <2>8. /\ Amount(m1) \in Int /\ Amount(m2) \in Int /\ Amount(m3) \in Int /\ Amount(m4) \in Int
        /\ Amount(m5) \in Int
    BY <2>3, <2>4, <2>5, <2>6, <2>7, AmountIsWhole
  <2> DEFINE s == AHisModules(c, p)
  <2>9. Len(s) = 5 /\ s[1] = m1 /\ s[2] = m2 /\ s[3] = m3 /\ s[4] = m4 /\ s[5] = m5
    BY <2>1
  <2> HIDE DEF s
  <2>10. ASSUME NEW i \in 1 .. 5 PROVE s[i] \in SUBSET Int
    <3>1. i = 1 \/ i = 2 \/ i = 3 \/ i = 4 \/ i = 5
      OBVIOUS
    <3>2. /\ s[1] \in SUBSET Int /\ s[2] \in SUBSET Int /\ s[3] \in SUBSET Int
          /\ s[4] \in SUBSET Int /\ s[5] \in SUBSET Int
      BY <2>3, <2>4, <2>5, <2>6, <2>7, <2>9
    <3>3. QED
      BY <3>1, <3>2, Zenon
  <2>11. FactorTotal(s) = Amount(m1) + Amount(m2) + Amount(m3) + Amount(m4) + Amount(m5)
    <3>1. FactorTotal(s) = Amount(s[1]) + Amount(s[2]) + Amount(s[3]) + Amount(s[4]) + Amount(s[5])
      BY <2>9, <2>10, TotalOfFive
    <3>2. QED
      BY <2>9, <3>1
  <2>12. FactorTotal(s) >= 75000
    BY DEF PortfolioEntryPass, AHisScore, s
  <2>13. QED
    BY <2>3, <2>4, <2>5, <2>6, <2>7, <2>8, <2>11, <2>12
<1>7. income > 0 /\ cash > 0
  BY <1>3, <1>5, <1>6
<1>8. QED
  BY <1>4, <1>7

\* A company whose equity is not negative on average passes for the portfolio
\* only with a profit and with cash from its operations, whatever its other
\* figures: the points of the other modules do not reach the 75 asked for.
\* (factor_engine.py 673-743)
THEOREM EntryIsEarned == FactorSpec => []EntryNeedsProfit
<1>1. FactorInit => FactorsFit
  BY FactorAssumption DEF FactorInit, FactorsFit, WholeYear
<1>2. FactorsFit => EntryNeedsProfit
  <2> SUFFICES ASSUME FactorsFit PROVE EntryNeedsProfit
    OBVIOUS
  <2>1. PICK c, p : c = factors.now /\ p = factors.before
    OBVIOUS
  <2>2. WholeYear(c) /\ WholeYear(p)
    BY <2>1 DEF FactorsFit
  <2>3. QED
    BY <2>1, <2>2, EntryIsProfitable DEF EntryNeedsProfit
<1>3. QED
  BY <1>1, <1>2, FactorsStep, PTL DEF FactorSpec

-----------------------------------------------------------------------------
(* Grades *)

\* Inputs of the grading: whole numbers, those of vetoes 0 or 1.
EvidenceFits(e) ==
    /\ AlwaysGiven \subseteq DOMAIN e
    /\ \A n \in DOMAIN e : e[n] \in Int
    /\ \A n \in DOMAIN e : n \in Vetoes => e[n] \in {0, 1}

GradesInv ==
    /\ \A n \in DOMAIN stats : stats[n] \in Int
    /\ EvidenceFits(evidence)

LEMMA GradesStart == GradesInit => GradesInv
<1> SUFFICES ASSUME GradesInit PROVE GradesInv
  OBVIOUS
<1>1. ASSUME NEW n \in DOMAIN Evidence0
      PROVE  Evidence0[n] \in Int /\ (n \in Vetoes => Evidence0[n] \in {0, 1})
  BY GradesAssumption
<1>2. EvidenceFits(evidence)
  BY <1>1, GradesAssumption DEF GradesInit, EvidenceFits
<1>3. QED
  BY <1>2, GradesAssumption DEF GradesInit, GradesInv

LEMMA GradesStep == GradesInv /\ [GradesNext]_gradeVars => GradesInv'
<1> SUFFICES ASSUME GradesInv, [GradesNext]_gradeVars PROVE GradesInv'
  OBVIOUS
<1>1. ASSUME NEW n \in DOMAIN StatChoices, ReviseStat(n) PROVE GradesInv'
  BY <1>1, GradesAssumption DEF GradesInv, ReviseStat, Set, Drop
<1>2. ASSUME NEW n \in DOMAIN EvidenceChoices, ReviseEvidence(n) PROVE GradesInv'
  <2>1. PICK v \in EvidenceChoices[n] : evidence' = Set(evidence, n, v)
    BY <1>2 DEF ReviseEvidence
  <2>2. v \in Int /\ (n \in Vetoes => v \in {0, 1})
    BY GradesAssumption
  <2>3. EvidenceFits(evidence)'
    BY <2>1, <2>2 DEF GradesInv, EvidenceFits, Set
  <2>4. QED
    BY <1>2, <2>3 DEF GradesInv, ReviseEvidence
<1>3. ASSUME NEW n, ReviseVerdict(n) PROVE GradesInv'
  BY <1>3 DEF GradesInv, ReviseVerdict
<1>4. CASE UNCHANGED gradeVars
  BY <1>4 DEF gradeVars, GradesInv
<1>5. QED
  BY <1>1, <1>2, <1>3, <1>4 DEF GradesNext

\* The products of what grows grow.
LEMMA ProductGrows ==
    ASSUME NEW a \in Nat, NEW b \in Nat, NEW c \in Nat, NEW d \in Nat, a <= b, c <= d
    PROVE  a * c \in Nat /\ b * d \in Nat /\ a * c <= b * d
<1>1. a * c <= b * c
  OBVIOUS
<1>2. b * c <= b * d
  OBVIOUS
<1>3. a * c \in Nat /\ b * c \in Nat /\ b * d \in Nat
  OBVIOUS
<1>4. QED
  BY <1>1, <1>2, <1>3

\* A share is at most 1, and smaller of a smaller part and of a larger whole.
Share(part, whole) == IF whole > 0 THEN Within((100 * part) \div whole, 0, 100) ELSE 100

LEMMA ShareFalls ==
    ASSUME NEW a \in Int, NEW b \in Int, NEW m \in Int, NEW n \in Int, b <= a, m <= n
    PROVE  Share(a, m) \in Nat /\ Share(b, n) \in Nat /\ Share(b, n) <= Share(a, m)
<1>1. ASSUME NEW x \in Int, NEW y \in Int PROVE Share(x, y) \in Nat /\ Share(x, y) <= 100
  BY DEF Share, Within, Smaller, Larger
<1>2. CASE ~(m > 0)
  BY <1>1, <1>2 DEF Share
<1>3. CASE m > 0
  <2> DEFINE p == (100 * a) \div m
             q == (100 * b) \div n
  <2>1. m \in Nat \ {0} /\ n \in Nat \ {0} /\ p \in Int /\ q \in Int
    BY <1>3
  <2>2. q <= p \/ q <= 0
    <3>1. SUFFICES ASSUME q > 0 PROVE q <= p
      BY <2>1
    <3>2. n * q <= 100 * b
      BY <2>1
    <3>3. m * q <= n * q
      BY <2>1, <3>1
    <3>4. m * q <= 100 * a
      BY <2>1, <3>2, <3>3
    <3>5. 100 * a < m * (p + 1)
      BY <2>1
    <3>6. q < p + 1
      <4>1. m * q < m * (p + 1)
        BY <2>1, <3>4, <3>5
      <4> HIDE DEF p, q
      <4>2. QED
        BY <2>1, <4>1
    <3>7. QED
      BY <2>1, <3>6
  <2>3. Share(a, m) = Within(p, 0, 100) /\ Share(b, n) = Within(q, 0, 100)
    BY <1>3 DEF Share
  <2> HIDE DEF p, q
  <2>4. Share(b, n) <= Share(a, m)
    BY <2>1, <2>2, <2>3 DEF Within, Smaller, Larger
  <2>5. QED
    BY <1>1, <2>4
<1>4. QED
  BY <1>2, <1>3

\* Evidence f is no better than evidence e in anything.
NoBetter(e, f) ==
    /\ DOMAIN f = DOMAIN e
    /\ \A n \in DOMAIN e :
          IF n \in Severities \cup Vetoes \cup {"DISPERSION", "REQUIRED", "CURRENT", "PENALTY", "SECTOR_TARGET"}
          THEN f[n] >= e[n] ELSE f[n] <= e[n]

LEMMA SeverityIsWhole ==
    ASSUME NEW e, EvidenceFits(e), NEW n
    PROVE  /\ Severity(e, n) \in 0 .. 100
           /\ PercentileOf(e, n) \in 0 .. 100
BY DEF EvidenceFits, Severity, PercentileOf, OrZero, OrElse, Within, Smaller, Larger

LEMMA PqcFalls ==
    ASSUME NEW e, NEW f, EvidenceFits(e), EvidenceFits(f), NoBetter(e, f)
    PROVE  Pqc(e) \in Int /\ Pqc(f) \in Int /\ Pqc(f) <= Pqc(e)
<1>1. ASSUME NEW n \in {"CASH", "ALLOCATION", "MARGINS", "BALANCE", "ACCRUALS"}
      PROVE  /\ PercentileOf(e, n) \in Int /\ PercentileOf(f, n) \in Int
             /\ PercentileOf(f, n) <= PercentileOf(e, n)
  <2>1. n \notin Severities \cup Vetoes \cup {"DISPERSION", "REQUIRED", "CURRENT", "PENALTY", "SECTOR_TARGET"}
    BY DEF Severities, Vetoes
  <2>2. OrElse(e, n, 50) \in Int /\ OrElse(f, n, 50) \in Int /\ OrElse(f, n, 50) <= OrElse(e, n, 50)
    BY <2>1 DEF NoBetter, OrElse, EvidenceFits
  <2>3. QED
    BY <2>2 DEF PercentileOf, Within, Smaller, Larger
<1>2. QED
  BY <1>1 DEF Pqc

\* The worst of four severities.
LEMMA PenaltyGrows ==
    ASSUME NEW e, NEW f, EvidenceFits(e), EvidenceFits(f), NoBetter(e, f)
    PROVE  RedFlagPenalty(e) \in Int /\ RedFlagPenalty(f) \in Int /\ RedFlagPenalty(e) <= RedFlagPenalty(f)
<1> DEFINE Worst(g) == CHOOSE v \in {Severity(g, n) : n \in Severities} : \A n \in Severities : Severity(g, n) <= v
<1>1. ASSUME NEW g, EvidenceFits(g)
      PROVE  /\ \E n \in Severities : Worst(g) = Severity(g, n)
             /\ \A n \in Severities : Severity(g, n) <= Worst(g)
  <2>1. \E n \in Severities : \A k \in Severities : Severity(g, k) <= Severity(g, n)
    <3> DEFINE a == Severity(g, "BENEISH")
               b == Severity(g, "DECHOW")
               c == Severity(g, "ALTMAN")
               d == Severity(g, "EVENTS")
    <3>1. a \in Int /\ b \in Int /\ c \in Int /\ d \in Int
      BY <1>1, SeverityIsWhole
    <3>2. \/ b <= a /\ c <= a /\ d <= a
          \/ a <= b /\ c <= b /\ d <= b
          \/ a <= c /\ b <= c /\ d <= c
          \/ a <= d /\ b <= d /\ c <= d
      <4> HIDE DEF a, b, c, d
      <4>1. QED
        BY <3>1
    <3>3. QED
      BY <3>1, <3>2 DEF Severities
  <2>2. \E v \in {Severity(g, n) : n \in Severities} : \A n \in Severities : Severity(g, n) <= v
    BY <2>1
  <2>3. Worst(g) \in {Severity(g, n) : n \in Severities} /\ \A n \in Severities : Severity(g, n) <= Worst(g)
    BY <2>2
  <2>4. QED
    BY <2>3
<1>2. \A n \in Severities : Severity(e, n) <= Severity(f, n)
  <2>1. SUFFICES ASSUME NEW n \in Severities PROVE Severity(e, n) <= Severity(f, n)
    OBVIOUS
  <2>2. OrZero(e, n) \in Int /\ OrZero(f, n) \in Int /\ OrZero(e, n) <= OrZero(f, n)
    BY DEF NoBetter, OrZero, EvidenceFits
  <2>3. QED
    BY <2>2 DEF Severity, Within, Smaller, Larger
<1>3. RedFlagPenalty(e) = Within(Worst(e) * e["PENALTY"], 0, 10000)
      /\ RedFlagPenalty(f) = Within(Worst(f) * f["PENALTY"], 0, 10000)
  BY DEF RedFlagPenalty
<1> HIDE DEF Worst
<1>4. Worst(e) \in Nat /\ Worst(f) \in Nat /\ Worst(e) <= Worst(f)
  <2>1. PICK n \in Severities : Worst(e) = Severity(e, n)
    BY <1>1
  <2>2. PICK m \in Severities : Worst(f) = Severity(f, m)
    BY <1>1
  <2>3. Severity(e, n) <= Severity(f, n) /\ Severity(f, n) <= Worst(f)
    BY <1>1, <1>2
  <2>4. Severity(e, n) \in Nat /\ Severity(f, n) \in Nat /\ Severity(f, m) \in Nat
    BY SeverityIsWhole
  <2>5. QED
    BY <2>1, <2>2, <2>3, <2>4
<1>5. e["PENALTY"] \in Int /\ f["PENALTY"] \in Int /\ e["PENALTY"] <= f["PENALTY"]
  BY DEF NoBetter, EvidenceFits, AlwaysGiven
<1> DEFINE a == Worst(e)
           b == Worst(f)
           p == e["PENALTY"]
           q == f["PENALTY"]
<1>6. a * p \in Int /\ b * q \in Int /\ (a * p <= b * q \/ a * p <= 0)
  <2> HIDE DEF a, b, p, q
  <2>1. a \in Nat /\ b \in Nat /\ a <= b /\ p \in Int /\ q \in Int /\ p <= q
    BY <1>4, <1>5 DEF a, b, p, q
  <2>2. CASE p >= 0
    BY <2>1, <2>2, ProductGrows
  <2>3. CASE p < 0
    <3>1. a * p <= 0
      BY <2>1, <2>3
    <3>2. QED
      BY <2>1, <3>1
  <2>4. QED
    BY <2>1, <2>2, <2>3
<1>7. QED
  <2> DEFINE v == a * p
             w == b * q
  <2>1. RedFlagPenalty(e) = Within(v, 0, 10000) /\ RedFlagPenalty(f) = Within(w, 0, 10000)
    BY <1>3
  <2>2. v \in Int /\ w \in Int /\ (v <= w \/ v <= 0)
    BY <1>6
  <2> HIDE DEF v, w, a, b, p, q
  <2>3. QED
    BY <2>1, <2>2 DEF Within, Smaller, Larger

LEMMA ForecastFalls ==
    ASSUME NEW e, NEW f, EvidenceFits(e), EvidenceFits(f), NoBetter(e, f)
    PROVE  /\ ForecastAdjustment(e) \in Int /\ ForecastAdjustment(f) \in Int
           /\ ForecastAdjustment(f) <= ForecastAdjustment(e)
<1>1. CASE ~Has(e, {"FORECAST", "CURRENT"})
  BY <1>1 DEF NoBetter, Has, ForecastAdjustment
<1>2. CASE Has(e, {"FORECAST", "CURRENT"})
  <2>1. /\ e["FORECAST"] \in Int /\ f["FORECAST"] \in Int /\ f["FORECAST"] <= e["FORECAST"]
        /\ e["CURRENT"] \in Int /\ f["CURRENT"] \in Int /\ e["CURRENT"] <= f["CURRENT"]
    BY <1>2 DEF NoBetter, Has, EvidenceFits, Severities, Vetoes
  <2>2. Has(f, {"FORECAST", "CURRENT"})
    BY <1>2 DEF NoBetter, Has
  <2>3. QED
    BY <1>2, <2>1, <2>2 DEF ForecastAdjustment, Within, Smaller, Larger
<1>3. QED
  BY <1>1, <1>2

LEMMA VetoesStay ==
    ASSUME NEW e, NEW f, EvidenceFits(e), EvidenceFits(f), NoBetter(e, f), HardVeto(e)
    PROVE  HardVeto(f)
<1>1. PICK n \in Vetoes : OrZero(e, n) = 1
  BY DEF HardVeto
<1>2. n \in DOMAIN e /\ e[n] = 1 /\ n \in DOMAIN f /\ f[n] \in {0, 1}
  BY <1>1 DEF OrZero, NoBetter, EvidenceFits
<1>3. f[n] >= e[n]
  BY <1>2 DEF NoBetter
<1>4. QED
  BY <1>2, <1>3 DEF HardVeto, OrZero

\* The weight of a grade, in tenths, by the score.
LEMMA WeightFalls ==
    ASSUME NEW e, NEW f, EvidenceFits(e), EvidenceFits(f), NoBetter(e, f)
    PROVE  /\ GradeWeight[Grade(e)] \in Nat /\ GradeWeight[Grade(f)] \in Nat
           /\ GradeWeight[Grade(f)] <= GradeWeight[Grade(e)]
           /\ HardVeto(f) => GradeWeight[Grade(f)] = 0
<1>1. /\ GradeWeight["A"] = 10 /\ GradeWeight["B"] = 7 /\ GradeWeight["C"] = 3
      /\ GradeWeight["D"] = 0 /\ GradeWeight["F"] = 0
  BY DEF GradeWeight
<1>2. CASE HardVeto(f)
  <2>1. Grade(f) = "F" /\ Grade(e) \in {"A", "B", "C", "D", "F"}
    BY <1>2 DEF Grade, GradeBucket
  <2>2. QED
    BY <1>1, <2>1
<1>3. CASE ~HardVeto(f)
  <2>1. ~HardVeto(e)
    BY <1>3, VetoesStay
  <2>2. /\ GradeScore(e) = Within(Pqc(e) - RedFlagPenalty(e) + ForecastAdjustment(e), 0, 10000)
        /\ GradeScore(f) = Within(Pqc(f) - RedFlagPenalty(f) + ForecastAdjustment(f), 0, 10000)
    BY <1>3, <2>1 DEF GradeScore
  <2>3. GradeScore(e) \in Int /\ GradeScore(f) \in Int /\ GradeScore(f) <= GradeScore(e)
    BY <2>2, PqcFalls, PenaltyGrows, ForecastFalls DEF Within, Smaller, Larger
  <2>4. Grade(e) = GradeBucket(GradeScore(e)) /\ Grade(f) = GradeBucket(GradeScore(f))
    BY <1>3, <2>1 DEF Grade
  <2>5. ASSUME NEW v \in Int
        PROVE  GradeWeight[GradeBucket(v)] = IF v >= 9000 THEN 10 ELSE IF v >= 7500 THEN 7 ELSE IF v >= 6000 THEN 3 ELSE 0
    BY <1>1 DEF GradeBucket
  <2>6. QED
    BY <1>3, <2>3, <2>4, <2>5
<1>4. QED
  BY <1>2, <1>3

LEMMA GivenFalls ==
    ASSUME NEW e, NEW f, EvidenceFits(e), EvidenceFits(f), NoBetter(e, f), NEW n \in AlwaysGiven
    PROVE  /\ e[n] \in Int /\ f[n] \in Int
           /\ IF n \in {"DISPERSION", "REQUIRED", "PENALTY", "SECTOR_TARGET"} THEN e[n] <= f[n] ELSE f[n] <= e[n]
<1>1. n \in DOMAIN e /\ n \in DOMAIN f /\ e[n] \in Int /\ f[n] \in Int
  BY DEF EvidenceFits
<1>2. n \notin Severities /\ n \notin Vetoes /\ n # "CURRENT"
  BY DEF AlwaysGiven, Severities, Vetoes
<1>3. IF n \in {"DISPERSION", "REQUIRED", "PENALTY", "SECTOR_TARGET"} THEN f[n] >= e[n] ELSE f[n] <= e[n]
  BY <1>1, <1>2 DEF NoBetter, AlwaysGiven
<1>4. QED
  BY <1>1, <1>3

LEMMA ConfidenceFalls ==
    ASSUME NEW e, NEW f, EvidenceFits(e), EvidenceFits(f), NoBetter(e, f)
    PROVE  Confidence(e) \in Nat /\ Confidence(f) \in Nat /\ Confidence(f) <= Confidence(e)
<1>1. \A n \in AlwaysGiven : e[n] \in Int /\ f[n] \in Int
  BY DEF EvidenceFits, NoBetter
<1>2. /\ f["COMPLETENESS"] <= e["COMPLETENESS"] /\ f["POPULATED"] <= e["POPULATED"] /\ f["RECENCY"] <= e["RECENCY"]
      /\ e["REQUIRED"] <= f["REQUIRED"] /\ e["DISPERSION"] <= f["DISPERSION"]
  <2>1. \A n \in AlwaysGiven :
             /\ e[n] \in Int /\ f[n] \in Int
             /\ IF n \in {"DISPERSION", "REQUIRED", "PENALTY", "SECTOR_TARGET"} THEN e[n] <= f[n] ELSE f[n] <= e[n]
    BY GivenFalls
  <2>2. {"COMPLETENESS", "POPULATED", "RECENCY", "REQUIRED", "DISPERSION"} \subseteq AlwaysGiven
    BY DEF AlwaysGiven
  <2>3. QED
    BY <2>1, <2>2
<1> DEFINE a(g) == Within(g["COMPLETENESS"], 0, 100)
           b(g) == Share(g["POPULATED"], g["REQUIRED"])
           c(g) == Within(100 - g["DISPERSION"], 0, 100)
           d(g) == Within(g["RECENCY"], 0, 100)
<1>3. a(e) \in Nat /\ a(f) \in Nat /\ a(f) <= a(e) /\ d(e) \in Nat /\ d(f) \in Nat /\ d(f) <= d(e)
  BY <1>1, <1>2 DEF Within, Smaller, Larger, AlwaysGiven
<1>4. b(e) \in Nat /\ b(f) \in Nat /\ b(f) <= b(e)
  <2>1. /\ e["POPULATED"] \in Int /\ f["POPULATED"] \in Int
        /\ e["REQUIRED"] \in Int /\ f["REQUIRED"] \in Int
    BY <1>1 DEF AlwaysGiven
  <2>2. QED
    BY <1>2, <2>1, ShareFalls
<1>5. c(e) \in Nat /\ c(f) \in Nat /\ c(f) <= c(e)
  BY <1>1, <1>2 DEF Within, Smaller, Larger, AlwaysGiven
<1>6. Confidence(e) = (a(e) * b(e) * c(e) * d(e)) \div 10000 /\ Confidence(f) = (a(f) * b(f) * c(f) * d(f)) \div 10000
  BY DEF Confidence, Share
<1> HIDE DEF a, b, c, d
<1>7. a(e) * b(e) \in Nat /\ a(f) * b(f) \in Nat /\ a(f) * b(f) <= a(e) * b(e)
  BY <1>3, <1>4, ProductGrows
<1>8. a(e) * b(e) * c(e) \in Nat /\ a(f) * b(f) * c(f) \in Nat /\ a(f) * b(f) * c(f) <= a(e) * b(e) * c(e)
  BY <1>5, <1>7, ProductGrows
<1>9. /\ a(e) * b(e) * c(e) * d(e) \in Nat /\ a(f) * b(f) * c(f) * d(f) \in Nat
      /\ a(f) * b(f) * c(f) * d(f) <= a(e) * b(e) * c(e) * d(e)
  BY <1>3, <1>8, ProductGrows
<1>10. ASSUME NEW x \in Nat, NEW y \in Nat, x <= y
       PROVE  x \div 10000 \in Nat /\ y \div 10000 \in Nat /\ x \div 10000 <= y \div 10000
  BY <1>10
<1>11. QED
  BY <1>6, <1>9, <1>10

LEMMA SizeFalls ==
    ASSUME NEW e, NEW f, EvidenceFits(e), EvidenceFits(f), NoBetter(e, f)
    PROVE  PositionSize(f) <= PositionSize(e) /\ (HardVeto(f) => PositionSize(f) = 0)
<1>1. /\ e["SECTOR_CAP"] \in Int /\ f["SECTOR_CAP"] \in Int /\ f["SECTOR_CAP"] <= e["SECTOR_CAP"]
      /\ e["SECTOR_TARGET"] \in Int /\ f["SECTOR_TARGET"] \in Int /\ e["SECTOR_TARGET"] <= f["SECTOR_TARGET"]
  <2>1. \A n \in AlwaysGiven :
             /\ e[n] \in Int /\ f[n] \in Int
             /\ IF n \in {"DISPERSION", "REQUIRED", "PENALTY", "SECTOR_TARGET"} THEN e[n] <= f[n] ELSE f[n] <= e[n]
    BY GivenFalls
  <2>2. {"SECTOR_CAP", "SECTOR_TARGET"} \subseteq AlwaysGiven
    BY DEF AlwaysGiven
  <2>3. QED
    BY <2>1, <2>2
<1>2. SectorScalar(e) = Share(e["SECTOR_CAP"], e["SECTOR_TARGET"]) /\ SectorScalar(f) = Share(f["SECTOR_CAP"], f["SECTOR_TARGET"])
  BY DEF SectorScalar, Share
<1>3. SectorScalar(e) \in Nat /\ SectorScalar(f) \in Nat /\ SectorScalar(f) <= SectorScalar(e)
  BY <1>1, <1>2, ShareFalls
<1> DEFINE w(g) == GradeWeight[Grade(g)]
<1>4. w(e) \in Nat /\ w(f) \in Nat /\ w(f) <= w(e) /\ (HardVeto(f) => w(f) = 0)
  BY WeightFalls
<1>5. PositionSize(e) = w(e) * Confidence(e) * SectorScalar(e) /\ PositionSize(f) = w(f) * Confidence(f) * SectorScalar(f)
  BY DEF PositionSize
<1> HIDE DEF w
<1>6. w(e) * Confidence(e) \in Nat /\ w(f) * Confidence(f) \in Nat /\ w(f) * Confidence(f) <= w(e) * Confidence(e)
  BY <1>4, ConfidenceFalls, ProductGrows
<1>7. PositionSize(f) <= PositionSize(e)
  BY <1>3, <1>5, <1>6, ProductGrows
<1>8. HardVeto(f) => PositionSize(f) = 0
  <2>1. Confidence(f) \in Nat
    BY ConfidenceFalls
  <2>2. \A x, y \in Nat : 0 * x * y = 0
    OBVIOUS
  <2>3. QED
    BY <1>3, <1>4, <1>5, <2>1, <2>2
<1>9. QED
  BY <1>7, <1>8

\* Figures t are no better than figures s in anything.
NoHealthier(s, t) ==
    /\ DOMAIN t = DOMAIN s
    /\ \A n \in DOMAIN s : s[n] \in Int /\ t[n] \in Int
    /\ \A n \in DOMAIN s : IF n \in {"LIABILITIES", "DILUTION", "WARNINGS"} THEN t[n] >= s[n] ELSE t[n] <= s[n]
    /\ "ASSETS" \in DOMAIN s => t["ASSETS"] > 0

\* Each blocker of one list has one in the other that is no milder.
Outdone(X, Y) == \A b \in X : \E c \in Y : b.severity <= c.severity

\* Blockers are not milder than what is said where there are none.
Severe(X) == \A b \in X : b.severity \in 20 .. 100

LEMMA BlockerSeverity ==
    ASSUME NEW c, NEW n
    PROVE  Blocker(c, n).severity = n
BY DEF Blocker

LEMMA BothAreOutdone ==
    ASSUME NEW V, NEW W, NEW X, NEW Y, Outdone(V, W), Outdone(X, Y), Severe(W), Severe(Y)
    PROVE  Outdone(V \cup X, W \cup Y) /\ Severe(W \cup Y)
BY DEF Outdone, Severe

LEMMA DataOutdone ==
    ASSUME NEW p, NEW s, NEW t, NoHealthier(s, t)
    PROVE  Outdone(DataBlockers(p, s), DataBlockers(p, t)) /\ Severe(DataBlockers(p, t))
<1>1. /\ Blocker("coverage", 90).severity = 90
      /\ Blocker("factors", 82).severity = 82 /\ Blocker("factors", 68).severity = 68
  BY BlockerSeverity
<1>2. OrElse(s, "COVERAGE", 55) < 55 => OrElse(t, "COVERAGE", 55) < 55
  BY DEF OrElse, NoHealthier
<1>3. OrZero(s, "WARNINGS") > 0 => OrZero(t, "WARNINGS") > 0
  BY DEF OrZero, NoHealthier
<1>4. Has(s, {"BENEISH", "PIOTROSKI", "ALTMAN"}) <=> Has(t, {"BENEISH", "PIOTROSKI", "ALTMAN"})
  BY DEF Has, NoHealthier
<1> DEFINE coverage(g) == {b \in {Blocker("coverage", 90)} : p.tier \in {"INSUFFICIENT", "PARTIAL"} \/ OrElse(g, "COVERAGE", 55) < 55}
           factorGaps(g) == IF OrZero(g, "WARNINGS") > 0 THEN {Blocker("factors", 82)}
                         ELSE {b \in {Blocker("factors", 68)} : ~Has(g, {"BENEISH", "PIOTROSKI", "ALTMAN"})}
<1>5. Outdone(coverage(s), coverage(t)) /\ Severe(coverage(t))
  <2> DEFINE one == Blocker("coverage", 90)
             bad(g) == p.tier \in {"INSUFFICIENT", "PARTIAL"} \/ OrElse(g, "COVERAGE", 55) < 55
  <2>1. one.severity = 90 /\ (bad(s) => bad(t))
    BY <1>1, <1>2
  <2>2. coverage(s) = {b \in {one} : bad(s)} /\ coverage(t) = {b \in {one} : bad(t)}
    OBVIOUS
  <2> HIDE DEF one, bad, coverage
  <2>3. QED
    BY <2>1, <2>2 DEF Outdone, Severe
<1>6. Outdone(factorGaps(s), factorGaps(t)) /\ Severe(factorGaps(t))
  <2> DEFINE warned == Blocker("factors", 82)
             absent == Blocker("factors", 68)
             bad(g) == OrZero(g, "WARNINGS") > 0
             incomplete(g) == ~Has(g, {"BENEISH", "PIOTROSKI", "ALTMAN"})
  <2>1. /\ warned.severity = 82 /\ absent.severity = 68
        /\ (bad(s) => bad(t)) /\ (incomplete(s) => incomplete(t))
    BY <1>1, <1>3, <1>4
  <2>2. /\ factorGaps(s) = IF bad(s) THEN {warned} ELSE {b \in {absent} : incomplete(s)}
        /\ factorGaps(t) = IF bad(t) THEN {warned} ELSE {b \in {absent} : incomplete(t)}
    OBVIOUS
  <2> HIDE DEF warned, absent, bad, incomplete, factorGaps
  <2>3. QED
    BY <2>1, <2>2 DEF Outdone, Severe
<1>7. DataBlockers(p, s) = coverage(s) \cup factorGaps(s) /\ DataBlockers(p, t) = coverage(t) \cup factorGaps(t)
  BY DEF DataBlockers
<1> HIDE DEF coverage, factorGaps
<1>8. QED
  BY <1>5, <1>6, <1>7, BothAreOutdone

LEMMA GrowthOutdone ==
    ASSUME NEW p, NEW s, NEW t, NoHealthier(s, t), RouteCompany(p, t) = RouteCompany(p, s)
    PROVE  Outdone(GrowthBlockers(p, s), GrowthBlockers(p, t)) /\ Severe(GrowthBlockers(p, t))
<1> DEFINE fall(v) == 82 + Smaller(-v, 30) \div 2
<1>1. /\ Blocker("revenue unknown", 70).severity = 70 /\ Blocker("slow growth", 55).severity = 55
      /\ \A v \in Int : Blocker("contraction", fall(v)).severity = fall(v)
  BY BlockerSeverity
<1>2. Has(s, {"REVENUE", "GROWTH"}) <=> Has(t, {"REVENUE", "GROWTH"})
  BY DEF Has, NoHealthier
<1>3. CASE ~Has(s, {"REVENUE", "GROWTH"})
  <2>1. GrowthBlockers(p, s) = {Blocker("revenue unknown", 70)} /\ GrowthBlockers(p, t) = {Blocker("revenue unknown", 70)}
    BY <1>2, <1>3 DEF GrowthBlockers
  <2> DEFINE unknown == Blocker("revenue unknown", 70)
  <2>2. GrowthBlockers(p, s) = {unknown} /\ GrowthBlockers(p, t) = {unknown} /\ unknown.severity = 70
    BY <1>1, <2>1
  <2> HIDE DEF unknown
  <2>3. QED
    BY <2>2 DEF Outdone, Severe
<1>4. CASE Has(s, {"REVENUE", "GROWTH"})
  <2> DEFINE g == s["GROWTH"]
             h == t["GROWTH"]
             slow == Lane1Supported(RouteCompany(p, s))
  <2>1. g \in Int /\ h \in Int /\ h <= g
    BY <1>4 DEF Has, NoHealthier
  <2>2. /\ GrowthBlockers(p, s) = IF g < 0 THEN {Blocker("contraction", fall(g))}
                                  ELSE {b \in {Blocker("slow growth", 55)} : g < 5 /\ slow}
        /\ GrowthBlockers(p, t) = IF h < 0 THEN {Blocker("contraction", fall(h))}
                                  ELSE {b \in {Blocker("slow growth", 55)} : h < 5 /\ slow}
    BY <1>2, <1>4 DEF GrowthBlockers
  <2> HIDE DEF g, h, slow
  <2>3. \A v \in Int : v < 0 => fall(v) \in 82 .. 97
    BY DEF Smaller
  <2>4. g < 0 => fall(g) <= fall(h)
    BY <2>1 DEF Smaller
  <2> DEFINE contraction(v) == Blocker("contraction", fall(v))
             slowly == Blocker("slow growth", 55)
  <2>5. /\ contraction(g).severity = fall(g) /\ contraction(h).severity = fall(h) /\ slowly.severity = 55
        /\ GrowthBlockers(p, s) = IF g < 0 THEN {contraction(g)} ELSE {b \in {slowly} : g < 5 /\ slow}
        /\ GrowthBlockers(p, t) = IF h < 0 THEN {contraction(h)} ELSE {b \in {slowly} : h < 5 /\ slow}
    <3>1. contraction(g).severity = fall(g) /\ contraction(h).severity = fall(h)
      BY BlockerSeverity
    <3>2. slowly.severity = 55
      BY <1>1
    <3>3. QED
      BY <2>2, <3>1, <3>2
  <2> HIDE DEF fall, contraction, slowly
  <2>6. Severe(GrowthBlockers(p, t))
    BY <2>1, <2>3, <2>5 DEF Severe
  <2>8. Outdone(GrowthBlockers(p, s), GrowthBlockers(p, t))
    <3>1. ASSUME NEW b \in GrowthBlockers(p, s)
          PROVE  \E c \in GrowthBlockers(p, t) : b.severity <= c.severity
      <4>1. CASE g < 0
        BY <2>1, <2>4, <2>5, <3>1, <4>1
      <4>2. CASE ~(g < 0)
        <5>1. b = slowly /\ g < 5 /\ slow
          BY <2>5, <3>1, <4>2
        <5>2. CASE h < 0
          BY <2>1, <2>3, <2>5, <5>1, <5>2
        <5>3. CASE ~(h < 0)
          BY <2>1, <2>5, <5>1, <5>3
        <5>4. QED
          BY <5>2, <5>3
      <4>3. QED
        BY <4>1, <4>2
    <3>2. QED
      BY <3>1 DEF Outdone
  <2>9. QED
    BY <2>6, <2>8
<1>5. QED
  BY <1>3, <1>4

LEMMA IncomeOutdone ==
    ASSUME NEW s, NEW t, NoHealthier(s, t)
    PROVE  Outdone(IncomeBlockers(s), IncomeBlockers(t)) /\ Severe(IncomeBlockers(t))
<1>1. /\ Blocker("owner earnings unknown", 62).severity = 62 /\ Blocker("cash burn", 84).severity = 84
      /\ Blocker("losses", 82).severity = 82 /\ Blocker("thin margin", 62).severity = 62
  BY BlockerSeverity
<1>2. /\ "OWNER" \in DOMAIN s <=> "OWNER" \in DOMAIN t
      /\ "OWNER" \in DOMAIN s /\ s["OWNER"] < 0 => t["OWNER"] < 0
  BY DEF NoHealthier
<1>3. OrZero(s, "NET_INCOME") < 0 => OrZero(t, "NET_INCOME") < 0
  BY DEF OrZero, NoHealthier
<1>4. OrElse(s, "MARGIN", 5) < 5 => OrElse(t, "MARGIN", 5) < 5
  BY DEF OrElse, NoHealthier
<1> DEFINE owner(g) == IF "OWNER" \notin DOMAIN g THEN {Blocker("owner earnings unknown", 62)}
                       ELSE {b \in {Blocker("cash burn", 84)} : g["OWNER"] < 0}
           income(g) == IF OrZero(g, "NET_INCOME") < 0 THEN {Blocker("losses", 82)}
                        ELSE {b \in {Blocker("thin margin", 62)} : OrElse(g, "MARGIN", 5) < 5}
<1>5. Outdone(owner(s), owner(t)) /\ Severe(owner(t))
  <2>1. CASE "OWNER" \notin DOMAIN s
    <3> DEFINE unknown == Blocker("owner earnings unknown", 62)
    <3>1. owner(s) = {unknown} /\ owner(t) = {unknown} /\ unknown.severity = 62
      BY <1>1, <1>2, <2>1
    <3> HIDE DEF unknown, owner
    <3>2. QED
      BY <3>1 DEF Outdone, Severe
  <2>2. CASE "OWNER" \in DOMAIN s
    <3> DEFINE burn == Blocker("cash burn", 84)
    <3>1. burn.severity = 84
      BY <1>1
    <3>2. owner(s) = {b \in {burn} : s["OWNER"] < 0} /\ owner(t) = {b \in {burn} : t["OWNER"] < 0}
      BY <1>2, <2>2
    <3>3. s["OWNER"] < 0 => t["OWNER"] < 0
      BY <1>2, <2>2
    <3> HIDE DEF burn, owner
    <3>4. QED
      BY <3>1, <3>2, <3>3 DEF Outdone, Severe
  <2>3. QED
    BY <2>1, <2>2
<1>6. Outdone(income(s), income(t)) /\ Severe(income(t))
  <2> DEFINE losses == Blocker("losses", 82)
             thin == Blocker("thin margin", 62)
             lost(g) == OrZero(g, "NET_INCOME") < 0
             low(g) == OrElse(g, "MARGIN", 5) < 5
  <2>1. losses.severity = 82 /\ thin.severity = 62
    BY <1>1
  <2>2. /\ income(s) = IF lost(s) THEN {losses} ELSE {b \in {thin} : low(s)}
        /\ income(t) = IF lost(t) THEN {losses} ELSE {b \in {thin} : low(t)}
    OBVIOUS
  <2>3. (lost(s) => lost(t)) /\ (low(s) => low(t))
    BY <1>3, <1>4
  <2> HIDE DEF losses, thin, lost, low, income
  <2>4. QED
    BY <2>1, <2>2, <2>3 DEF Outdone, Severe
<1>7. IncomeBlockers(s) = owner(s) \cup income(s) /\ IncomeBlockers(t) = owner(t) \cup income(t)
  BY DEF IncomeBlockers
<1> HIDE DEF owner, income
<1>8. QED
  BY <1>5, <1>6, <1>7, BothAreOutdone

\* More owed on less is a greater part of it.
LEMMA QuotientWorsens ==
    ASSUME NEW a \in Int, NEW b \in Int, NEW m \in Nat \ {0}, NEW n \in Nat \ {0}, a <= b, n <= m,
           0 <= (100 * a) \div m
    PROVE  (100 * a) \div m <= (100 * b) \div n
<1> DEFINE q == (100 * a) \div m
           r == (100 * b) \div n
<1>1. q \in Int /\ r \in Int
  OBVIOUS
<1>2. m * q <= 100 * a
  OBVIOUS
<1>3. n * q <= m * q
  BY <1>1
<1>4. n * q <= 100 * b
  BY <1>1, <1>2, <1>3
<1>5. 100 * b < n * (r + 1)
  OBVIOUS
<1>6. q < r + 1
  <2>1. n * q < n * (r + 1)
    BY <1>1, <1>4, <1>5
  <2> HIDE DEF q, r
  <2>2. QED
    BY <1>1, <2>1
<1>7. QED
  BY <1>1, <1>6

LEMMA BalanceOutdone ==
    ASSUME NEW s, NEW t, NoHealthier(s, t)
    PROVE  Outdone(BalanceBlockers(s), BalanceBlockers(t)) /\ Severe(BalanceBlockers(t))
<1> DEFINE Owed(v) == IF v >= 90 THEN 92 ELSE IF v >= 75 THEN 78 ELSE 60
           Issued(v) == IF v >= 25 THEN 92 ELSE 78
           owed(g) == {Blocker("leverage", Owed(v)) : v \in {w \in Leverage(g) : w >= 60}}
           issued(g) == {Blocker("dilution", Issued(v)) : v \in {w \in {OrZero(g, "DILUTION")} : w >= 10}}
<1>1. \A v : Blocker("leverage", v).severity = v /\ Blocker("dilution", v).severity = v
  BY BlockerSeverity
<1>2. ASSUME NEW v \in Leverage(s), v >= 60
      PROVE  \E w \in Leverage(t) : w \in Int /\ v \in Int /\ v <= w
  <2>1. Has(s, {"ASSETS", "LIABILITIES"}) /\ s["ASSETS"] > 0 /\ v = (100 * s["LIABILITIES"]) \div s["ASSETS"]
    BY <1>2 DEF Leverage
  <2>2. /\ s["ASSETS"] \in Nat \ {0} /\ t["ASSETS"] \in Nat \ {0} /\ t["ASSETS"] <= s["ASSETS"]
        /\ s["LIABILITIES"] \in Int /\ t["LIABILITIES"] \in Int /\ s["LIABILITIES"] <= t["LIABILITIES"]
    BY <2>1 DEF Has, NoHealthier
  <2>3. Leverage(t) = {(100 * t["LIABILITIES"]) \div t["ASSETS"]}
    BY <2>1, <2>2 DEF Leverage, Has, NoHealthier
  <2>4. v \in Int /\ (100 * t["LIABILITIES"]) \div t["ASSETS"] \in Int
    BY <2>1, <2>2
  <2>5. v <= (100 * t["LIABILITIES"]) \div t["ASSETS"]
    BY <1>2, <2>1, <2>2, <2>4, QuotientWorsens
  <2>6. QED
    BY <2>3, <2>4, <2>5
<1>3. Outdone(owed(s), owed(t))
  <2>1. SUFFICES ASSUME NEW v \in Leverage(s), v >= 60
                 PROVE  \E c \in owed(t) : Blocker("leverage", Owed(v)).severity <= c.severity
    BY DEF Outdone
  <2>2. PICK w \in Leverage(t) : w \in Int /\ v \in Int /\ v <= w
    BY <1>2, <2>1
  <2>3. Blocker("leverage", Owed(w)) \in owed(t)
    BY <2>1, <2>2
  <2>4. Owed(v) <= Owed(w)
    BY <2>2
  <2> HIDE DEF owed, Owed
  <2>5. QED
    BY <1>1, <2>3, <2>4
<1>4. /\ OrZero(s, "DILUTION") \in Int /\ OrZero(t, "DILUTION") \in Int
      /\ OrZero(s, "DILUTION") <= OrZero(t, "DILUTION")
  BY DEF OrZero, NoHealthier
<1>5. Outdone(issued(s), issued(t))
  BY <1>1, <1>4 DEF Outdone
<1>6. Severe(owed(t)) /\ Severe(issued(t))
  BY <1>1 DEF Severe
<1>7. BalanceBlockers(s) = owed(s) \cup issued(s) /\ BalanceBlockers(t) = owed(t) \cup issued(t)
  BY DEF BalanceBlockers
<1> HIDE DEF owed, issued
<1>8. QED
  BY <1>3, <1>5, <1>6, <1>7 DEF Outdone, Severe

LEMMA ScoreOutdone ==
    ASSUME NEW s, NEW t, NoHealthier(s, t)
    PROVE  Outdone(ScoreBlockers(s), ScoreBlockers(t)) /\ Severe(ScoreBlockers(t))
<1>1. /\ Blocker("accounting quality", 75).severity = 75 /\ Blocker("a-his", 76).severity = 76
      /\ Blocker("eps forecast", 70).severity = 70
  BY BlockerSeverity
<1>2. /\ OrElse(s, "QUALITY", 50) < 50 => OrElse(t, "QUALITY", 50) < 50
      /\ OrElse(s, "AHIS", 50) < 50 => OrElse(t, "AHIS", 50) < 50
      /\ OrZero(s, "EPS") < 0 => OrZero(t, "EPS") < 0
  BY DEF OrElse, OrZero, NoHealthier
<1> DEFINE quality(g) == {b \in {Blocker("accounting quality", 75)} : OrElse(g, "QUALITY", 50) < 50}
           ahis(g) == {b \in {Blocker("a-his", 76)} : OrElse(g, "AHIS", 50) < 50}
           eps(g) == {b \in {Blocker("eps forecast", 70)} : OrZero(g, "EPS") < 0}
<1>3. /\ Outdone(quality(s), quality(t)) /\ Severe(quality(t))
      /\ Outdone(ahis(s), ahis(t)) /\ Severe(ahis(t))
      /\ Outdone(eps(s), eps(t)) /\ Severe(eps(t))
  <2>1. Outdone(quality(s), quality(t)) /\ Severe(quality(t))
    <3> DEFINE one == Blocker("accounting quality", 75)
               bad(g) == OrElse(g, "QUALITY", 50) < 50
    <3>1. one.severity = 75 /\ (bad(s) => bad(t))
      BY <1>1, <1>2
    <3>2. quality(s) = {b \in {one} : bad(s)} /\ quality(t) = {b \in {one} : bad(t)}
      OBVIOUS
    <3> HIDE DEF one, bad, quality
    <3>3. QED
      BY <3>1, <3>2 DEF Outdone, Severe
  <2>2. Outdone(ahis(s), ahis(t)) /\ Severe(ahis(t))
    <3> DEFINE one == Blocker("a-his", 76)
               bad(g) == OrElse(g, "AHIS", 50) < 50
    <3>1. one.severity = 76 /\ (bad(s) => bad(t))
      BY <1>1, <1>2
    <3>2. ahis(s) = {b \in {one} : bad(s)} /\ ahis(t) = {b \in {one} : bad(t)}
      OBVIOUS
    <3> HIDE DEF one, bad, ahis
    <3>3. QED
      BY <3>1, <3>2 DEF Outdone, Severe
  <2>3. Outdone(eps(s), eps(t)) /\ Severe(eps(t))
    <3> DEFINE one == Blocker("eps forecast", 70)
               bad(g) == OrZero(g, "EPS") < 0
    <3>1. one.severity = 70 /\ (bad(s) => bad(t))
      BY <1>1, <1>2
    <3>2. eps(s) = {b \in {one} : bad(s)} /\ eps(t) = {b \in {one} : bad(t)}
      OBVIOUS
    <3> HIDE DEF one, bad, eps
    <3>3. QED
      BY <3>1, <3>2 DEF Outdone, Severe
  <2>4. QED
    BY <2>1, <2>2, <2>3
<1>4. /\ ScoreBlockers(s) = (quality(s) \cup ahis(s)) \cup eps(s)
      /\ ScoreBlockers(t) = (quality(t) \cup ahis(t)) \cup eps(t)
  BY DEF ScoreBlockers
<1> HIDE DEF quality, ahis, eps
<1>5. Outdone(quality(s) \cup ahis(s), quality(t) \cup ahis(t)) /\ Severe(quality(t) \cup ahis(t))
  BY <1>3, BothAreOutdone
<1>6. QED
  BY <1>3, <1>4, <1>5, BothAreOutdone

\* All that is found, and what is kept of it.
Found(p, s) ==
    DataBlockers(p, s) \cup GrowthBlockers(p, s) \cup IncomeBlockers(s) \cup BalanceBlockers(s) \cup ScoreBlockers(s)
Listed(p, s) == IF Found(p, s) = {} THEN {Blocker("none", 20)} ELSE Found(p, s)

\* The severest blocker is kept.
LEMMA TopIsSeverest ==
    ASSUME NEW p, NEW s, Severe(Found(p, s))
    PROVE  /\ TopSeverity(p, s) \in 20 .. 100
           /\ \E b \in Listed(p, s) : b.severity = TopSeverity(p, s)
           /\ \A b \in Listed(p, s) : b.severity <= TopSeverity(p, s)
<1> DEFINE all == Listed(p, s)
           kept == MetricBottlenecks(p, s)
<1>1. all # {} /\ Severe(all)
  BY BlockerSeverity DEF Listed, Severe
<1>2. kept = {b \in all : Cardinality({c \in all : c.severity > b.severity}) < 3}
  BY DEF MetricBottlenecks, Listed, Found
<1> HIDE DEF all, kept
<1>3. PICK b \in all : \A c \in all : c.severity <= b.severity
  <2> DEFINE T == {100 - c.severity : c \in all}
  <2>1. \A c \in all : c.severity \in Int /\ 100 - c.severity \in Nat
    BY <1>1 DEF Severe
  <2>2. T \in SUBSET Nat /\ T # {}
    BY <1>1, <2>1
  <2>3. \A c \in all : 100 - c.severity \in T
    OBVIOUS
  <2>4. \A v \in T : \E c \in all : v = 100 - c.severity
    OBVIOUS
  <2> HIDE DEF T
  <2>5. PICK v \in T : \A w \in T : v <= w
    BY <2>2, LeastNumber
  <2>6. PICK b \in all : v = 100 - b.severity
    BY <2>4
  <2>7. \A c \in all : 100 - b.severity <= 100 - c.severity
    BY <2>3, <2>5, <2>6
  <2>8. QED
    BY <2>1, <2>7
<1>4. b \in kept
  <2>1. {c \in all : c.severity > b.severity} = {}
    BY <1>1, <1>3 DEF Severe
  <2>2. Cardinality({c \in all : c.severity > b.severity}) = 0
    BY <2>1, FS_EmptySet
  <2>3. QED
    BY <1>2, <2>2
<1>5. kept \subseteq all
  BY <1>2
<1>6. TopSeverity(p, s) = CHOOSE v \in {c.severity : c \in kept} : \A c \in kept : c.severity <= v
  BY DEF TopSeverity, kept
<1>7. \E v \in {c.severity : c \in kept} : \A c \in kept : c.severity <= v
  BY <1>3, <1>4, <1>5
<1>8. TopSeverity(p, s) \in {c.severity : c \in kept} /\ \A c \in kept : c.severity <= TopSeverity(p, s)
  BY <1>6, <1>7
<1>9. TopSeverity(p, s) = b.severity
  <2>1. PICK c \in kept : TopSeverity(p, s) = c.severity
    BY <1>8
  <2>2. b.severity <= c.severity /\ c.severity <= b.severity
    BY <1>3, <1>4, <1>5, <1>8, <2>1
  <2>3. QED
    BY <1>1, <1>5, <2>1, <2>2 DEF Severe
<1>10. QED
  BY <1>1, <1>3, <1>9 DEF all, Severe

LEMMA TopRises ==
    ASSUME NEW p, NEW s, NEW t, NoHealthier(s, t), RouteCompany(p, t) = RouteCompany(p, s), Severe(Found(p, s))
    PROVE  TopSeverity(p, t) >= TopSeverity(p, s)
<1>1. Outdone(Found(p, s), Found(p, t)) /\ Severe(Found(p, t))
  BY DataOutdone, GrowthOutdone, IncomeOutdone, BalanceOutdone, ScoreOutdone DEF Found, Outdone, Severe
<1>2. PICK b \in Listed(p, s) : b.severity = TopSeverity(p, s)
  BY TopIsSeverest
<1>3. /\ \A c \in Listed(p, t) : c.severity <= TopSeverity(p, t)
      /\ TopSeverity(p, s) \in Int /\ TopSeverity(p, t) \in Int /\ 20 <= TopSeverity(p, t)
  BY <1>1, TopIsSeverest
<1>4. CASE Found(p, s) = {}
  BY <1>2, <1>3, <1>4, BlockerSeverity DEF Listed
<1>5. CASE Found(p, s) # {}
  <2>1. PICK c \in Found(p, t) : b.severity <= c.severity
    BY <1>1, <1>2, <1>5 DEF Listed, Outdone
  <2>2. c \in Listed(p, t) /\ c.severity \in Int /\ b.severity \in Int
    BY <1>1, <1>2, <1>3, <2>1 DEF Listed, Severe
  <2>3. QED
    BY <1>2, <1>3, <2>1, <2>2
<1>6. QED
  BY <1>4, <1>5

\* Worse figures never make the severest blocker named for a company milder,
\* while it keeps its route and its assets, and worse evidence never makes its
\* position larger; a veto leaves none.
\* (bottleneck_engine.py 317-392, grading_engine.py 57-170)
THEOREM WorseIsNoBetter == GradesSpec => WorseNeverLooksBetter
<1> DEFINE
      Figure ==
        /\ stats' # stats
        /\ SameNames(stats, stats')
        /\ RouteCompany(profile, stats') = RouteCompany(profile, stats)
        /\ HasAssets(stats')
        /\ \A n \in DOMAIN stats : IF n \in {"LIABILITIES", "DILUTION", "WARNINGS"} THEN stats'[n] >= stats[n]
                                   ELSE stats'[n] <= stats[n]
      Blockers == Figure => TopSeverity(profile, stats') >= TopSeverity(profile, stats)
      worse(n) == IF n \in Severities \cup Vetoes \cup {"DISPERSION", "REQUIRED", "CURRENT", "PENALTY", "SECTOR_TARGET"}
                  THEN evidence'[n] >= evidence[n] ELSE evidence'[n] <= evidence[n]
      Sizes == (evidence' # evidence /\ SameNames(evidence, evidence') /\ \A n \in DOMAIN evidence : worse(n)) =>
                  /\ PositionSize(evidence') <= PositionSize(evidence)
                  /\ HardVeto(evidence') => PositionSize(evidence') = 0
<1>1. ASSUME GradesInv, GradesInv' PROVE Blockers
  <2>1. SUFFICES ASSUME Figure PROVE TopSeverity(profile, stats') >= TopSeverity(profile, stats)
    OBVIOUS
  <2>2. NoHealthier(stats, stats')
    BY <1>1, <2>1 DEF SameNames, GradesInv, HasAssets, OrElse, NoHealthier
  <2>3. NoHealthier(stats, stats)
    BY <2>2 DEF NoHealthier
  <2>4. Severe(Found(profile, stats))
    BY <2>3, DataOutdone, GrowthOutdone, IncomeOutdone, BalanceOutdone, ScoreOutdone DEF Found, Severe
  <2>5. QED
    BY <2>1, <2>2, <2>4, TopRises
<1>2. ASSUME GradesInv, GradesInv' PROVE Sizes
  <2>1. SUFFICES ASSUME SameNames(evidence, evidence'), \A n \in DOMAIN evidence : worse(n)
                 PROVE  /\ PositionSize(evidence') <= PositionSize(evidence)
                        /\ HardVeto(evidence') => PositionSize(evidence') = 0
    OBVIOUS
  <2>2. NoBetter(evidence, evidence')
    BY <2>1 DEF SameNames, NoBetter
  <2>3. EvidenceFits(evidence) /\ EvidenceFits(evidence')
    BY <1>2 DEF GradesInv, EvidenceFits
  <2>4. QED
    BY <2>2, <2>3, SizeFalls
<1>3. GradesInv /\ GradesInv' => Blockers /\ Sizes
  BY <1>1, <1>2
<1>4. GradesInit => GradesInv
  BY GradesStart
<1>5. GradesInv /\ [GradesNext]_gradeVars => GradesInv'
  BY GradesStep
<1>6. GradesInv /\ [GradesNext]_gradeVars => [Blockers /\ Sizes]_gradeVars
  BY <1>3, <1>5
<1>7. QED
  BY <1>4, <1>5, <1>6, PTL DEF GradesSpec, WorseNeverLooksBetter

=============================================================================
