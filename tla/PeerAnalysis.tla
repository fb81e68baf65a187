----------------------------- MODULE PeerAnalysis -----------------------------
(***************************************************************************)
(* The engines of src/accountant/analysis that judge one company: the      *)
(* forensic rules, the reported against the economic books, its place      *)
(* among its peers, and anomalies of a metric.                             *)
(*                                                                         *)
(* A forensic metric is below its rule's threshold, at it or above it: -1, *)
(* 0 or 1.  The peers are their values of one metric, the first of them    *)
(* the company's; values that are missing are left out of the sequence.    *)
(***************************************************************************)
EXTENDS Figures, FiniteSets, Sequences, SequencesExt

CONSTANTS
    PeerValues,   \* values the peers start with
    MetricValues, \* what a value may be revised to
    MaxFindings   \* bound on revisions

ASSUME PeersAssumption ==
    /\ PeerValues \in Seq(Int) /\ PeerValues # <<>>
    /\ MetricValues \subseteq Int

VARIABLES
    levels,   \* of the metrics the scan reads
    books,    \* reported and economic value of a metric
    peers,    \* values of the metric among the peers
    trend,    \* the metric a year ago, and its distance from the peers
    revisions

analysisVars == <<levels, books, peers, trend, revisions>>

-----------------------------------------------------------------------------
(* Forensic rules *)

AlertRules == {"REV_004", "EARN_001", "ASSET_001", "LIAB_001"}
WarningRules == {"REV_001", "REV_002", "REV_003", "EARN_002", "EARN_003", "ASSET_002", "ASSET_003", "ASSET_004",
                 "LIAB_002", "LIAB_003", "CF_001", "CF_002", "CF_003"}
InfoRules == {"EARN_004", "LIAB_004", "CF_004"}

\* Rules of the table that no metric reaches: the scan never evaluates them.
UnscannedRules == {"VAL_001", "VAL_002", "RP_001", "CONT_001", "POLICY_001", "POLICY_002",
                   "QUALITY_001", "QUALITY_002", "QUALITY_003", "QUALITY_004", "QUALITY_005"}

\* The rules whose threshold is a lower bound.
LowerBounds == {"CF_001", "CF_002", "CF_003", "CF_004", "ASSET_002"}

\* Mutant of EvaluateRule: the lower bounds are taken for upper ones.
EvaluateRuleAbove(rule, level) == level > 0

EvaluateRule(rule, level) == IF rule \in LowerBounds THEN level < 0 ELSE level > 0

ForensicFindings(metrics) == {r \in DOMAIN metrics \ UnscannedRules : EvaluateRule(r, metrics[r])}

ForensicReport(metrics) ==
    LET found == ForensicFindings(metrics)
        alerts == Cardinality(found \cap AlertRules)
        warnings == Cardinality(found \cap WarningRules)
    IN [risk |-> Smaller(100, 15 * alerts + 5 * warnings),
        earnings |-> Larger(0, 100 - 10 * warnings),
        assets |-> Larger(0, 100 - 15 * alerts),
        cashFlow |-> Larger(0, 100 - 8 * warnings)]

OverallRisk(risk) == IF risk > 70 THEN "HIGH" ELSE IF risk > 40 THEN "MEDIUM" ELSE "LOW"

-----------------------------------------------------------------------------
(* Reported against economic books, in per cent of the economic value *)

Divergence(b) == IF b.economic = 0 THEN 0 ELSE (100 * (b.reported - b.economic)) \div AbsOf(b.economic)

Aggressiveness(b) ==
    LET pct == Divergence(b) IN
    CASE pct < 0 -> "CONSERVATIVE"
      [] pct \in 0 .. 5 -> "NEUTRAL"
      [] pct \in 6 .. 15 -> "MODERATE"
      [] pct \in 16 .. 30 -> "AGGRESSIVE"
      [] OTHER -> "HIGHLY_AGGRESSIVE"

TwinScore(b) ==
    Smaller(100, (IF Aggressiveness(b) \in {"AGGRESSIVE", "HIGHLY_AGGRESSIVE"} THEN 20 ELSE 0) + AbsOf(Divergence(b)))

TwinAdvice(b) == IF TwinScore(b) > 50 THEN "HIGH" ELSE IF TwinScore(b) > 25 THEN "MEDIUM" ELSE "CLOSE"

-----------------------------------------------------------------------------
(* Peers.  A quantile interpolates between the two values around its place. *)

Sorted(values) == SortSeq(values, LAMBDA a, b : a < b)

\* Mutant of Cut: the place is counted from zero in a sequence counted from one.
CutFromZero(values, i, n) ==
    LET s == Sorted(values)
        j == Within((i * (Len(s) + 1)) \div n - 1, 1, Len(s) - 1)
        delta == i * (Len(s) + 1) - (j + 1) * n
    IN <<s[j] * (n - delta) + s[j + 1] * delta, n>>

\* The i-th of the n - 1 cuts, exclusive of the ends, as a ratio.
Cut(values, i, n) ==
    LET s == Sorted(values)
        j == Within((i * (Len(s) + 1)) \div n, 1, Len(s) - 1)
        delta == i * (Len(s) + 1) - j * n
    IN <<s[j] * (n - delta) + s[j + 1] * delta, n>>

MedianOf(values) ==
    LET s == Sorted(values)
        h == Len(s) \div 2
    IN IF Len(s) % 2 = 1 THEN <<s[h + 1], 1>> ELSE <<s[h] + s[h + 1], 2>>

\* There are no deciles of fewer than ten values, nor quartiles of two.
Deciles(values) == Len(values) >= 10

\* Fewer than three peers are not ranked; below ten the comparison with a
\* missing decile raises.
RankRaises(values) == Len(values) \in 3 .. 9

Reaches(v, cut) == ~Less(<<v, 1>>, cut)

\* In tenths of a per cent.
Percentile(v, values) ==
    IF Reaches(v, Cut(values, 9, 10)) THEN 950
    ELSE IF Reaches(v, Cut(values, 3, 4)) THEN 825
    ELSE IF Reaches(v, MedianOf(values)) THEN 625
    ELSE IF Reaches(v, Cut(values, 1, 4)) THEN 375
    ELSE IF Reaches(v, Cut(values, 1, 10)) THEN 150
    ELSE 50

RankCompany(v, values) ==
    IF Len(values) < 3 THEN NoData
    ELSE IF RankRaises(values) THEN [status |-> "RAISES", value |-> <<>>]
    ELSE Valid(Percentile(v, values), 10)

PercentileClass(p) ==
    IF p >= 900 THEN "TOP_DECILE" ELSE IF p >= 750 THEN "TOP_QUARTILE" ELSE IF p >= 500 THEN "ABOVE_MEDIAN"
    ELSE IF p >= 250 THEN "BELOW_MEDIAN" ELSE IF p >= 100 THEN "BOTTOM_QUARTILE" ELSE "BOTTOM_DECILE"

-----------------------------------------------------------------------------
(* Anomalies: the distance from the peers in tenths of a deviation *)

Outlier(z, count) ==
    IF count < 5 THEN "NONE"
    ELSE IF AbsOf(z) > 30 THEN "CRITICAL"
    ELSE IF AbsOf(z) > 20 THEN "HIGH"
    ELSE IF AbsOf(z) > 15 THEN "MEDIUM"
    ELSE "NONE"

TrendAnomaly(now, before) ==
    IF before # 0 /\ (before > 0) # (now > 0) THEN "HIGH"
    ELSE IF before > 0 /\ now < before THEN "MEDIUM"
    ELSE IF before < 0 /\ now > before THEN "LOW"
    ELSE "NONE"

\* The findings of the company's metric, and the points of the scan.
AnomalyScore(now, t, count) ==
    LET points(severity) == CASE severity = "CRITICAL" -> 30 [] severity = "HIGH" -> 15
                              [] severity = "MEDIUM" -> 5 [] OTHER -> 0
    IN Smaller(100, points(Outlier(t.z, count)) + points(TrendAnomaly(now, t.before)))

-----------------------------------------------------------------------------
(* Revisions *)

ScannedRules == AlertRules \cup WarningRules \cup InfoRules

AnalysisInit ==
    /\ levels = [r \in ScannedRules |-> 0]
    /\ books = [reported |-> 10, economic |-> 10]
    /\ peers = PeerValues
    /\ trend = [before |-> PeerValues[1], z |-> 0]
    /\ revisions = 0

ReviseLevel(r) ==
    /\ \E v \in {-1, 0, 1} : levels' = [levels EXCEPT ![r] = v]
    /\ UNCHANGED <<books, peers, trend>>

ReviseBooks ==
    /\ \E v \in MetricValues : books' = [books EXCEPT !.reported = v] \/ books' = [books EXCEPT !.economic = v]
    /\ UNCHANGED <<levels, peers, trend>>

RevisePeer(i) ==
    /\ \E v \in MetricValues : peers' = [peers EXCEPT ![i] = v]
    /\ UNCHANGED <<levels, books, trend>>

LosePeer ==
    /\ Len(peers) > 1
    /\ peers' = Front(peers)
    /\ UNCHANGED <<levels, books, trend>>

ReviseTrend ==
    /\ \E v \in MetricValues : trend' = [trend EXCEPT !.before = v] \/ trend' = [trend EXCEPT !.z = v]
    /\ UNCHANGED <<levels, books, peers>>

AnalysisNext ==
    /\ revisions < MaxFindings
    /\ revisions' = revisions + 1
    /\ \/ \E r \in ScannedRules : ReviseLevel(r)
       \/ ReviseBooks
       \/ \E i \in DOMAIN peers : RevisePeer(i)
       \/ LosePeer
       \/ ReviseTrend

AnalysisSpec == AnalysisInit /\ [][AnalysisNext]_analysisVars

-----------------------------------------------------------------------------
(* Properties *)

\* The metrics whose rules are about a value that is too small.
SmallIsWorse == LowerBounds \cup {"EARN_001"}

Worsened(r) == IF r \in SmallIsWorse THEN levels'[r] < levels[r] ELSE levels'[r] > levels[r]

\* A metric that gets worse never lowers the forensic risk nor raises a score
\* of quality, apart from the ratio of cash flow to income, which the scan
\* reads the wrong way round; books that overstate more score more
\* aggressive; a company further from its peers has no fewer anomalies.
\* (forensic_rules_engine.py, accounting_twin_engine.py,
\* peer_anomaly_engine.py)
ConcernsNeverShrink ==
    [][LET before == ForensicReport(levels)
           after == ForensicReport(levels')
       IN /\ (\E r \in ScannedRules \ {"EARN_001"} : Worsened(r)) =>
                /\ after.risk >= before.risk
                /\ after.earnings <= before.earnings
                /\ after.assets <= before.assets
                /\ after.cashFlow <= before.cashFlow
          /\ (/\ books'.reported > books.reported
              /\ books'.economic = books.economic
              /\ books.reported >= books.economic) => TwinScore(books') >= TwinScore(books)
          /\ (trend'.before = trend.before /\ AbsOf(trend'.z) > AbsOf(trend.z)) =>
                AnomalyScore(peers[1], trend', Len(peers)) >= AnomalyScore(peers[1], trend, Len(peers))
      ]_<<levels, books, trend>>

\* The share of the peers a percentile claims to be above at least, and the
\* share it stays below, in tenths of a per cent.
ClaimedShare(p) == CASE p = 950 -> 900 [] p = 825 -> 750 [] p = 625 -> 500 [] p = 375 -> 250 [] p = 150 -> 100 [] OTHER -> 0
NextShare(p) == CASE p = 950 -> 1000 [] p = 825 -> 900 [] p = 625 -> 750 [] p = 375 -> 500 [] p = 150 -> 250 [] OTHER -> 100

PercentileHolds(group, i) ==
    LET r == RankCompany(group[i], group)
        p == r.value[1]
        size == Len(group)
    IN r.status = "VALID" =>
        /\ 1000 * Cardinality({j \in DOMAIN group : group[j] <= group[i]}) >= ClaimedShare(p) * size
        /\ 1000 * Cardinality({j \in DOMAIN group : group[j] < group[i]}) < NextShare(p) * size

\* Whatever value of a peer is revised, the percentile of each ranked peer stays
\* true to the number of peers: at least the share it claims is not above the
\* value, and fewer than the next share are below it, though the cuts
\* interpolate in two different ways, values tie and the group may have no
\* member at the cut.  (peer_statistics_engine.py 158-300)
PercentileIsTrue ==
    [][peers' # peers => \A i \in DOMAIN peers' : PercentileHolds(peers', i)]_peers
=============================================================================
