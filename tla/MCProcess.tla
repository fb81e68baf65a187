------------------------------ MODULE MCProcess ------------------------------
(* What runs day by day: the scheduler's cycle, the days the importer polls, *)
(* the SEC client, the caches of the API, the backups, the repair scripts,   *)
(* the facts of a company and the board filled from the reports.  Each keeps state of its own, so their interleavings add         *)
(* nothing: in a behaviour one of them moves and the others stay at the      *)
(* start.                                                                    *)
EXTENDS Scheduler, DiscoveryDates, SecClient, ApiCaches, Backups, Repairs, Facts,
        BuyBoard

VARIABLE turn

\* Scheduler: days of eight units of time with two windows, one longer than the grace
\* and one that is shorter.  Day 1 is short by a unit, before its first
\* window, as when summer time begins.
DayStart(d) == IF d <= 1 THEN 8 * d ELSE 8 * d - 1

EasternDay(t) == CHOOSE d \in -4..5 : DayStart(d) <= t /\ t < DayStart(d + 1)

EasternWindows(d) ==
    LET skipped == IF d = 1 THEN 1 ELSE 0
    IN  {[start |-> DayStart(d) + 2 - skipped, end |-> DayStart(d) + 5 - skipped],
         [start |-> DayStart(d) + 6 - skipped, end |-> DayStart(d) + 7 - skipped]}

\* DiscoveryDates: weeks of three days, of which the third is no filing day.
WeekdayOfThree(d) == d % 3 # 0

\* SecClient: two callers of one client.
OneClient == [c \in {"a", "b"} |-> 1]

\* Repairs: a company with filings only; there may be everything to get, no facts,
\* or facts that do not map.
FilingsOnly == << {"filings"} >>
AllOrLess ==
    << {Kinds, {"filings", "card"}, {"filings", "raw", "card"}} >>
OneWorkerEach ==
    [c1 |-> "catchup", s1 |-> "sweep", f1 |-> "finalizer", b1 |-> "backfill", r1 |-> "scores", p1 |-> "serial"]

\* Facts: an old filing, a new one, and one that amends the old one's year.
ThreeFilings ==
    [old   |-> [accepted |-> 1, filed |-> 1, historical |-> TRUE],
     new   |-> [accepted |-> 3, filed |-> 3, historical |-> FALSE],
     amend |-> [accepted |-> 4, filed |-> 4, historical |-> FALSE]]
FiledFact(a, tag, start, end, val, year, period) ==
    [accn |-> a, tag |-> tag, start |-> start, end |-> end, val |-> val, year |-> year,
     period |-> period]
FourFacts ==
    <<FiledFact("old", "Revenues", 0, 1, 5, 1, "FY"),
      FiledFact("new", "Revenues", 1, 2, 8, 2, "FY"),
      FiledFact("amend", "Revenues", 0, 1, 7, 1, "FY"),
      FiledFact("new", "Assets", 0, 2, 9, 0, "Q4")>>
ThreeRules ==
    {[tag |-> "Revenues", code |-> "REVENUE", priority |-> 100, confidence |-> "HIGH"],
     [tag |-> "Revenues", code |-> "SALES", priority |-> 90, confidence |-> "HIGH"],
     [tag |-> "Assets", code |-> "ASSETS", priority |-> 100, confidence |-> "LOW"]}
TwoSheets == [income |-> {"REVENUE"}, balance |-> {"ASSETS"}]

\* BuyBoard: a company's diagnostic report, as the machine builds it.
Diagnostic ==
    [status |-> "UNVALIDATED", rule |-> "FINANCIAL_INPUT_SAFETY_V1", grade |-> "UNVALIDATED",
     score |-> 80, gradeScore |-> 80, raw |-> 9, canonical |-> 5, tier |-> "ADEQUATE",
     stance |-> "NEUTRAL", quality |-> 70, growth |-> 9, owner |-> 40, net |-> 30,
     annual |-> TRUE, shares |-> 10]

DiagnosticBuilds == {Diagnostic}

processVars ==
    <<vars, dateVars, secVars, cacheVars, backupVars, repairVars, factVars, boardVars, turn>>

ProcessInit ==
    /\ turn \in {"scheduler", "dates", "sec", "caches", "backups", "repairs", "facts", "board"}
    /\ Init /\ DatesInit /\ SecInit /\ CachesInit /\ BackupsInit /\ RepairsInit
    /\ FactsInit /\ BoardInit
    \* One start is enough for what stays there.
    /\ turn # "backups" => \A a \in 1 .. OldArchives : archive[a].seal
    /\ turn # "repairs" => gives = [c \in Companies |-> Kinds]
    /\ turn # "repairs" => phase = CHOOSE start \in [Scripts -> {"idle", "done"}] :
                                Cardinality({s \in Scripts : start[s] = "idle"}) = ScriptsRun
    \* What the board promises it promises on SQLite, where writers share a guard.
    /\ sqlite

ProcessNext ==
    /\ UNCHANGED turn
    /\ \/ turn = "scheduler" /\ Next
          /\ UNCHANGED <<dateVars, secVars, cacheVars, backupVars, repairVars, factVars, boardVars>>
       \/ turn = "dates" /\ DatesNext
          /\ UNCHANGED <<vars, secVars, cacheVars, backupVars, repairVars, factVars, boardVars>>
       \/ turn = "sec" /\ SecNext
          /\ UNCHANGED <<vars, dateVars, cacheVars, backupVars, repairVars, factVars, boardVars>>
       \/ turn = "caches" /\ CachesNext
          /\ UNCHANGED <<vars, dateVars, secVars, backupVars, repairVars, factVars, boardVars>>
       \/ turn = "backups" /\ BackupsNext
          /\ UNCHANGED <<vars, dateVars, secVars, cacheVars, repairVars, factVars, boardVars>>
       \/ turn = "repairs" /\ RepairsNext
          /\ UNCHANGED <<vars, dateVars, secVars, cacheVars, backupVars, factVars, boardVars>>
       \/ turn = "facts" /\ FactsNext
          /\ UNCHANGED <<vars, dateVars, secVars, cacheVars, backupVars, repairVars, boardVars>>
       \/ turn = "board" /\ BoardNext
          /\ UNCHANGED <<vars, dateVars, secVars, cacheVars, backupVars, repairVars, factVars>>

ProcessSpec == ProcessInit /\ [][ProcessNext]_processVars
=============================================================================
