------------------------- MODULE ReportMachineProofs -------------------------
(***************************************************************************)
(* The machine parks and builds as the data say, leaves parked companies   *)
(* alone and overshoots the database cap by a known amount, for any        *)
(* companies, number of workers, growth, seeding, archiving and faults.    *)
(*                                                                         *)
(* The argument rests on the assignment: no two workers hold a company, so *)
(* that what a lane has read of its company is still true when it writes.  *)
(***************************************************************************)
EXTENDS ReportMachine, FiniteSetTheorems, WellFoundedInduction, TLAPS

JobType == [lane : Lanes \cup {"none"}, company : Companies \cup {0},
            step : {"start", "park", "done"}]

TypeInv ==
    /\ filings \subseteq Companies
    /\ raw \subseteq Companies
    /\ canonical \subseteq Companies
    /\ stage \in [Companies -> Stages]
    /\ updated \in [Companies -> Nat]
    /\ size \in Nat
    /\ phase \in {"off", "idle", "assign", "work"}
    /\ job \in Seq(JobType)

\* How many workers have been served in which phase.
PhaseFits ==
    /\ phase \in {"off", "idle"} => job = <<>>
    /\ phase = "assign" => Len(job) < MachineWorkers
    /\ phase = "work" => Len(job) = MachineWorkers

\* What the lanes can never give a company, it never has.
DataFits ==
    /\ raw \cap NoFacts = {}
    /\ canonical \cap (NoFacts \cup Unmapped) = {}

Live(w) == w \in 1..Len(job) /\ job[w].step # "done"

\* No two workers hold the same company.
OneJobEach ==
    \A v, w \in 1..Len(job) :
        v # w /\ Live(v) /\ Live(w) => job[v].company # job[w].company

\* A held company is not parked; one about to be has no canonical fact.
JobsFit ==
    \A w \in 1..Len(job) : Live(w) =>
        /\ job[w].company \in Companies
        /\ stage[job[w].company] # "parked"
        /\ job[w].step = "park" => job[w].company \notin canonical

MachineInv ==
    TypeInv /\ PhaseFits /\ DataFits /\ OneJobEach /\ JobsFit /\ StageMatchesData

-----------------------------------------------------------------------------
(* Least elements *)

\* A set of natural numbers that is not empty has a least element.
LEMMA LeastNat ==
    ASSUME NEW T \in SUBSET Nat, T # {}
    PROVE  \E x \in T : \A y \in T : x <= y
<1>. DEFINE R == OpToRel(<, Nat)
<1>1. IsWellFoundedOn(R, Nat)
  BY NatLessThanWellFounded
<1>2. \A x, y \in Nat : y < x => <<y, x>> \in R
  BY DEF OpToRel
<1>. HIDE DEF R
<1>3. PICK x \in T : \A y \in T : ~ (<<y, x>> \in R)
  BY <1>1, WFMin
<1>4. ASSUME NEW y \in T PROVE x <= y
  <2>1. ~ (<<y, x>> \in R)
    BY <1>3
  <2>2. ~ (y < x)
    BY <1>2, <2>1
  <2>. QED
    BY <2>2
<1>. QED
  BY <1>4

\* A number that goes with each member of a set is least for one of them.
LEMMA LeastValue ==
    ASSUME NEW T, T # {}, NEW g \in [T -> Nat]
    PROVE  \E x \in T : \A y \in T : g[x] <= g[y]
<1>1. {g[x] : x \in T} \in SUBSET Nat /\ {g[x] : x \in T} # {}
  OBVIOUS
<1>2. PICK n \in {g[x] : x \in T} : \A m \in {g[x] : x \in T} : n <= m
  BY <1>1, LeastNat
<1>. QED
  BY <1>2

\* Among different ranks there is a first one.
LEMMA FirstRank ==
    ASSUME NEW T, T # {}, NEW r \in [T -> Nat \X Nat \X Nat \X Nat],
           \A x, y \in T : x # y => r[x][4] # r[y][4]
    PROVE  \E x \in T : \A y \in T \ {x} : Sooner(r[x], r[y])
<1>0. ASSUME NEW x \in T
      PROVE  r[x][1] \in Nat /\ r[x][2] \in Nat /\ r[x][3] \in Nat /\ r[x][4] \in Nat
  OBVIOUS
<1>1. PICK a \in T : \A y \in T : r[a][1] <= r[y][1]
  <2>. DEFINE g == [x \in T |-> r[x][1]]
  <2>1. g \in [T -> Nat] /\ \A x \in T : g[x] = r[x][1]
    BY <1>0
  <2>. HIDE DEF g
  <2>2. PICK x \in T : \A y \in T : g[x] <= g[y]
    BY <2>1, LeastValue
  <2>. QED
    BY <2>1, <2>2
<1>. DEFINE T2 == {x \in T : r[x][1] = r[a][1]}
<1>2. PICK b \in T2 : \A y \in T2 : r[b][2] <= r[y][2]
  <2>. DEFINE g == [x \in T2 |-> r[x][2]]
  <2>1. g \in [T2 -> Nat] /\ (\A x \in T2 : g[x] = r[x][2]) /\ T2 # {}
    BY <1>0
  <2>. HIDE DEF g, T2
  <2>2. PICK x \in T2 : \A y \in T2 : g[x] <= g[y]
    BY <2>1, LeastValue
  <2>. QED
    BY <2>1, <2>2
<1>. DEFINE T3 == {x \in T2 : r[x][2] = r[b][2]}
<1>3. PICK c \in T3 : \A y \in T3 : r[c][3] <= r[y][3]
  <2>. DEFINE g == [x \in T3 |-> r[x][3]]
  <2>1. g \in [T3 -> Nat] /\ (\A x \in T3 : g[x] = r[x][3]) /\ T3 # {}
    BY <1>0
  <2>. HIDE DEF g, T3
  <2>2. PICK x \in T3 : \A y \in T3 : g[x] <= g[y]
    BY <2>1, LeastValue
  <2>. QED
    BY <2>1, <2>2
<1>. DEFINE T4 == {x \in T3 : r[x][3] = r[c][3]}
<1>4. PICK d \in T4 : \A y \in T4 : r[d][4] <= r[y][4]
  <2>. DEFINE g == [x \in T4 |-> r[x][4]]
  <2>1. g \in [T4 -> Nat] /\ (\A x \in T4 : g[x] = r[x][4]) /\ T4 # {}
    BY <1>0
  <2>. HIDE DEF g, T4
  <2>2. PICK x \in T4 : \A y \in T4 : g[x] <= g[y]
    BY <2>1, LeastValue
  <2>. QED
    BY <2>1, <2>2
<1>5. ASSUME NEW y \in T \ {d} PROVE Sooner(r[d], r[y])
  <2>1. CASE r[y][1] # r[a][1]
    <3>1. r[d][1] < r[y][1]
      BY <1>0, <1>1, <2>1
    <3>. QED
      BY <3>1 DEF Sooner
  <2>2. CASE y \in T2 /\ r[y][2] # r[b][2]
    <3>1. r[d][1] = r[y][1] /\ r[d][2] < r[y][2]
      BY <1>0, <1>2, <2>2
    <3>2. \A j \in 1..1 : r[d][j] = r[y][j]
      BY <3>1
    <3>. QED
      BY <3>1, <3>2 DEF Sooner
  <2>3. CASE y \in T3 /\ r[y][3] # r[c][3]
    <3>1. r[d][1] = r[y][1] /\ r[d][2] = r[y][2] /\ r[d][3] < r[y][3]
      BY <1>0, <1>3, <2>3
    <3>2. \A j \in 1..2 : r[d][j] = r[y][j]
      BY <3>1
    <3>. QED
      BY <3>1, <3>2 DEF Sooner
  <2>4. CASE y \in T4
    <3>1. r[d][1] = r[y][1] /\ r[d][2] = r[y][2] /\ r[d][3] = r[y][3] /\ r[d][4] < r[y][4]
      BY <1>0, <1>4, <2>4
    <3>2. \A j \in 1..3 : r[d][j] = r[y][j]
      BY <3>1
    <3>. QED
      BY <3>1, <3>2 DEF Sooner
  <2>. QED
    BY <2>1, <2>2, <2>3, <2>4
<1>. QED
  BY <1>5

-----------------------------------------------------------------------------
(* The assignment *)

LEMMA LanesOfType ==
    ASSUME NEW w \in Workers
    PROVE  DOMAIN LanesOf(w) = 1..3 /\ \A i \in 1..3 : LanesOf(w)[i] \in Lanes
<1>1. w \in Nat \ {0}
  BY MachineAssumption DEF Workers
<1>2. ASSUME NEW S, NEW a \in S, NEW b \in S, NEW c \in S, NEW d \in S,
             NEW e \in S, NEW f \in S, NEW g \in S, NEW h \in S, NEW i \in 1..8
      PROVE  <<a, b, c, d, e, f, g, h>>[i] \in S
  OBVIOUS
<1>3. ASSUME NEW i \in 1..8 PROVE BaseWorkerRoles[i] \in Lanes \X Lanes \X Lanes
  <2>. DEFINE S == Lanes \X Lanes \X Lanes
  <2>1. /\ <<"filings", "report-build", "report-refresh">> \in S
        /\ <<"companyfacts", "canonical", "report-build">> \in S
        /\ <<"canonical", "statements", "report-build">> \in S
        /\ <<"statements", "report-build", "report-refresh">> \in S
        /\ <<"report-build", "report-refresh", "strategy">> \in S
        /\ <<"strategy", "report-refresh", "report-build">> \in S
    BY DEF Lanes
  <2>. HIDE DEF S
  <2>2. BaseWorkerRoles[i] \in S
    BY <1>2, <2>1 DEF BaseWorkerRoles
  <2>. QED
    BY <2>2 DEF S
<1>4. LanesOf(w) \in Lanes \X Lanes \X Lanes
  BY <1>1, <1>3 DEF LanesOf
<1>. QED
  BY <1>4

LEMMA RankType ==
    ASSUME TypeInv, NEW lane \in Lanes, NEW c \in Companies
    PROVE  Rank(lane, c) \in Nat \X Nat \X Nat \X Nat /\ Rank(lane, c)[4] = c
<1>1. c \in Nat /\ updated[c] \in Nat
  BY MachineAssumption DEF TypeInv
<1>3. /\ Bit(c \in filings) \in Nat
      /\ Bit(stage[c] # "none") \in Nat
  BY DEF Bit
<1>4. ASSUME NEW a \in Nat, NEW b \in Nat, NEW d \in Nat
      PROVE  <<a, b, d, c>> \in Nat \X Nat \X Nat \X Nat /\ <<a, b, d, c>>[4] = c
  BY <1>1
<1>5. CASE lane = "filings"
  BY <1>1, <1>3, <1>4, <1>5 DEF Rank
<1>6. CASE lane = "report-build"
  BY <1>1, <1>3, <1>4, <1>6 DEF Rank
<1>7. CASE lane # "filings" /\ lane # "report-build"
  BY <1>1, <1>4, <1>7 DEF Rank
<1>. QED
  BY <1>5, <1>6, <1>7

\* A worker is given nothing, or an eligible company that is not reserved.
LEMMA PickFits ==
    ASSUME TypeInv, NEW w \in Workers, NEW reserved
    PROVE  \/ Pick(w, reserved) = NoJob
           \/ \E lane \in Lanes, c \in Companies \ reserved :
                 /\ Pick(w, reserved) = [lane |-> lane, step |-> "start", company |-> c]
                 /\ Eligible(lane, c)
<1>. DEFINE able(lane) == {c \in Companies \ reserved : Eligible(lane, c)}
            open == {i \in DOMAIN LanesOf(w) : able(LanesOf(w)[i]) # {}}
            first == CHOOSE i \in open : \A j \in open : i <= j
            lane == LanesOf(w)[first]
            taken == CHOOSE c \in able(lane) :
                        \A d \in able(lane) \ {c} : Sooner(Rank(lane, c), Rank(lane, d))
<1>1. CASE open = {}
  BY <1>1 DEF Pick
<1>2. CASE open # {}
  <2>1. open \in SUBSET Nat
    BY LanesOfType
  <2>2. first \in open
    BY <1>2, <2>1, LeastNat
  <2>3. lane \in Lanes /\ able(lane) # {}
    BY <2>2, LanesOfType
  <2>4. \E c \in able(lane) :
           \A d \in able(lane) \ {c} : Sooner(Rank(lane, c), Rank(lane, d))
    <3>. HIDE DEF lane
    <3>. DEFINE T == able(lane)
                r == [c \in T |-> Rank(lane, c)]
    <3>1. r \in [T -> Nat \X Nat \X Nat \X Nat] /\ \A x \in T : r[x][4] = x
      BY <2>3, RankType
    <3>3. T # {} /\ \A x, y \in T : x # y => r[x][4] # r[y][4]
      BY <2>3, <3>1
    <3>. HIDE DEF T, r
    <3>2. PICK x \in T : \A y \in T \ {x} : Sooner(r[x], r[y])
      BY <3>1, <3>3, FirstRank
    <3>. QED
      BY <3>2 DEF T, r
  <2>5. taken \in able(lane)
    BY <2>4
  <2>6. Pick(w, reserved) = [lane |-> lane, step |-> "start", company |-> taken]
    BY <1>2 DEF Pick
  <2>. QED
    BY <2>3, <2>5, <2>6
<1>. QED
  BY <1>1, <1>2
-----------------------------------------------------------------------------
(* Helpers of the step lemma *)

LEMMA GotoFits ==
    ASSUME TypeInv, NEW w \in 1..Len(job), NEW s \in {"start", "park", "done"}, Goto(w, s)
    PROVE  /\ job' \in Seq(JobType)
           /\ Len(job') = Len(job)
           /\ job'[w].step = s /\ job'[w].company = job[w].company
           /\ \A v \in 1..Len(job) \ {w} : job'[v] = job[v]
<1>. DEFINE T == JobType
            r == [job[w] EXCEPT !.step = s]
<1>1. job \in Seq(T)
  BY DEF TypeInv
<1>2. job[w] \in T
  BY <1>1
<1>3. r \in T /\ r.step = s /\ r.company = job[w].company
  BY <1>2 DEF JobType
<1>4. job' = [job EXCEPT ![w] = r]
  BY DEF Goto
<1>. HIDE DEF T, r
<1>5. job' \in Seq(T) /\ Len(job') = Len(job) /\ job'[w] = r /\ \A v \in 1..Len(job) \ {w} : job'[v] = job[v]
  BY <1>1, <1>3, <1>4
<1>. QED
  BY <1>3, <1>5 DEF T

\* The places of the reports stay numbers.
LEMMA TouchedFits ==
    ASSUME TypeInv, NEW c \in Companies
    PROVE  Touched(c) \in [Companies -> Nat]
<1>1. Cardinality({e \in Companies : updated[e] > 0} \cup {c}) \in Nat
  <2>1. {e \in Companies : updated[e] > 0} \cup {c} \subseteq Companies
    OBVIOUS
  <2>. QED
    BY <2>1, MachineAssumption, FS_Subset, FS_CardinalityType
<1>2. ASSUME NEW d \in Companies, updated[d] > updated[c] PROVE updated[d] - 1 \in Nat
  BY <1>2 DEF TypeInv
<1>. QED
  BY <1>1, <1>2 DEF Touched, TypeInv

LEMMA SetStageFits ==
    ASSUME TypeInv, NEW c \in Companies, NEW s \in Stages, SetStage(c, s)
    PROVE  /\ stage' \in [Companies -> Stages] /\ updated' \in [Companies -> Nat]
           /\ stage'[c] = s
           /\ \A d \in Companies \ {c} : stage'[d] = stage[d]
BY TouchedFits DEF SetStage, TypeInv

\* A worker moves on with the company it holds, which no other worker holds.
LEMMA MovesOn ==
    ASSUME MachineInv, NEW w \in Workers, phase = "work", job[w].step # "done",
           NEW s \in {"park", "done"}, Goto(w, s)
    PROVE  /\ w \in 1..Len(job) /\ Live(w)
           /\ job' \in Seq(JobType) /\ Len(job') = Len(job)
           /\ OneJobEach'
           /\ \A v \in 1..Len(job) : job'[v].step # "done" =>
                 /\ Live(v)
                 /\ job'[v].company = job[v].company
                 /\ v = w => job'[v].step = s
                 /\ v # w => /\ job'[v] = job[v]
                             /\ job[v].company # job[w].company
<1>1. w \in 1..Len(job)
  BY DEF MachineInv, PhaseFits, Workers
<1>2. Live(w)
  BY <1>1 DEF Live
<1>3. /\ job' \in Seq(JobType)
      /\ Len(job') = Len(job)
      /\ job'[w].step = s /\ job'[w].company = job[w].company
      /\ \A v \in 1..Len(job) \ {w} : job'[v] = job[v]
  BY <1>1, GotoFits DEF MachineInv
<1>4. ASSUME NEW v \in 1..Len(job), job'[v].step # "done"
      PROVE  /\ Live(v)
             /\ job'[v].company = job[v].company
             /\ v = w => job'[v].step = s
             /\ v # w => job'[v] = job[v]
  BY <1>2, <1>3, <1>4 DEF Live
<1>5. ASSUME NEW v \in 1..Len(job), job'[v].step # "done", v # w
      PROVE  job[v].company # job[w].company
  BY <1>1, <1>2, <1>4, <1>5 DEF MachineInv, OneJobEach
<1>6. OneJobEach'
  BY <1>3, <1>4 DEF MachineInv, OneJobEach, Live
<1>. QED
  BY <1>1, <1>2, <1>3, <1>4, <1>5, <1>6

LEMMA GrowFits ==
    ASSUME TypeInv, Grow
    PROVE  size' \in Nat /\ size' <= size + Reserve
BY MachineAssumption DEF Grow, TypeInv

-----------------------------------------------------------------------------
(* The invariant *)

LEMMA InitFits == Init => MachineInv
<1>. SUFFICES ASSUME Init PROVE MachineInv
  OBVIOUS
<1>1. TypeInv
  BY DEF Init, TypeInv, Stages
<1>2. PhaseFits /\ DataFits /\ OneJobEach /\ JobsFit
  BY DEF Init, PhaseFits, DataFits, OneJobEach, JobsFit
<1>3. StageMatchesData
  BY DEF Init, StageMatchesData, Built
<1>. QED
  BY <1>1, <1>2, <1>3 DEF MachineInv

LEMMA AssignFits == MachineInv /\ Assign => MachineInv'
<1>. SUFFICES ASSUME MachineInv, Assign PROVE MachineInv'
  OBVIOUS
<1>. USE DEF MachineInv
<1>. DEFINE n == Len(job) + 1
            p == Pick(n, Given)
<1>1. Len(job) \in Nat /\ Len(job) < MachineWorkers /\ n \in Workers
  BY MachineAssumption DEF Assign, TypeInv, PhaseFits, Workers
<1>2. /\ job' = Append(job, p)
      /\ phase' = IF n = MachineWorkers THEN "work" ELSE "assign"
      /\ UNCHANGED <<data, reports, size, blocked, faults>>
  BY DEF Assign
<1>3. \/ p = NoJob
      \/ \E lane \in Lanes, c \in Companies \ Given :
            p = [lane |-> lane, step |-> "start", company |-> c] /\ Eligible(lane, c)
  BY <1>1, PickFits
<1>. HIDE DEF p
<1>4. /\ p \in JobType
      /\ p.step # "done" => /\ p.step = "start"
                            /\ p.company \in Companies \ Given
                            /\ stage[p.company] # "parked"
  BY <1>3 DEF NoJob, JobType, Eligible
<1>5. /\ job' \in Seq(JobType) /\ Len(job') = n /\ job'[n] = p
      /\ \A v \in 1..Len(job) : job'[v] = job[v]
  BY <1>1, <1>2, <1>4 DEF TypeInv
<1>6. \A v \in 1..Len(job) : job[v].company \in Given
  BY DEF Given, TypeInv
<1>7. TypeInv'
  BY <1>2, <1>5 DEF TypeInv, data, reports
<1>8. PhaseFits'
  BY <1>1, <1>2, <1>5, MachineAssumption DEF PhaseFits
<1>9. DataFits' /\ StageMatchesData'
  BY <1>2 DEF DataFits, StageMatchesData, data, reports
<1>10. OneJobEach'
  BY <1>1, <1>4, <1>5, <1>6 DEF OneJobEach, Live
<1>11. JobsFit'
  BY <1>1, <1>2, <1>4, <1>5 DEF JobsFit, Live, data, reports
<1>. QED
  BY <1>7, <1>8, <1>9, <1>10, <1>11

\* The machine's own thread otherwise only starts and ends cycles.
LEMMA CycleFits == MachineInv /\ (Cycle \/ Crash) => MachineInv'
<1>. SUFFICES ASSUME MachineInv, Cycle \/ Crash PROVE MachineInv'
  OBVIOUS
<1>1. CASE Assign
  BY <1>1, AssignFits
<1>2. CASE StartMachine \/ BlockedCycle
  <2>1. phase' \in {"off", "idle"} /\ phase \in {"off", "idle"} /\ UNCHANGED <<data, reports, size, job>>
    BY <1>2 DEF StartMachine, BlockedCycle, MachineInv, TypeInv
  <2>. QED
    BY <2>1 DEF MachineInv, TypeInv, PhaseFits, DataFits, OneJobEach, JobsFit, Live,
                StageMatchesData, data, reports
<1>3. CASE BeginCycle \/ EndCycle \/ Crash
  <2>1. phase' \in {"off", "idle", "assign"} /\ job' = <<>> /\ UNCHANGED <<data, reports, size>>
    BY <1>3 DEF BeginCycle, EndCycle, Crash
  <2>. QED
    BY <2>1, MachineAssumption
       DEF MachineInv, TypeInv, PhaseFits, DataFits, OneJobEach, JobsFit, Live,
           StageMatchesData, data, reports
<1>. QED
  BY <1>1, <1>2, <1>3 DEF Cycle

\* A worker that moves on without touching a report.
LEMMA DataStep ==
    ASSUME MachineInv, NEW w \in Workers, phase = "work", phase' = "work",
           job[w].step # "done", NEW s \in {"park", "done"}, Goto(w, s),
           UNCHANGED reports, size' \in Nat,
           filings' \subseteq Companies, raw' \subseteq Companies,
           raw' \cap NoFacts = {},
           canonical \subseteq canonical',
           canonical' \subseteq canonical \cup ({job[w].company} \ (NoFacts \cup Unmapped)),
           s = "park" => job[w].company \notin canonical'
    PROVE  MachineInv'
<1>. USE DEF MachineInv
<1>1. /\ w \in 1..Len(job) /\ Live(w)
      /\ job' \in Seq(JobType) /\ Len(job') = Len(job)
      /\ OneJobEach'
      /\ \A v \in 1..Len(job) : job'[v].step # "done" =>
            /\ Live(v)
            /\ job'[v].company = job[v].company
            /\ v = w => job'[v].step = s
            /\ v # w => job'[v] = job[v] /\ job[v].company # job[w].company
  BY MovesOn
<1>2. job[w].company \in Companies /\ stage[job[w].company] # "parked"
  BY <1>1 DEF JobsFit
<1>3. TypeInv'
  BY <1>1, <1>2 DEF TypeInv, reports
<1>4. PhaseFits'
  BY <1>1 DEF PhaseFits
<1>5. DataFits'
  BY DEF DataFits
<1>6. JobsFit'
  BY <1>1 DEF JobsFit, Live, reports
<1>7. StageMatchesData'
  BY <1>2 DEF StageMatchesData, reports
<1>. QED
  BY <1>1, <1>3, <1>4, <1>5, <1>6, <1>7

\* A worker that moves on after it wrote the report of its company.
LEMMA ReportStep ==
    ASSUME MachineInv, NEW w \in Workers, phase = "work", job[w].step # "done",
           Goto(w, "done"), UNCHANGED <<data, same>>, size' \in Nat,
           NEW s \in Stages, SetStage(job[w].company, s),
           s = "parked" => job[w].company \notin canonical,
           s \in Built => job[w].company \in canonical
    PROVE  MachineInv'
<1>. USE DEF MachineInv
<1>1. /\ w \in 1..Len(job) /\ Live(w)
      /\ job' \in Seq(JobType) /\ Len(job') = Len(job)
      /\ OneJobEach'
      /\ \A v \in 1..Len(job) : job'[v].step # "done" =>
            /\ Live(v)
            /\ job'[v].company = job[v].company
            /\ v = w => job'[v].step = "done"
            /\ v # w => job'[v] = job[v] /\ job[v].company # job[w].company
  BY MovesOn
<1>2. job[w].company \in Companies
  BY <1>1 DEF JobsFit
<1>3. /\ stage' \in [Companies -> Stages] /\ updated' \in [Companies -> Nat]
      /\ stage'[job[w].company] = s
      /\ \A d \in Companies \ {job[w].company} : stage'[d] = stage[d]
  BY <1>2, SetStageFits
<1>4. TypeInv'
  BY <1>1, <1>3 DEF TypeInv, data, same
<1>5. PhaseFits' /\ DataFits'
  BY <1>1 DEF PhaseFits, DataFits, data, same
<1>6. JobsFit'
  BY <1>1, <1>3 DEF JobsFit, Live, data
<1>7. StageMatchesData'
  BY <1>2, <1>3 DEF StageMatchesData, data
<1>. QED
  BY <1>1, <1>4, <1>5, <1>6, <1>7

LEMMA SkipFits ==
    ASSUME MachineInv, NEW w \in Workers, At(w, "start"), Skip(w), UNCHANGED same
    PROVE  MachineInv'
<1>1. /\ phase = "work" /\ phase' = "work" /\ job[w].step # "done" /\ Goto(w, "done")
      /\ UNCHANGED <<filings, raw, canonical, reports>> /\ size' = size
  BY DEF At, Skip, same, data
<1>2. /\ filings \subseteq Companies /\ raw \subseteq Companies /\ raw \cap NoFacts = {}
      /\ size \in Nat
  BY DEF MachineInv, TypeInv, DataFits
<1>. QED
  BY <1>1, <1>2, DataStep

\* Every step of a lane keeps the invariant.
LEMMA WorkFits ==
    ASSUME MachineInv, NEW w \in Workers, Work(w)
    PROVE  MachineInv'
<1>. DEFINE c == job[w].company
<1>1. /\ filings \subseteq Companies /\ raw \subseteq Companies /\ raw \cap NoFacts = {}
      /\ canonical \cap (NoFacts \cup Unmapped) = {} /\ size \in Nat
  BY DEF MachineInv, TypeInv, DataFits
<1>2. Grow => size' \in Nat
  BY GrowFits DEF MachineInv
<1>3. phase = "work" /\ job[w].step # "done" => c \in Companies
  BY DEF MachineInv, PhaseFits, JobsFit, Live, Workers
<1>4. CASE RefreshCompanyFilings(w)
  <2>1. CASE Skip(w)
    BY <1>4, <2>1, SkipFits DEF RefreshCompanyFilings
  <2>2. CASE ~Skip(w)
    <3>1. /\ phase = "work" /\ phase' = "work" /\ job[w].step # "done" /\ Goto(w, "done")
          /\ filings' = filings \cup {c}
          /\ UNCHANGED <<raw, canonical, reports>> /\ Grow
      BY <1>4, <2>2 DEF RefreshCompanyFilings, At, same
    <3>. QED
      BY <1>1, <1>2, <1>3, <3>1, DataStep
  <2>. QED
    BY <2>1, <2>2
<1>5. CASE RefreshCompanyfacts(w)
  <2>1. CASE Skip(w)
    BY <1>5, <2>1, SkipFits DEF RefreshCompanyfacts
  <2>2. CASE c \in filings \cap NoFacts /\ Goto(w, "park") /\ UNCHANGED <<data, reports, size>>
    <3>1. /\ phase = "work" /\ phase' = "work" /\ job[w].step # "done" /\ c \notin canonical'
          /\ UNCHANGED <<filings, raw, canonical, reports, size>>
      BY <1>1, <1>5, <2>2 DEF RefreshCompanyfacts, At, same, data
    <3>. QED
      BY <1>1, <2>2, <3>1, DataStep
  <2>3. CASE /\ c \in filings \ NoFacts /\ raw' = raw \cup {c} /\ Grow /\ Goto(w, "done")
             /\ UNCHANGED <<filings, canonical, statements, reports>>
    <3>1. phase = "work" /\ phase' = "work" /\ job[w].step # "done"
      BY <1>5 DEF RefreshCompanyfacts, At, same
    <3>. QED
      BY <1>1, <1>2, <1>3, <2>3, <3>1, DataStep
  <2>. QED
    BY <1>5, <2>1, <2>2, <2>3 DEF RefreshCompanyfacts
<1>6. CASE NormalizeCompanyLane(w)
  <2>1. CASE Skip(w)
    BY <1>6, <2>1, SkipFits DEF NormalizeCompanyLane
  <2>2. CASE c \in (raw \ canonical) \cap Unmapped /\ Goto(w, "park") /\ UNCHANGED <<data, reports, size>>
    <3>1. /\ phase = "work" /\ phase' = "work" /\ job[w].step # "done" /\ c \notin canonical'
          /\ UNCHANGED <<filings, raw, canonical, reports, size>>
      BY <1>6, <2>2 DEF NormalizeCompanyLane, At, same, data
    <3>. QED
      BY <1>1, <2>2, <3>1, DataStep
  <2>3. CASE /\ c \in (raw \ canonical) \ Unmapped /\ canonical' = canonical \cup {c}
             /\ Grow /\ Goto(w, "done")
             /\ UNCHANGED <<filings, raw, statements, reports>>
    <3>1. phase = "work" /\ phase' = "work" /\ job[w].step # "done"
      BY <1>6 DEF NormalizeCompanyLane, At, same
    <3>2. canonical' \subseteq canonical \cup ({c} \ (NoFacts \cup Unmapped))
      BY <1>1, <2>3
    <3>. QED
      BY <1>1, <1>2, <2>3, <3>1, <3>2, DataStep
  <2>. QED
    BY <1>6, <2>1, <2>2, <2>3 DEF NormalizeCompanyLane
<1>7. CASE Park(w)
  <2>1. /\ phase = "work" /\ job[w].step = "park" /\ Goto(w, "done")
        /\ PartialReport(c) /\ Grow /\ UNCHANGED <<data, same>>
    BY <1>7 DEF Park, At
  <2>2. c \notin canonical
    BY <2>1 DEF MachineInv, PhaseFits, JobsFit, Live, Workers
  <2>3. SetStage(c, "parked")
    BY <2>1, <2>2 DEF PartialReport
  <2>4. "parked" \in Stages /\ "parked" \notin Built
    BY DEF Stages, Built
  <2>. QED
    BY <1>2, <2>1, <2>2, <2>3, <2>4, ReportStep
<1>8. CASE BuildStatementsLane(w)
  <2>1. CASE Skip(w)
    BY <1>8, <2>1, SkipFits DEF BuildStatementsLane
  <2>2. CASE ~Skip(w)
    <3>1. /\ phase = "work" /\ phase' = "work" /\ job[w].step # "done" /\ Goto(w, "done")
          /\ UNCHANGED <<filings, raw, canonical, reports>> /\ Grow
      BY <1>8, <2>2 DEF BuildStatementsLane, At, same
    <3>. QED
      BY <1>1, <1>2, <3>1, DataStep
  <2>. QED
    BY <2>1, <2>2
<1>9. CASE BuildReportLane(w)
  <2>1. /\ phase = "work" /\ job[w].step # "done" /\ Goto(w, "done") /\ c \in canonical
        /\ BuildReport(c) /\ Grow /\ UNCHANGED <<data, same>>
    BY <1>9 DEF BuildReportLane, At
  <2>. DEFINE s == IF c \in raw THEN "unvalidated" ELSE "archive-dependent-incomplete"
  <2>2. SetStage(c, s) /\ s \in Stages /\ s # "parked"
    BY <2>1 DEF BuildReport, Stages
  <2>. HIDE DEF s
  <2>. QED
    BY <1>2, <2>1, <2>2, ReportStep
<1>. QED
  BY <1>4, <1>5, <1>6, <1>7, <1>8, <1>9 DEF Work

\* A fault in a lane.
LEMMA FaultFits ==
    ASSUME MachineInv, NEW w \in Workers, NormalizeSwallowsError(w) \/ LaneFails(w)
    PROVE  MachineInv'
<1>1. /\ filings \subseteq Companies /\ raw \subseteq Companies /\ raw \cap NoFacts = {}
      /\ size \in Nat
  BY DEF MachineInv, TypeInv, DataFits
<1>2. CASE NormalizeSwallowsError(w)
  <2>1. /\ phase = "work" /\ phase' = "work" /\ job[w].step # "done" /\ Goto(w, "park")
        /\ job[w].company \notin canonical'
        /\ UNCHANGED <<filings, raw, canonical, reports, size>>
    BY <1>2 DEF NormalizeSwallowsError, At, data
  <2>. QED
    BY <1>1, <2>1, DataStep
<1>3. CASE LaneFails(w)
  <2>1. /\ phase = "work" /\ phase' = "work" /\ job[w].step # "done" /\ Goto(w, "done")
        /\ UNCHANGED <<filings, raw, canonical, reports, size>>
    BY <1>3 DEF LaneFails, data
  <2>. QED
    BY <1>1, <2>1, DataStep
<1>. QED
  BY <1>2, <1>3

\* A company is seeded, or its raw facts are archived.
LEMMA OthersFit ==
    ASSUME MachineInv, NEW c \in Companies, Seed(c) \/ Archive(c)
    PROVE  MachineInv'
<1>. USE DEF MachineInv
<1>1. CASE Seed(c)
  <2>1. /\ stage' = [stage EXCEPT ![c] = "seeded"] /\ updated' = Touched(c)
        /\ UNCHANGED <<filings, raw, canonical, size, phase, job>>
    BY <1>1 DEF Seed, data
  <2>2. TypeInv'
    BY <2>1, TouchedFits DEF TypeInv, Stages
  <2>3. PhaseFits' /\ DataFits' /\ OneJobEach'
    BY <2>1 DEF PhaseFits, DataFits, OneJobEach, Live
  <2>4. JobsFit' /\ StageMatchesData'
    BY <2>1 DEF JobsFit, Live, StageMatchesData, TypeInv, Built
  <2>. QED
    BY <2>2, <2>3, <2>4
<1>2. CASE Archive(c)
  <2>1. raw' = raw \ {c} /\ UNCHANGED <<filings, canonical, reports, size, phase, job>>
    BY <1>2 DEF Archive
  <2>2. TypeInv' /\ PhaseFits' /\ DataFits'
    BY <2>1 DEF TypeInv, PhaseFits, DataFits, reports
  <2>3. OneJobEach' /\ JobsFit' /\ StageMatchesData'
    BY <2>1 DEF OneJobEach, JobsFit, Live, StageMatchesData, reports
  <2>. QED
    BY <2>2, <2>3
<1>. QED
  BY <1>1, <1>2

LEMMA NextFits == MachineInv /\ [Next]_vars => MachineInv'
<1>. SUFFICES ASSUME MachineInv, [Next]_vars PROVE MachineInv'
  OBVIOUS
<1>1. CASE UNCHANGED vars
  BY <1>1 DEF vars, data, reports, MachineInv, TypeInv, PhaseFits, DataFits, OneJobEach,
              JobsFit, Live, StageMatchesData
<1>. QED
  BY <1>1, CycleFits, WorkFits, FaultFits, OthersFit DEF Next

\* The variables keep their types, no company is held twice, and what a worker
\* was given still holds when it writes.
THEOREM MachineKeepsInv == Spec => []MachineInv
<1>. QED
  BY InitFits, NextFits, PTL DEF Spec

\* For any companies, workers and faults, a company is parked only without
\* canonical facts and built only with them (_build_partial_report, _build_report).
THEOREM MachineMatchesData == Spec => []StageMatchesData
<1>1. MachineInv => StageMatchesData
  BY DEF MachineInv
<1>. QED
  BY <1>1, MachineKeepsInv, PTL

-----------------------------------------------------------------------------
(* Parked companies *)

\* A lane changes nothing but the company of its worker.
LEMMA WorkIsItsOwn ==
    ASSUME MachineInv, NEW w \in Workers, Work(w) \/ NormalizeSwallowsError(w) \/ LaneFails(w)
    PROVE  /\ job[w].company \in Companies /\ stage[job[w].company] # "parked"
           /\ \A d \in Companies \ {job[w].company} :
                 /\ stage'[d] = stage[d]
                 /\ d \in raw' <=> d \in raw
                 /\ d \in canonical' <=> d \in canonical
<1>. DEFINE c == job[w].company
<1>1. phase = "work" /\ job[w].step # "done"
  BY DEF Work, RefreshCompanyFilings, RefreshCompanyfacts, NormalizeCompanyLane, Park,
         BuildStatementsLane, BuildReportLane, NormalizeSwallowsError, LaneFails, At
<1>2. c \in Companies /\ stage[c] # "parked"
  BY <1>1 DEF MachineInv, PhaseFits, JobsFit, Live, Workers
<1>3. CASE RefreshCompanyFilings(w) \/ BuildStatementsLane(w) \/ LaneFails(w)
           \/ NormalizeSwallowsError(w)
  <2>1. UNCHANGED <<raw, canonical, stage>>
    BY <1>3 DEF RefreshCompanyFilings, BuildStatementsLane, LaneFails, NormalizeSwallowsError,
                Skip, data, reports
  <2>. QED
    BY <1>2, <2>1
<1>4. CASE RefreshCompanyfacts(w) \/ NormalizeCompanyLane(w)
  <2>1. /\ stage' = stage
        /\ raw' \in {raw, raw \cup {c}}
        /\ canonical' \in {canonical, canonical \cup {c}}
    BY <1>4 DEF RefreshCompanyfacts, NormalizeCompanyLane, Skip, data, reports
  <2>. QED
    BY <1>2, <2>1
<1>5. CASE Park(w) \/ BuildReportLane(w)
  <2>1. UNCHANGED <<raw, canonical>> /\ \E s \in Stages : SetStage(c, s)
    BY <1>5 DEF Park, BuildReportLane, PartialReport, BuildReport, data, Stages
  <2>. QED
    BY <1>2, <2>1, SetStageFits DEF MachineInv
<1>. QED
  BY <1>3, <1>4, <1>5 DEF Work

\* Whatever was assigned before a company was parked, no lane, seeding or
\* archiving touches it from then on (_load_role_assignments, _build_partial_report).
THEOREM MachineLeavesParked == Spec => ParkedIsLeftAlone
<1>. DEFINE Alone(c) == stage[c] = "parked" =>
                          /\ stage'[c] = "parked"
                          /\ c \in raw' <=> c \in raw
                          /\ c \in canonical' <=> c \in canonical
<1>1. MachineInv /\ [Next]_vars => [\A c \in Companies : Alone(c)]_vars
  <2>. SUFFICES ASSUME MachineInv, Next, NEW d \in Companies, stage[d] = "parked"
                PROVE  /\ stage'[d] = "parked"
                       /\ d \in raw' <=> d \in raw
                       /\ d \in canonical' <=> d \in canonical
    OBVIOUS
  <2>1. CASE Cycle \/ Crash
    BY <2>1 DEF Cycle, StartMachine, BlockedCycle, BeginCycle, Assign, EndCycle, Crash, data, reports
  <2>2. CASE \E w \in Workers : Work(w) \/ NormalizeSwallowsError(w) \/ LaneFails(w)
    BY <2>2, WorkIsItsOwn
  <2>3. CASE \E c \in Companies : Seed(c) \/ Archive(c)
    <3>1. PICK c \in Companies : Seed(c) \/ Archive(c)
      BY <2>3
    <3>2. CASE Seed(c)
      BY <3>2 DEF Seed, data, MachineInv, TypeInv
    <3>3. CASE Archive(c)
      BY <3>3 DEF Archive, reports, MachineInv, StageMatchesData
    <3>. QED
      BY <3>1, <3>2, <3>3
  <2>. QED
    BY <2>1, <2>2, <2>3 DEF Next
<1>. QED
  BY <1>1, MachineKeepsInv, PTL DEF Spec, ParkedIsLeftAlone

-----------------------------------------------------------------------------
(* The overshoot *)

\* The workers of this cycle that may still write.
Busy == {w \in Workers : w > Len(job) \/ job[w].step # "done"}

Bound == MaxDatabase + (MachineWorkers - 1) * Reserve

\* Each worker that may still write has its reserve below the bound.
SizeFits ==
    MaxDatabase > 0 =>
        /\ size <= Bound
        /\ phase \in {"assign", "work"} => size + Reserve * Cardinality(Busy) <= Bound

LEMMA BusyIsFinite == IsFiniteSet(Busy) /\ Cardinality(Busy) \in Nat
<1>1. IsFiniteSet(Workers)
  BY MachineAssumption, FS_Interval DEF Workers
<1>2. Busy \subseteq Workers
  BY DEF Busy
<1>. QED
  BY <1>1, <1>2, FS_Subset, FS_CardinalityType

LEMMA BoundType == Bound \in Nat /\ MaxDatabase <= Bound
<1>1. MachineWorkers - 1 \in Nat
  BY MachineAssumption
<1>2. \A m, n \in Nat : m * n \in Nat
  OBVIOUS
<1>. QED
  BY <1>1, <1>2, MachineAssumption DEF Bound

LEMMA ReservesGrow ==
    ASSUME NEW r \in Nat, NEW m \in Nat, NEW n \in Nat, m <= n
    PROVE  r * m <= r * n
<1>1. PICK d \in Nat : n = m + d
  BY n - m \in Nat
<1>2. r * n = r * m + r * d
  BY <1>1
<1>3. r * d \in Nat /\ r * m \in Nat
  OBVIOUS
<1>. QED
  BY <1>2, <1>3

\* The preflight of a cycle leaves room for the reserves of all workers.
LEMMA BeginFits ==
    ASSUME MachineInv, BeginCycle PROVE SizeFits'
<1>. SUFFICES ASSUME MaxDatabase > 0
              PROVE  size <= Bound /\ size + Reserve * Cardinality(Busy') <= Bound
  BY DEF BeginCycle, SizeFits, Bound
<1>1. size + Reserve <= MaxDatabase /\ size \in Nat
  BY DEF BeginCycle, StorageAllowed, MachineInv, TypeInv
<1>2. Busy' \subseteq Workers
  BY DEF Busy
<1>3. IsFiniteSet(Workers) /\ Cardinality(Workers) = MachineWorkers
  BY MachineAssumption, FS_Interval DEF Workers
<1>4. Cardinality(Busy') <= MachineWorkers /\ Cardinality(Busy') \in Nat
  BY <1>2, <1>3, FS_Subset, FS_CardinalityType
<1>5. Reserve * Cardinality(Busy') <= Reserve * MachineWorkers
  BY <1>4, ReservesGrow, MachineAssumption
<1>6. Reserve * MachineWorkers = (MachineWorkers - 1) * Reserve + Reserve
  BY MachineAssumption
<1>7. Reserve * Cardinality(Busy') \in Nat /\ Reserve * MachineWorkers \in Nat
      /\ (MachineWorkers - 1) * Reserve \in Int
  BY <1>4, MachineAssumption
<1>. QED
  BY <1>1, <1>5, <1>6, <1>7, MachineAssumption DEF Bound

\* Nobody that could not write before can write, and nothing is written.
LEMMA IdleFits ==
    ASSUME MachineInv, SizeFits, size' = size, Busy' \subseteq Busy,
           phase' \in {"assign", "work"} => phase \in {"assign", "work"}
    PROVE  SizeFits'
<1>1. Cardinality(Busy') <= Cardinality(Busy) /\ Cardinality(Busy') \in Nat /\ Cardinality(Busy) \in Nat
  BY BusyIsFinite, FS_Subset, FS_CardinalityType
<1>2. Reserve * Cardinality(Busy') <= Reserve * Cardinality(Busy)
  BY <1>1, ReservesGrow, MachineAssumption
<1>3. Reserve * Cardinality(Busy') \in Nat /\ Reserve * Cardinality(Busy) \in Nat /\ size \in Nat
  BY <1>1, MachineAssumption DEF MachineInv, TypeInv
<1>. QED
  BY <1>2, <1>3, BoundType DEF SizeFits, Bound

\* A worker that commits uses up its reserve.
LEMMA CommitFits ==
    ASSUME MachineInv, SizeFits, NEW w \in Workers, phase = "work", phase' = "work",
           job[w].step # "done", Goto(w, "done"), Grow
    PROVE  SizeFits'
<1>. SUFFICES ASSUME MaxDatabase > 0
              PROVE  size' <= Bound /\ size' + Reserve * Cardinality(Busy') <= Bound
  BY DEF SizeFits, Bound
<1>1. /\ w \in 1..Len(job) /\ Len(job') = Len(job) /\ job'[w].step = "done"
      /\ \A v \in 1..Len(job) \ {w} : job'[v] = job[v]
  BY GotoFits DEF MachineInv, PhaseFits, Workers
<1>2. Len(job) = MachineWorkers
  BY DEF MachineInv, PhaseFits
<1>3. Busy' = Busy \ {w} /\ w \in Busy
  BY <1>1, <1>2, MachineAssumption DEF Busy, Workers
<1>4. /\ Cardinality(Busy') = Cardinality(Busy) - 1
      /\ Cardinality(Busy) \in Nat /\ Cardinality(Busy') \in Nat
  BY <1>3, BusyIsFinite, FS_RemoveElement, FS_CardinalityType
<1>5. Reserve * Cardinality(Busy) = Reserve * Cardinality(Busy') + Reserve
  BY <1>4, MachineAssumption
<1>6. /\ size' \in Nat /\ size \in Nat /\ size' <= size + Reserve
      /\ Reserve * Cardinality(Busy') \in Nat
  BY <1>4, GrowFits, MachineAssumption DEF MachineInv, TypeInv
<1>7. size + Reserve * Cardinality(Busy) <= Bound
  BY DEF SizeFits
<1>. QED
  BY <1>5, <1>6, <1>7, BoundType, MachineAssumption

LEMMA SizeStep == MachineInv /\ SizeFits /\ [Next]_vars => SizeFits'
<1>. SUFFICES ASSUME MachineInv, SizeFits, [Next]_vars PROVE SizeFits'
  OBVIOUS
<1>1. CASE UNCHANGED vars
  BY <1>1 DEF vars, SizeFits, Bound, Busy
<1>2. CASE Cycle \/ Crash
  <2>1. CASE BeginCycle
    BY <2>1, BeginFits
  <2>2. CASE Assign
    <3>1. Len(job) \in Nat /\ Len(job') = Len(job) + 1 /\ \A v \in 1..Len(job) : job'[v] = job[v]
      BY <2>2 DEF Assign, MachineInv, TypeInv
    <3>2. Busy' \subseteq Busy
      BY <3>1, MachineAssumption DEF Busy, Workers
    <3>3. size' = size /\ phase = "assign"
      BY <2>2 DEF Assign
    <3>. QED
      BY <3>2, <3>3, IdleFits
  <2>3. CASE StartMachine \/ BlockedCycle \/ EndCycle \/ Crash
    <3>1. size' = size /\ phase' \in {"idle", "off"}
      BY <2>3 DEF StartMachine, BlockedCycle, EndCycle, Crash
    <3>. QED
      BY <3>1 DEF SizeFits, Bound
  <2>. QED
    BY <1>2, <2>1, <2>2, <2>3 DEF Cycle
<1>3. CASE \E w \in Workers : Work(w) \/ NormalizeSwallowsError(w) \/ LaneFails(w)
  <2>1. PICK w \in Workers : Work(w) \/ NormalizeSwallowsError(w) \/ LaneFails(w)
    BY <1>3
  <2>2. /\ phase = "work" /\ phase' = "work" /\ job[w].step # "done"
        /\ \/ Goto(w, "done") /\ Grow
           \/ \E s \in {"park", "done"} : Goto(w, s) /\ size' = size
    BY <2>1 DEF Work, RefreshCompanyFilings, RefreshCompanyfacts, NormalizeCompanyLane, Park,
                BuildStatementsLane, BuildReportLane, NormalizeSwallowsError, LaneFails, At,
                Skip, same
  <2>3. ASSUME NEW s \in {"park", "done"}, Goto(w, s), size' = size PROVE SizeFits'
    <3>1. /\ Live(w) /\ Len(job') = Len(job)
          /\ \A v \in 1..Len(job) : job'[v].step # "done" => Live(v)
      BY <2>2, <2>3, MovesOn
    <3>2. Len(job) \in Nat
      BY DEF MachineInv, TypeInv
    <3>3. Busy' \subseteq Busy
      BY <3>1, <3>2, MachineAssumption DEF Busy, Workers, Live
    <3>. QED
      BY <2>2, <2>3, <3>3, IdleFits
  <2>. QED
    BY <2>2, <2>3, CommitFits
<1>4. CASE \E c \in Companies : Seed(c) \/ Archive(c)
  <2>1. UNCHANGED <<size, phase, job>>
    BY <1>4 DEF Seed, Archive
  <2>. QED
    BY <2>1 DEF SizeFits, Bound, Busy
<1>. QED
  BY <1>1, <1>2, <1>3, <1>4 DEF Next

\* For any number of workers, reserve and growth, the database never exceeds
\* its cap by more than the reserves of all workers but one (_storage_preflight).
THEOREM MachineBoundsOvershoot == Spec => []OvershootBounded
<1>1. Init => SizeFits
  BY BoundType DEF Init, SizeFits
<1>2. SizeFits => OvershootBounded
  BY DEF SizeFits, Bound, OvershootBounded
<1>. QED
  BY <1>1, <1>2, SizeStep, MachineKeepsInv, PTL DEF Spec

=============================================================================
