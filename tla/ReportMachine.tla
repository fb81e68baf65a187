---------------------------- MODULE ReportMachine ----------------------------
(***************************************************************************)
(* research/report_machine.py: the unattended loop of the API process.     *)
(* Each cycle reads the state of every company, gives each worker thread   *)
(* the most urgent company of its lane that no earlier worker was given,   *)
(* runs the threads and joins them.  A lane takes a company one stage up:  *)
(* filings, companyfacts, canonical, statements, report-build.             *)
(*                                                                         *)
(* Companies stands for the operating companies with a ticker: the others  *)
(* are passed over by every lane and by the backlog count.                 *)
(***************************************************************************)
EXTENDS Naturals, FiniteSets, Sequences

CONSTANTS
    Companies,       \* numbered in the order of their tickers
    Unlisted,        \* the SEC knows no such ticker: filings never come
    NoFacts,         \* the SEC answers 404 for their facts
    Unmapped,        \* none of their facts maps to a canonical concept
    Unstated,        \* no statement can be built from their facts
    MachineWorkers,  \* number of worker threads
    MaxDatabase,     \* budget.max_database_bytes; 0 for none
    Reserve,         \* storage_worker_reserve_mb
    Growth,          \* what a commit may add to the database
    Archiving,       \* raw facts may be moved to an archive
    MaxFaults        \* bound on crashes and failed lanes

Lanes == {"filings", "companyfacts", "canonical", "statements",
          "report-build", "report-refresh", "strategy"}

\* _BASE_WORKER_ROLES: the lanes of each worker, the primary one first.
BaseWorkerRoles ==
    <<<<"filings", "report-build", "report-refresh">>,
      <<"filings", "report-build", "report-refresh">>,
      <<"companyfacts", "canonical", "report-build">>,
      <<"canonical", "statements", "report-build">>,
      <<"statements", "report-build", "report-refresh">>,
      <<"report-build", "report-refresh", "strategy">>,
      <<"report-build", "report-refresh", "strategy">>,
      <<"strategy", "report-refresh", "report-build">>>>

Workers == 1..MachineWorkers

\* Workers past the eighth build reports.
LanesOf(w) == IF w <= 8 THEN BaseWorkerRoles[w] ELSE BaseWorkerRoles[7]

ASSUME MachineAssumption ==
    /\ Companies \subseteq Nat \ {0}
    /\ IsFiniteSet(Companies)
    /\ {Unlisted, NoFacts, Unmapped, Unstated} \subseteq SUBSET Companies
    /\ MachineWorkers \in Nat \ {0}
    /\ MaxDatabase \in Nat
    /\ Reserve \in Nat
    /\ Growth \subseteq 0..Reserve
    /\ Archiving \in BOOLEAN
    /\ MaxFaults \in Nat

VARIABLES
    filings,     \* companies with filings in the database
    raw,         \* ... with raw facts
    canonical,   \* ... with canonical facts
    statements,  \* ... with statement snapshots
    stage,       \* pipeline_stage of each company's report, or "none"
    updated,     \* the place of each report by its update time; 0 without a report
    size,        \* size of the database
    blocked,     \* storage_blocked
    phase,       \* where the machine's thread is
    job,         \* in the order of the workers: what each was given this cycle
    faults

data == <<filings, raw, canonical, statements>>
reports == <<stage, updated>>
vars == <<data, reports, size, blocked, phase, job, faults>>

\* A build passes through "reports-ready" and never commits it.
Stages == {"none", "seeded", "parked", "reports-ready", "unvalidated",
           "archive-dependent-incomplete"}

Built == {"unvalidated", "archive-dependent-incomplete"}

NoJob == [lane |-> "none", company |-> 0, step |-> "done"]

Init ==
    /\ filings = {}
    /\ raw = {}
    /\ canonical = {}
    /\ statements = {}
    /\ stage = [c \in Companies |-> "none"]
    /\ updated = [c \in Companies |-> 0]
    /\ size = 0
    /\ blocked = FALSE
    /\ phase = "off"
    /\ job = <<>>
    /\ faults = 0

Fault ==
    /\ faults < MaxFaults
    /\ faults' = faults + 1

-----------------------------------------------------------------------------
(* Which company each worker is given *)

\* Mutant of Eligible: a parked company is taken up again.
EligibleParked(lane, c) ==
    \/ lane = "filings"
    \/ lane = "companyfacts" /\ c \in filings /\ c \notin raw
    \/ lane = "canonical" /\ c \in raw /\ c \notin canonical
    \/ lane = "statements" /\ c \in canonical /\ c \notin statements
    \/ lane = "report-build" /\ c \in canonical /\ stage[c] # "reports-ready"
    \/ lane = "report-refresh" /\ c \in canonical /\ stage[c] = "reports-ready"
    \/ lane = "strategy" /\ stage[c] = "reports-ready"

\* Every company that is not parked is a candidate of the filings lane.
Eligible(lane, c) ==
    /\ stage[c] # "parked"
    /\ \/ lane = "filings"
       \/ lane = "companyfacts" /\ c \in filings /\ c \notin raw
       \/ lane = "canonical" /\ c \in raw /\ c \notin canonical
       \/ lane = "statements" /\ c \in canonical /\ c \notin statements
       \/ /\ lane = "report-build"
          /\ c \in canonical
          /\ stage[c] # "reports-ready"
       \/ /\ lane = "report-refresh"
          /\ c \in canonical
          /\ stage[c] = "reports-ready"
       \/ lane = "strategy" /\ stage[c] = "reports-ready"

Bit(b) == IF b THEN 1 ELSE 0

\* Mutant of Rank: filings are refreshed by the age of the report alone.
RankByAge(lane, c) ==
    CASE lane \in {"filings", "report-build"} ->
            <<0, Bit(stage[c] # "none"), updated[c], c>>
      [] OTHER -> <<0, 0, updated[c], c>>

\* _lane_sort_key: what a lane takes first.
Rank(lane, c) ==
    CASE lane = "filings" ->
            <<Bit(c \in filings), Bit(stage[c] # "none"), updated[c], c>>
      [] lane = "report-build" -> <<0, Bit(stage[c] # "none"), updated[c], c>>
      [] OTHER -> <<0, 0, updated[c], c>>

Sooner(r, s) ==
    \E i \in 1..4 : r[i] < s[i] /\ \A j \in 1..(i - 1) : r[j] = s[j]

\* The job of a worker when the reserved companies are taken.
Pick(w, reserved) ==
    LET able(lane) == {c \in Companies \ reserved : Eligible(lane, c)}
        open == {i \in DOMAIN LanesOf(w) : able(LanesOf(w)[i]) # {}}
    IN  IF open = {} THEN NoJob
        ELSE LET lane == LanesOf(w)[CHOOSE i \in open : \A j \in open : i <= j]
             IN  [lane |-> lane, step |-> "start",
                  company |-> CHOOSE c \in able(lane) :
                                 \A d \in able(lane) \ {c} :
                                    Sooner(Rank(lane, c), Rank(lane, d))]

-----------------------------------------------------------------------------
(* The machine's thread *)

\* The API process starts and starts its machine.
StartMachine ==
    /\ phase = "off"
    /\ phase' = "idle"
    /\ blocked' = FALSE
    /\ UNCHANGED <<data, reports, size, job, faults>>

\* The process dies; its threads with it.
Crash ==
    /\ phase # "off"
    /\ Fault
    /\ phase' = "off"
    /\ job' = <<>>
    /\ UNCHANGED <<data, reports, size, blocked>>

\* Mutant of StorageAllowed: the preflight reserves nothing.
StorageAllowedBare == MaxDatabase > 0 => size <= MaxDatabase

\* _storage_preflight: one reserve for the whole cycle.
StorageAllowed == MaxDatabase > 0 => size + Reserve <= MaxDatabase

BlockedCycle ==
    /\ phase = "idle"
    /\ ~StorageAllowed
    /\ blocked' = TRUE
    /\ UNCHANGED <<data, reports, size, phase, job, faults>>

BeginCycle ==
    /\ phase = "idle"
    /\ StorageAllowed
    /\ blocked' = FALSE
    /\ phase' = "assign"
    /\ job' = <<>>
    /\ UNCHANGED <<data, reports, size, faults>>

Given == {job[w].company : w \in DOMAIN job}

\* Mutant of Assign: a company given to one worker is free for the next.
AssignShared ==
    /\ phase = "assign"
    /\ job' = Append(job, Pick(Len(job) + 1, {}))
    /\ phase' = IF Len(job) + 1 = MachineWorkers THEN "work" ELSE "assign"
    /\ UNCHANGED <<data, reports, size, blocked, faults>>

\* _load_role_assignments: the workers are served in their order, from one
\* reading of the database (nothing writes to it in this phase).
Assign ==
    /\ phase = "assign"
    /\ job' = Append(job, Pick(Len(job) + 1, Given))
    /\ phase' = IF Len(job) + 1 = MachineWorkers THEN "work" ELSE "assign"
    /\ UNCHANGED <<data, reports, size, blocked, faults>>

EndCycle ==
    /\ phase = "work"
    /\ \A w \in Workers : job[w].step = "done"
    /\ phase' = "idle"
    /\ job' = <<>>
    /\ UNCHANGED <<data, reports, size, blocked, faults>>

-----------------------------------------------------------------------------
(* What the lanes do to a company *)

At(w, step) == phase = "work" /\ job[w].step = step

Goto(w, step) == job' = [job EXCEPT ![w].step = step]

\* A transaction of a lane commits.
Grow == \E n \in Growth : size' = size + n

same == <<blocked, phase, faults>>

\* The places once c's report is the last that was updated.
Touched(c) ==
    [d \in Companies |->
        IF d = c THEN Cardinality({e \in Companies : updated[e] > 0} \cup {c})
        ELSE IF updated[c] > 0 /\ updated[d] > updated[c] THEN updated[d] - 1
        ELSE updated[d]]

\* The row of c's report is written; its update time moves on if any value
\* of the row changed.
SetStage(c, s) ==
    /\ stage' = [stage EXCEPT ![c] = s]
    /\ \/ updated' = Touched(c)
       \/ stage[c] = s /\ updated' = updated

\* _build_partial_report with a terminal reason.
PartialReport(c) ==
    SetStage(c, IF c \in canonical /\ c \notin raw
                THEN "archive-dependent-incomplete" ELSE "parked")

\* _build_report ends with the stage set anew.
BuildReport(c) ==
    SetStage(c, IF c \in raw THEN "unvalidated"
                ELSE "archive-dependent-incomplete")

\* The handler of the lane finds nothing to do.
Skip(w) ==
    /\ Goto(w, "done")
    /\ UNCHANGED <<data, reports, size>>

RefreshCompanyFilings(w) ==
    LET c == job[w].company IN
    /\ At(w, "start")
    /\ job[w].lane = "filings"
    /\ \/ c \in Unlisted /\ Skip(w)
       \/ /\ c \notin Unlisted
          /\ filings' = filings \cup {c}
          /\ Grow
          /\ Goto(w, "done")
          /\ UNCHANGED <<raw, canonical, statements, reports>>
    /\ UNCHANGED same

\* A 404 ends in a parked report, in a transaction of its own.
RefreshCompanyfacts(w) ==
    LET c == job[w].company IN
    /\ At(w, "start")
    /\ job[w].lane = "companyfacts"
    /\ \/ c \notin filings /\ Skip(w)
       \/ /\ c \in filings \cap NoFacts
          /\ Goto(w, "park")
          /\ UNCHANGED <<data, reports, size>>
       \/ /\ c \in filings \ NoFacts
          /\ raw' = raw \cup {c}
          /\ Grow
          /\ Goto(w, "done")
          /\ UNCHANGED <<filings, canonical, statements, reports>>
    /\ UNCHANGED same

\* A company whose canonical count is still 0 after the commit is parked.
NormalizeCompanyLane(w) ==
    LET c == job[w].company IN
    /\ At(w, "start")
    /\ job[w].lane = "canonical"
    /\ \/ (c \notin raw \/ c \in canonical) /\ Skip(w)
       \/ /\ c \in (raw \ canonical) \cap Unmapped
          /\ Goto(w, "park")
          /\ UNCHANGED <<data, reports, size>>
       \/ /\ c \in (raw \ canonical) \ Unmapped
          /\ canonical' = canonical \cup {c}
          /\ Grow
          /\ Goto(w, "done")
          /\ UNCHANGED <<filings, raw, statements, reports>>
    /\ UNCHANGED same

\* ingest_filing swallows a commit that fails: the lane goes on to count,
\* finds nothing and parks the company.
NormalizeSwallowsError(w) ==
    LET c == job[w].company IN
    /\ At(w, "start")
    /\ job[w].lane = "canonical"
    /\ c \in raw \ canonical
    /\ Fault
    /\ Goto(w, "park")
    /\ UNCHANGED <<data, reports, size, blocked, phase>>

Park(w) ==
    /\ At(w, "park")
    /\ PartialReport(job[w].company)
    /\ Grow
    /\ Goto(w, "done")
    /\ UNCHANGED <<data, same>>

BuildStatementsLane(w) ==
    LET c == job[w].company IN
    /\ At(w, "start")
    /\ job[w].lane = "statements"
    /\ \/ (c \notin canonical \/ c \in statements \cup Unstated) /\ Skip(w)
       \/ /\ c \in canonical \ (statements \cup Unstated)
          /\ statements' = statements \cup {c}
          /\ Grow
          /\ Goto(w, "done")
          /\ UNCHANGED <<filings, raw, canonical, reports>>
    /\ UNCHANGED same

\* Canonical facts are never deleted: the branch of the handler for a company
\* without them is not reached.
BuildReportLane(w) ==
    LET c == job[w].company IN
    /\ At(w, "start")
    /\ job[w].lane \in {"report-build", "report-refresh"}
    /\ c \in canonical
    /\ BuildReport(c)
    /\ Grow
    /\ Goto(w, "done")
    /\ UNCHANGED <<data, same>>

\* A lane raises; what it had not committed is rolled back.
LaneFails(w) ==
    /\ phase = "work"
    /\ job[w].step # "done"
    /\ Fault
    /\ Goto(w, "done")
    /\ UNCHANGED <<data, reports, size, blocked, phase>>

Work(w) ==
    \/ RefreshCompanyFilings(w)
    \/ RefreshCompanyfacts(w)
    \/ NormalizeCompanyLane(w)
    \/ Park(w)
    \/ BuildStatementsLane(w)
    \/ BuildReportLane(w)

-----------------------------------------------------------------------------
(* Other processes *)

\* scripts/seed_missing_partial_reports.py: the next company without a report,
\* in the order of the tickers, is given one.
Seed(c) ==
    /\ phase # "assign"
    /\ stage[c] = "none"
    /\ \A d \in Companies : d < c => stage[d] # "none"
    /\ stage' = [stage EXCEPT ![c] = "seeded"]
    /\ updated' = Touched(c)
    /\ UNCHANGED <<data, size, blocked, phase, job, faults>>

\* The raw facts of a company are moved to an archive.
Archive(c) ==
    /\ Archiving
    /\ phase # "assign"
    /\ c \in raw \cap canonical
    /\ raw' = raw \ {c}
    /\ UNCHANGED <<filings, canonical, statements, reports, size, blocked,
                   phase, job, faults>>

Cycle == StartMachine \/ BlockedCycle \/ BeginCycle \/ Assign \/ EndCycle

Next ==
    \/ Cycle
    \/ Crash
    \/ \E w \in Workers : Work(w) \/ NormalizeSwallowsError(w) \/ LaneFails(w)
    \/ \E c \in Companies : Seed(c) \/ Archive(c)

Spec == Init /\ [][Next]_vars

\* The row of c's report changes with the build, as it does on a new day.
BuildMoves(c) ==
    \E w \in Workers : /\ BuildReportLane(w)
                      /\ job[w].company = c
                      /\ updated' # updated

\* The API runs its machine, and the system the machine's threads.  A cycle
\* waits for each of them, so fairness to all of them together is enough.  A
\* report carries the date of its build: a company built again and again is
\* built on a new day again and again.
FairSpec ==
    /\ Spec
    /\ WF_vars(Cycle \/ \E w \in Workers : Work(w))
    /\ \A c \in Companies : SF_vars(BuildMoves(c))

-----------------------------------------------------------------------------
(* Properties *)

\* A company is parked for want of canonical facts and built only from them,
\* though the count that decides and the report that follows from it are
\* transactions apart, with other workers at other companies.
StageMatchesData ==
    \A c \in Companies :
        /\ stage[c] = "parked" => c \notin canonical
        /\ stage[c] \in Built => c \in canonical

\* The loop leaves a parked company alone, whatever it had assigned.
ParkedIsLeftAlone ==
    [][\A c \in Companies :
          stage[c] = "parked" =>
              /\ stage'[c] = "parked"
              /\ c \in raw' <=> c \in raw
              /\ c \in canonical' <=> c \in canonical]_vars

\* The cycle is admitted on one reserve; the other workers may together add
\* theirs on top of the cap, and no later cycle goes beyond that.
OvershootBounded ==
    MaxDatabase > 0 => size <= MaxDatabase + (MachineWorkers - 1) * Reserve

Finished(c) == stage[c] \in Built \cup {"parked"}

FilingsWorkers == {w \in Workers : LanesOf(w)[1] = "filings"}

\* In the end every company has been parked or built, but for as many as the
\* filings workers hold in every cycle.
AllButHeldFinish ==
    <>[](Cardinality({c \in Companies : ~Finished(c)})
            <= Cardinality(FilingsWorkers))

\* A report seeded for coverage is upgraded by the machine.
SeededGetsUpgraded ==
    \A c \in Companies : stage[c] = "seeded" ~> stage[c] # "seeded"
=============================================================================
