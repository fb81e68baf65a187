---------------------------- MODULE StaleReports ----------------------------
(***************************************************************************)
(* scripts/refresh_stale_core_reports.py: companies whose newest core      *)
(* filing is newer than their newest report card are refreshed by worker   *)
(* threads, each job committing in four stages, while a StorageGate keeps  *)
(* the jobs in progress within the database budget.  Which filing anchors  *)
(* the new card is decided by report_machine._build_report.                *)
(***************************************************************************)
EXTENDS Integers, FiniteSets, FiniteSetsExt

CONSTANTS
    Companies,       \* numbered in the order of their tickers
    WithTicker,      \* those with a row in securities
    Filings,         \* all that may be filed: [company, form, date, accepted]
    NotTimed,        \* accepted of a filing without an acceptance time
    Workers,
    MaxDatabase,     \* budget.max_database_bytes; 0 for none
    MaxGrowth,       \* budget.max_cycle_growth_bytes; 0 for none
    Reserve,         \* storage_worker_reserve_mb
    MaxFaults        \* bound on crashes, failed stages and dying threads

DayLength == 10      \* a day's midnight in the unit of acceptance times

\* The forms that make a company stale, and those that may anchor a card.
StaleForms == {"core", "event", "6-K/A"}
CardForms == {"core", "event"}

ASSUME StaleAssumption ==
    /\ Companies \subseteq Nat
    /\ WithTicker \subseteq Companies
    /\ NotTimed \notin Nat
    /\ Filings \subseteq [company: Companies, form: {"core", "event", "6-K/A", "other"},
                          date: Nat \ {0}, accepted: Nat \cup {NotTimed}]
    /\ MaxDatabase \in Nat
    /\ MaxGrowth \in Nat
    /\ Reserve \in Nat
    /\ MaxFaults \in Nat
    /\ IsFiniteSet(Workers)
    /\ Workers # {}

VARIABLES
    filed,      \* filings imported so far
    cards,      \* filings with a report card
    size,       \* size of the database
    start,      \* its size when the run began
    running,    \* a run is in progress
    queue,      \* jobs not taken: the stale time of each company
    asked,      \* history: the jobs the run began with
    reserved,   \* the gate's reserved bytes
    limited,    \* the gate refused a claim
    worker,     \* per thread: its step, its job, what the job has added
    errors,     \* counters.errors is not 0
    faults

gate == <<start, reserved, limited>>
vars == <<filed, cards, size, gate, running, queue, asked, worker, errors,
          faults>>

\* "unwind": the handler of a failure has itself raised. "died", "leaked": an
\* exception ended the thread, without and with a reserve of the gate.
Steps == {"idle", "facts", "normalize", "statements", "report", "release",
          "unwind", "gone", "died", "leaked"}
Dead == {"died", "leaked"}
Idle == [step |-> "idle", company |-> 0, grown |-> 0]

\* The threads for which the gate holds a reserve: they have a job, or died
\* before they gave the reserve back.
Busy == {w \in Workers : worker[w].step \notin {"idle", "gone", "died"}}

-----------------------------------------------------------------------------
(* What is stale, and what a refresh builds *)

\* coalesce(accepted_at, filing_date)
Time(f) == IF f.accepted = NotTimed THEN DayLength * f.date ELSE f.accepted

Latest(fs) == IF fs = {} THEN 0 ELSE Max({Time(f) : f \in fs})

LatestCore(c) == Latest({f \in filed : f.company = c /\ f.form \in StaleForms})
LatestCard(c) == Latest({f \in cards : f.company = c})

Stale(c) == LatestCore(c) > LatestCard(c)

StaleJobs == [c \in {x \in WithTicker : Stale(x)} |-> LatestCore(c)]

\* "order by filing_date desc, accepted_at desc": PostgreSQL puts nulls first.
NewerThan(f, g) ==
    \/ f.date > g.date
    \/ /\ f.date = g.date
       /\ g.accepted # NotTimed
       /\ f.accepted = NotTimed \/ f.accepted > g.accepted

\* The newest filing that may anchor a card, as a set of at most one.
CardFiling(c) ==
    LET able == {f \in filed : f.company = c /\ f.form \in CardForms}
    IN  {f \in able : \A g \in able : ~NewerThan(g, f)}

TypeOK ==
    /\ filed \subseteq Filings
    /\ cards \subseteq filed
    /\ {size, start, reserved} \subseteq Nat
    /\ running \in BOOLEAN
    /\ limited \in BOOLEAN
    /\ errors \in BOOLEAN
    /\ DOMAIN queue \subseteq Companies
    /\ DOMAIN asked \subseteq Companies
    /\ worker \in [Workers -> [step: Steps, company: Companies \cup {0},
                               grown: 0..Reserve]]
    /\ faults \in 0..MaxFaults

NoJobs == [c \in {} |-> 0]

Init ==
    /\ filed = {}
    /\ cards = {}
    /\ size = 0
    /\ start = 0
    /\ running = FALSE
    /\ queue = NoJobs
    /\ asked = NoJobs
    /\ reserved = 0
    /\ limited = FALSE
    /\ worker = [w \in Workers |-> Idle]
    /\ errors = FALSE
    /\ faults = 0

-----------------------------------------------------------------------------
(* The storage gate *)

Enabled == MaxDatabase > 0 \/ MaxGrowth > 0

\* evaluate_storage_budget with this much reserved.
Allowed(bytes) ==
    /\ MaxDatabase > 0 => size + bytes <= MaxDatabase
    /\ MaxGrowth > 0 => size + bytes - start <= MaxGrowth

\* Mutant of Claim: the reserves of the other threads are not counted.
ClaimAlone ==
    /\ ~Enabled \/ Allowed(Reserve)
    /\ reserved' = IF Enabled THEN reserved + Reserve ELSE reserved
    /\ UNCHANGED limited

Claim ==
    /\ ~Enabled \/ Allowed(reserved + Reserve)
    /\ reserved' = IF Enabled THEN reserved + Reserve ELSE reserved
    /\ UNCHANGED limited

ClaimRefused ==
    /\ Enabled
    /\ ~Allowed(reserved + Reserve)
    /\ limited' = TRUE
    /\ UNCHANGED reserved

Release ==
    reserved' = IF Enabled THEN Max({0, reserved - Reserve}) ELSE reserved

-----------------------------------------------------------------------------
(* The run *)

Fault ==
    /\ faults < MaxFaults
    /\ faults' = faults + 1

\* The importer commits a filing.
Import(f) ==
    /\ f \notin filed
    /\ filed' = filed \cup {f}
    /\ UNCHANGED <<cards, size, gate, running, queue, asked, worker, errors,
                   faults>>

\* A run with nothing stale ends at once.
StartRun ==
    /\ ~running
    /\ StaleJobs # NoJobs
    /\ running' = TRUE
    /\ queue' = StaleJobs
    /\ asked' = StaleJobs
    /\ start' = size
    /\ reserved' = 0
    /\ limited' = FALSE
    /\ errors' = FALSE
    /\ UNCHANGED <<filed, cards, size, worker, faults>>

Finish ==
    /\ running
    /\ \A w \in Workers : worker[w].step \in {"gone"} \cup Dead
    /\ running' = FALSE
    /\ queue' = NoJobs
    /\ worker' = [w \in Workers |-> Idle]
    /\ UNCHANGED <<filed, cards, size, gate, asked, errors, faults>>

Crash ==
    /\ running
    /\ Fault
    /\ running' = FALSE
    /\ queue' = NoJobs
    /\ reserved' = 0
    /\ worker' = [w \in Workers |-> Idle]
    /\ UNCHANGED <<filed, cards, size, start, limited, asked, errors>>

-----------------------------------------------------------------------------
(* The worker threads *)

At(w, step) == running /\ worker[w].step = step

\* The job at the head of the queue: newest filing first, then by ticker.
IsHead(c) ==
    /\ c \in DOMAIN queue
    /\ \A d \in DOMAIN queue :
          \/ queue[c] > queue[d]
          \/ queue[c] = queue[d] /\ c <= d

others == <<filed, start, running, asked>>

\* The gate admits the thread, and the head of the queue is its job.
PopJob(w, c, next) ==
    /\ At(w, "idle")
    /\ IsHead(c)
    /\ Claim
    /\ queue' = [d \in DOMAIN queue \ {c} |-> queue[d]]
    /\ worker' = [worker EXCEPT ![w] = [step |-> next, company |-> c,
                                        grown |-> 0]]
    /\ UNCHANGED <<others, cards, size, errors>>

Take(w, c) ==
    /\ PopJob(w, c, "facts")
    /\ UNCHANGED faults

\* Mutant of Leave: a thread that is refused its reserve asks again.
LeaveWhenDrained(w) ==
    /\ At(w, "idle")
    /\ \/ queue = NoJobs /\ UNCHANGED <<reserved, limited>>
       \/ queue # NoJobs /\ ClaimRefused
    /\ worker' = [worker EXCEPT ![w].step = IF queue = NoJobs THEN "gone" ELSE "idle"]
    /\ UNCHANGED <<others, cards, size, queue, errors, faults>>

Leave(w) ==
    /\ At(w, "idle")
    /\ \/ queue = NoJobs /\ UNCHANGED <<reserved, limited>>
       \/ queue # NoJobs /\ ClaimRefused
    /\ worker' = [worker EXCEPT ![w].step = "gone"]
    /\ UNCHANGED <<others, cards, size, queue, errors, faults>>

\* One stage commits, adding n to the database; a job adds at most Reserve.
Commit(w, n, next) ==
    /\ worker[w].grown + n <= Reserve
    /\ size' = size + n
    /\ worker' = [worker EXCEPT ![w].step = next, ![w].grown = @ + n]
    /\ UNCHANGED <<others, queue, reserved, limited, errors, faults>>

RefreshFacts(w, n) ==
    /\ At(w, "facts")
    /\ Commit(w, n, "normalize")
    /\ UNCHANGED cards

\* The SEC has no facts for the company (404): the job goes on without.
NoFacts(w) ==
    /\ At(w, "facts")
    /\ worker' = [worker EXCEPT ![w].step = "normalize"]
    /\ UNCHANGED <<others, cards, size, queue, reserved, limited, errors,
                   faults>>

Normalize(w, n) ==
    /\ At(w, "normalize")
    /\ Commit(w, n, "statements")
    /\ UNCHANGED cards

BuildStatements(w, n) ==
    /\ At(w, "statements")
    /\ Commit(w, n, "report")
    /\ UNCHANGED cards

\* The report is rebuilt; the card of its anchor filing is made unless it
\* exists, in the same transaction.
BuildReport(w, n) ==
    /\ At(w, "report")
    /\ Commit(w, n, "release")
    /\ cards' = cards \cup CardFiling(worker[w].company)

\* What a failed job leaves of its stage: normalising commits by filing.
LeaveBehind(w, n) ==
    /\ running
    /\ worker[w].step \in {"facts", "normalize", "statements", "report"}
    /\ n # 0 => worker[w].step = "normalize"
    /\ worker[w].grown + n <= Reserve
    /\ Fault
    /\ size' = size + n
    /\ UNCHANGED <<others, cards, queue, reserved, limited>>

\* Mutant of StageFails: a failed job is not counted.
StageFailsSilently(w, n) ==
    /\ LeaveBehind(w, n)
    /\ errors' = errors
    /\ worker' = [worker EXCEPT ![w].step = "release", ![w].grown = @ + n]

\* A stage raises; its own transaction rolls back, those before it stand.
StageFails(w, n) ==
    /\ LeaveBehind(w, n)
    /\ errors' = TRUE
    /\ worker' = [worker EXCEPT ![w].step = "release", ![w].grown = @ + n]

EndJob(w) ==
    /\ At(w, "release")
    /\ Release
    /\ worker' = [worker EXCEPT ![w] = Idle]
    /\ UNCHANGED <<others, cards, size, queue, limited, errors, faults>>

-----------------------------------------------------------------------------
(* Exceptions outside the try of a job: they end the thread, uncounted *)

\* A client's constructor raises; or the gate does, on the size of the
\* database or of the disk: the job stays queued.
Dies(w) ==
    /\ At(w, "idle")
    /\ Fault
    /\ worker' = [worker EXCEPT ![w].step = "died"]
    /\ UNCHANGED <<others, cards, size, queue, reserved, limited, errors>>

\* session_factory raises: the job is off the queue and its reserve taken.
DiesClaimed(w, c) ==
    /\ PopJob(w, c, "leaked")
    /\ Fault

\* The handler's rollback raises before it counts the failure ...
RollbackFails(w, n) ==
    /\ LeaveBehind(w, n)
    /\ errors' = errors
    /\ worker' = [worker EXCEPT ![w].step = "unwind", ![w].grown = @ + n]

\* ... and the thread ends when its finally clause has released.
Unwind(w) ==
    /\ At(w, "unwind")
    /\ Release
    /\ worker' = [worker EXCEPT ![w].step = "died", ![w].grown = 0]
    /\ UNCHANGED <<others, cards, size, queue, limited, errors, faults>>

\* session.close raises, before the release.
CloseFails(w) ==
    /\ At(w, "release") \/ At(w, "unwind")
    /\ Fault
    /\ worker' = [worker EXCEPT ![w].step = "leaked"]
    /\ UNCHANGED <<others, cards, size, queue, reserved, limited, errors>>

ThreadDies(w) ==
    \/ Dies(w)
    \/ \E c \in Companies : DiesClaimed(w, c)
    \/ \E n \in 0..Reserve : RollbackFails(w, n)
    \/ CloseFails(w)

WorkerProgress(w) ==
    \/ \E c \in Companies : Take(w, c)
    \/ Leave(w)
    \/ NoFacts(w)
    \/ \E n \in 0..Reserve : \/ RefreshFacts(w, n)
                             \/ Normalize(w, n)
                             \/ BuildStatements(w, n)
                             \/ BuildReport(w, n)
    \/ EndJob(w)
    \/ Unwind(w)

Next ==
    \/ \E f \in Filings : Import(f)
    \/ StartRun \/ Finish \/ Crash
    \/ \E w \in Workers : \/ WorkerProgress(w)
                          \/ \E n \in 0..Reserve : StageFails(w, n)
                          \/ ThreadDies(w)

Spec == Init /\ [][Next]_vars

\* The scheduler runs the script in every cycle and the threads are run.
FairSpec ==
    /\ Spec
    /\ WF_vars(StartRun \/ Finish)
    /\ \A w \in Workers : WF_vars(WorkerProgress(w))

-----------------------------------------------------------------------------
(* Properties *)

\* However many jobs overlap, and wherever they fail, neither the database
\* nor the growth of one run passes its budget.
WithinBudget ==
    /\ MaxDatabase > 0 => size <= MaxDatabase
    /\ MaxGrowth > 0 /\ running => size - start <= MaxGrowth

\* The gate holds a reserve for each job in progress and for each thread that
\* died with one: none leaks with a failed stage, none is given back twice.
ReserveMatchesJobs ==
    Enabled /\ running => reserved = Reserve * Cardinality(Busy)

\* A thread died with the company's job.
DiedWith(c) ==
    \E w \in Workers : worker[w].company = c /\ worker[w].step \in Dead

\* A run that counted no error and met no budget leaves every company it was
\* asked to refresh as fresh as when it asked, but for those a thread died
\* with, as long as one thread lived: no job is lost between the queue, the
\* threads and the card in another way.
CompleteRunRefreshes ==
    [][running /\ ~running' /\ faults' = faults /\ ~errors /\ ~limited
          => \/ \A w \in Workers : worker[w].step \in Dead
             \/ \A c \in DOMAIN asked :
                   LatestCard(c) >= asked[c] \/ DiedWith(c)]_vars

\* Whatever becomes stale is refreshed by some run: the runs come to find
\* remaining_stale=0.
NothingStaleInTheEnd ==
    (\E c \in Companies : Stale(c)) ~> (\A c \in Companies : ~Stale(c))
=============================================================================
