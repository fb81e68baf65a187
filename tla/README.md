# Formal model of the Accountant terminal

The Accountant terminal (`src/src/accountant`, with its operations scripts in
`src/scripts`) keeps a universe of companies, imports their SEC filings and XBRL
facts, normalises them into statements, runs forensic and valuation engines over
them and publishes report cards, a buy board and paper books.  It is
research-only: it places no orders.  This directory holds TLA+ modules translated
from that code, TLC configurations that check them on small instances, and TLAPS
proofs of the results that matter most.

## Inventory

The parts that keep state and run concurrently, in the order in which a filing
passes through them:

| Part | Code | State | Operations | What makes it hard |
|---|---|---|---|---|
| Discovery importer | `scripts/import_stale_sec_filings.py`, `ingest/filings.py` | queue, expected filings, filings table | poll an index day, plan, take a company, fetch shards, commit under the storage cap, verify, mark done | worker threads, crash between commit and checkpoint, failed polls, pauses, a second writer |
| Discovery checkpoint | `sec/discovery_state.py` | per day: ok, attempts, pending, done | choose days, save atomically, drop settled days | outages, closed days, retries, what a save may forget |
| Stale refresh | `scripts/refresh_stale_core_reports.py` | queue, storage gate | list stale companies, claim, refresh facts, normalise, build statements and report, release | gate shared by threads, failures at every stage, filings that arrive meanwhile |
| Research machine | `research/report_machine.py` | per company: filings, raw facts, canonical facts, statements, report stage and age | assign lanes, run them in threads, park, preflight storage | assignment made before use, starvation, swallowed errors, crash in mid-lane |
| Scheduler | `scripts/run_vps_scheduler.sh`, `run_accountant_automation.py`, `vps_readiness_check.py`, `ops/polling_schedule.py` | cycle status file, summaries | sleep to a window, run the steps, classify, record | helper failure, crash between steps, evidence that is stale |
| Backups | `scripts/backup_postgres.sh`, `verify_backup_restore.sh` | dumps and sidecars, status file | expire, dump, rename, checksum, record | a kill between two of these steps |
| SEC client | `sec/client.py`, `sec/rate_limit.py` | last request time | wait, request, back off, retry | one limiter under many threads |
| Write guard and its threads | `db/session.py`, `research/cache_warmer.py`, `research/buy_board.py` | one re-entrant lock | take, time out, commit | a transaction open outside the guard |
| Report cards | `research/report_cards.py` | immutable cards with links to prior and restated ones | persist once for a filing | order of refreshes against order of filings |
| Paper book | `research/paper_book.py` | positions of a named book | launch | launching twice |
| HTTP API | `api/app.py` | three caches with refresh flags | serve, refresh in the background | flags cleared on every path, a slow count that ends after a later one |
| Facts | `ingest/`, `financial/snapshot_service.py`, `analysis/point_in_time_engine.py` | filings, raw facts with a lineage, canonical facts, statement snapshots | link, store, map, normalise filing by filing, build, resolve as of a day | order of arrival against order of filing, a swallowed commit, two normalisers |
| Packet gate | `research/packet_acceptance.py`, `operating_mode.py` | the newest card and report of a company | accept, refuse with reasons | age of a scoring against age of a filing |
| Text signals | `research/filing_signal_engine.py` | a cache of texts, as old as the process | four bundles of signals for one report | a text that fails to come between two bundles |
| Catch-up and repair scripts | `scripts/catch_up_missing_reports*.py`, `run_second_sweep.py`, `finalize_remaining_backlog.py`, `backfill_report_cards.py`, `refresh_all_report_scores.py` | rows loaded once, queues of workers | fetch, normalise, build, park, reset cards | rows older than the database, two scripts at the same company |

The rest keeps no state: the calculators (`calculations/`), the valuation and
analysis engines (`valuation/`, `analysis/`), the factors, the routing, blockers,
grade and classification (`research/`), the mapping of facts to concepts
(`ingest/canonical_mapper.py`, `taxonomy/`), the EDGAR calendar and the storage
budget (`ops/`).  What can go wrong in them is a relation between two answers:
two implementations of one figure, a figure before and after it is restated.

How they interact: the scheduler runs the importer and then the refresh as
processes of one cycle; the API process runs the research machine, the cache
warmer and the buy board as threads; the repair scripts are started by hand.  All
of them meet in one database, and nowhere else: the importer and the machine
insert filings into the same table, the refresh, the machine and the scripts
normalise the same companies and write the same report rows, and the storage
budget is read by each of them on its own.

What makes each part correct:

- importer: no published filing is lost, none is marked done before it is stored,
  exit status 0 means that nothing is outstanding, the storage cap holds;
- checkpoint: no filing day is passed over and no owed day dropped;
- refresh: the budgets hold, no stage leaks its reserve, a run that counts no error
  refreshed all it was asked to but what its threads died with, and nothing stays
  stale;
- machine: a company is in one lane at a time, parked and built companies have
  the data that says so, and every company is finished in the end;
- scheduler: a status that reads as complete is evidence of a complete cycle;
- backups: the newest verified archives are never expired;
- SEC client: requests of one client keep their distance;
- board: a candidate is active only on a validated report, its first price stays;
- facts: a normalisation that reports no error is complete, what was known on a
  day stays what was known on it, statements never go back to an older year;
- cards: until it is deleted a card stays what it was entered on, and only a new card
  moves a company on;
- engines: two implementations agree, and worse figures never read as better ones;
- repair scripts: what a script has finished is complete whatever runs beside it.

## Modules

| Module | Models | Extended by |
|---|---|---|
| `DiscoveryLedger` | what discovery promises: rows become owed, are stored, are settled only once stored, and never forgotten | instantiated by `DiscoveryImport` |
| `DiscoveryImport` | the importer with its checkpoint, threads, faults and storage cap | `MCDiscoveryImport`, `DiscoveryImportProofs` |
| `StaleReports` | the stale refresh, its queue and storage gate | `MCStaleReports`, `StaleReportsProofs` |
| `ReportMachine` | the research machine: assignment, lanes, parking, storage preflight | `MCReportMachine`, `ReportMachineProofs` |
| `Scheduler` | the loop that runs cycles, the status file, what readiness makes of it | `MCProcess`, `SchedulerProofs` |
| `DiscoveryDates` | the days a run polls and the entries a save keeps | `MCProcess`, `SchedulerProofs` |
| `SecClient` | threads that share a client: lock, interval, attempts, backoff | `MCProcess`, `SchedulerProofs` |
| `ApiCaches` | the caches of the API, in memory and on disk | `MCProcess`, `WriterProofs` |
| `Backups` | retention, dumps with sidecars, status, restore drill, readiness | `MCProcess`, `BackupsProofs` |
| `Facts` | one company's filings, raw and canonical facts, snapshots, point in time | `MCProcess`, `ResearchProofs` |
| `BuyBoard` | the board's rows under the machine, the warmer and the refreshes, around the write guard | `MCProcess`, `WriterProofs` |
| `Repairs` | the catch-up and repair scripts on one database | `MCProcess`, `MCRepairs`, `WriterProofs` |
| `ReportCards` | cards of filings, timeline, paper book, packet gate | `MCResearch`, `ResearchProofs` |
| `Evidence` | the bundles of text signals of one scoring over the cache of texts | `MCResearch`, `ResearchProofs` |
| `Figures` | figures that may be missing, and ratios of them | the four below |
| `Calculations` | the calculators, both debts and dilutions, the allocation ledger | `MCResearch`, `AnalysisProofs` |
| `Valuations` | discounted cash flow and its inversion, cost of capital, credit, capital structure, bear case, special situations | `MCResearch`, `AnalysisProofs` |
| `PeerAnalysis` | forensic rules, twin books, peer statistics, anomalies | `MCResearch`, `AnalysisProofs` |
| `FactorPack` | selection of safe facts, factors, eligibility for the portfolio | `MCResearch`, `AnalysisProofs` |
| `Grades` | route, blockers, grade, position, classification, data tier | `MCResearch`, `AnalysisProofs` |

`MCProcess` and `MCResearch` hold several components each.  These keep no state in
common as they are modelled, so that interleaving them would multiply the states
and show nothing: `turn` names the one that moves, and the others stay at their
start.  What two components do to one table is modelled inside a module (the
second writer of `DiscoveryImport`, two normalisers in `Facts`, three threads in
`BuyBoard`, all scripts in `Repairs`).

The `MC...` modules define the values that a `.cfg` cannot write down.  A
definition whose comment says "Mutant of" is a plausible mistake in the
definition after it; no specification uses one.  `PROJECT.json` names, for each
property, the mutant that breaks it.  Tables of thresholds are chains of `IF`, as
the code's `elif` chains are; the arms of a `CASE` exclude one another, since of
two that hold the language lets either be taken.

### DiscoveryImport

`disk` and `mem` are the checkpoint file and `state.data`; an entry's `pending`
and `done` maps are sets of index rows, `ok` and `days` sets of days.  `db` holds
filings under their company, `durable` those a loss of power leaves (equal to
`db` when `DurableCommits`).  The main thread is `Start`, `BeginDay` and
`PollDay` (the two saves around a poll, with the poll between them), `PollFails`,
`Plan` and `Finish`.  A worker is `Take`, `Check` (what is already covered),
`Fetch`, `Admit` and `Commit` (one critical section of `commit_lock`),
`Verify` (the coverage is read back) and `Complete`, which saves the checkpoint
before it reports.  `Drop` is the `except` clause: `FetchFails`, `CommitFails`,
`CompleteUnsaved` and the refusal of `Admit` end in it.  `IngestElsewhere` is the
API's machine inserting filings of a company; `Crash` and `LosePower` may come at
any step.  Which company is tried next is left to a choice, which covers every
order the attempt counters could give; day selection is `DiscoveryDates`.

The refinement to `DiscoveryLedger` maps `owed` to `disk.pending`, `settled` to
`disk.done` and `stored` to `db`.

### DiscoveryDates

Days are integers; `FilingDay` is a parameter, so that weekends and holidays are
one.  `StartRun` computes `Dates` as `DiscoveryState.dates` does, with the
overlap, the floor and the ten least-attempted failed days; `PollDay` and
`DieInPoll` save after each poll, and every save drops settled days older than
the history.  `DayPasses` moves the calendar, also in the middle of a run, and
bounds by `MaxOutage` how long the scheduler stays without a complete run.
`FilingDaysRecur` assumes that filing days do not end before the calendar does, so
that an overlap of so many filing days can be counted back.

### StaleReports

A filing has a company, a form and a time; a card is a filing a report was
anchored to.  `StaleJobs` is the SQL of `_load_stale_jobs`, `CardFiling` the
choice of `_latest_report_card_filing`.  `Take` is the claim and the `popleft`
under one lock, the stages of `_worker` are one action each, `StageFails` is the
`except` clause at any of them (a part of the facts may have been committed), and
`EndJob` is the `finally` clause.  `Import` adds filings while a run goes on;
`Crash` ends a run with its gate.  What raises outside the `try` of a job ends
its thread, and no error is counted: a constructor or the gate itself (`Dies`: the
job stays queued), the session factory (`DiesClaimed`: the job is off the queue and
its reserve is never given back), the rollback of the handler (`RollbackFails`, then
`Unwind`), the close before the release (`CloseFails`).  Only a `print` that fails is
left out.

### ReportMachine

`Companies` are the operating companies with one ticker each, numbered in the
order of their tickers.  Counts are reduced to whether they are zero.  `Assign`
serves the next worker as `_load_role_assignments` does in its loop, through
`Pick` (lanes in their order), `Eligible` (`_lane_candidates`) and `Rank`
(`_lane_sort_key`).  Each handler of a lane is an action; those that commit twice
(`companyfacts` answered by 404, `canonical` with nothing mapped) have a second
step, `Park`.  `updated` orders the reports by `updated_at`; writing a row that
does not change leaves its place.  `NormalizeSwallowsError` is the commit that
`ingest_filing` swallows.  `Seed` is `scripts/seed_missing_partial_reports.py`,
`Archive` what migration 011 allows: raw facts leave, canonical facts stay.

Left out: the strategy and report-refresh lanes have no candidates, since they
ask for a stage no transaction commits (`_build_report` ends by setting
`unvalidated`); the second attempt in `_process_role_assignments` (the handlers
catch their own exceptions); waits and wake-ups, which decide when and not what;
the snapshot shown by the API.  Update times are those of PostgreSQL: on SQLite
they are naive, and a lane that sorts them with the aware default raises.

### Scheduler

`now` counts units of time; `WindowsOf` gives the polling windows of a local day
as instants, so that a day on which the clock changes is one more value.  The
shell loop is `SleepTillWindow`, `StartCycle`, `OpenPartial` (the redirection
empties the partial file), `WriteStatus` or `HelperFails` (the shell's own
record), `InstallStatus` (`mv`) and `Rest`; the child is `RunStep`,
`PauseForStorage`, `PublishSummary`, `Exit`, and `ChildDies` before or after it
has published.  `Die` ends the loop at any step, by a signal or `set -e`;
`Restart` is the service manager.  `RecordCycle` is `record_cycle`, `SchedulerOk`
and `MissedPoll` are `scheduler_status`, read at any moment.  A summary carries
no generation: its name is that of one cycle, so the model drops it with the
cycle.  Time passes in sleeps, in the child and while the loop is down; recording
an outcome takes less than a unit.

### SecClient, ApiCaches, Backups

`SecClient`: a thread takes the lock of its client's limiter (`TakeTurn`), sleeps
what is left of the interval inside it, sends, and on an answer that may pass
backs off and tries again.  `ClientOf` tells which threads share a client.

`ApiCaches`: what is counted is a version of the database.  A request starts a
thread when the flag is down; the thread counts, publishes to memory, writes a
temporary file of one name and moves it; a new process loads the file.

`Backups`: a run chooses what to protect and expire from one listing, dumps,
renames, counts and seals in separate steps, and may be killed between any two;
the daily loop and a run by hand overlap.  A tick is twelve hours.

### Facts and BuyBoard

`Facts` follows one company.  `IngestFilings` and `IngestCompanyFacts` store what
the SEC shows in whatever order; a fact's hash and lineage are the tuples they
are computed from.  `ReadFiling`, `CommitFiling` and `FailCommit` are the loop of
`ingest_filing` for each process that normalises; `BuildSnapshots` writes the
statements of the newest year.  `ResolveRawFacts` is the point-in-time engine.

`BuyBoard`: a session loads rows, changes its copies and writes the columns it
changed at commit.  The machine rebuilds a report and syncs its candidate, the
warmer syncs all once per start, a refresh prices the active ones.  `guard` is the
lock on SQLite, with the two seconds a refresh waits for it.

### Repairs

A company is the kinds of row the database holds of it and the stage of its
report.  Each script loads its rows when it starts (`MissingReports`,
`SweepRows`, `BacklogRows`, `CardRows`, `ScoreRows`) and acts on them later:
`row` in a worker's job is what was loaded, `db` what there is now.  A step is
what one transaction of the script does; `BeginReport` and `CommitReport` are the
reads and the commit of `_build_report`, between which another process may have
inserted the same row (`Inserted`), and then the report is lost (`LoseReport`).
The serial catch-up is `_process_company`, which goes on where a step fails.  The
normalisation of every script, the sweep's included, may leave no canonical fact
without an error: `ingest_filing` swallows a failed commit and the scripts ignore
what it returns.  The sweep then counts the row as blocked.

### ReportCards and Evidence

`ReportCards` persists one card for a filing, links it to the card before it and
to the one it restates, launches a book from the newest cards and accepts
packets.  `ResetReportCards` is what `backfill_report_cards.py` deletes with `--reset`
(all cards) or `--replace-ticker` (one company's); a deleted card stays in `cards`,
the history of what was persisted, and `dropped` says it is gone (`Live`).  A
position keeps the id it was opened with, which a rebuild may give again.

`Evidence` reads texts in the order of `_build_report`; a text may fail at any
request, and the cache remembers what was read.  The cache is one of the process:
other threads that build reports push texts out of it at any time, also in the
middle of a scoring, and `evicted` records which and after how many bundles.

### The engines

`Calculations`, `Valuations`, `PeerAnalysis`, `FactorPack` and `Grades` are
operators over records of figures, with a variable for the figures and actions
that restate, withdraw or revise one of them.  Ratios are pairs of integers or counted in
thousandths.  The bisections compute the price at each place of a grid, as a ratio
of powers and sums, and test in the code's order: the places of which no price is
computed, the comparison with the price given, the stop within a cent.  The numbers
are exact where the code's are floating point.
Their properties compare the answers before and after a revision, or the answers
of two implementations.

## Runs

| Run | Shows | Bounds |
|---|---|---|
| `import_safety` | `DoneIsStored`, `SuccessMeansStored` and the refinement `LedgerSpec` hold | two companies with a joint accession, one undated row, `--limit 1`, a company that may leave the universe, a second writer, two workers (symmetric), two faults |
| `import_budget` | `DatabaseWithinBudget` and `RunsEnd` hold when the cap admits either company and not both | two workers, one fault, commits that a loss of power may undo |
| `import_liveness` | `PublishedGetsStored` and `ImportsComeClean` hold | two companies without joint accessions, two workers, two faults, runs that recur |
| `import_coregistrant` | `ImportsComeClean` fails with a joint accession | one worker, no fault |
| `stale_safety` | `WithinBudget`, `CompleteRunRefreshes` and `NothingStaleInTheEnd` hold | two threads race for the last of both budgets, two faults (failing stages, dying threads, crashes), filings that arrive meanwhile |
| `stale_amended_6k` | `NothingStaleInTheEnd` fails with a 6-K/A | no fault |
| `machine_safety` | `StageMatchesData`, `OvershootBounded`, `ParkedIsLeftAlone` hold | four companies: one without facts, one whose facts do not map, one without a statement; the first four workers, a cap of two reserves, an archive, seeding, one fault |
| `machine_liveness` | `AllButHeldFinish` holds | four companies, one unknown to the SEC, one without facts; three workers, seeding, one fault |
| `machine_seeded` | `SeededGetsUpgraded` fails | three companies, eight workers, no fault |
| `process` | what each component of `MCProcess` leaves behind is never worse than what it says (below) | see below |
| `research` | the answers of the engines, cards and bundles of `MCResearch` stay in their relations (below) | see below |
| `repairs_parked` | `ParkedLacksFacts` fails: the finalizer parks a company that has facts and a report | one company, three scripts |

`process`, by component:

- scheduler: `EvidenceIsReal`, `OkMeansRecent` and `NoFalseAlarm`, over days of
  eight units with two windows, one longer and one shorter than the grace, day 1
  short by a unit; an interval of 1, a greatest age of 12, cycles of two steps
  that last up to two intervals, two faults;
- dates: `NoGap` and `OwedDaysKept`, over weeks of three days, a history of four,
  an overlap of two, three runs at most four days apart;
- SEC client: `RequestsSpaced`, with two threads of one client, an interval of 2,
  two retries;
- caches: `FiguresMoveForward`, with two changes of the database, one bad file and
  one restart;
- backups: `NewestKept` and `OkMeansRecoverable`, with two runs at once over one
  older archive, one to keep, one mishap;
- repairs: `SweptIsComplete`, with any three of the six scripts at a company that
  starts with filings only and may have facts that map, facts that do not, or
  none; one reset of the cards and one error, which may be a commit that the
  normalisation of the sweep or of another script swallows;
- facts: `CleanMeansComplete` and `PastStands`, with an old filing, a new one and
  an amendment of the old year, four facts, three mappings, two normalisers and
  one commit that fails;
- board: `ActiveIsValidated` and `FirstPriceKept`, with two companies, two quotes,
  a rebuild, a review and a restart, on SQLite.  On PostgreSQL the guard is
  nothing, and neither property is claimed.

`research`, by component: `EnginesAgree` and `InputsDecide` over two restatements
of a year's figures; `SearchFindsPrice` and `WeakerNeverRatesBetter` over two
revisions of a firm, with five halvings (20 in the code) over a horizon of one year
(ten), as TLC's numbers have 32 bits, and prices below, within and beyond the grid
(the theorem has none of these bounds); `ConcernsNeverShrink` and `PercentileIsTrue` over eleven
peers (the code ranks from ten) and two findings; `LateFactsDecideNothing` and
`EntryNeedsProfit` over three steps of the factors; `WorseNeverLooksBetter` over
two regradings; `EntriesStayEligible` and `OnlyFilingsMoveOn` over two companies,
one of which amends its annual report, two days and two deleted cards;
`OneReadingPerScoring` over five papers, two losses and one interruption, which is a
restart of the process or an eviction at any moment.

Why the bounds are enough.  Two workers and two companies give every race of the
importer and of the refresh: their threads meet only in the queue, the lock and
the gate, and a third adds no step that differs from the second's.  Two faults
let a failure hit the recovery from another one.  The shared accession, the
undated row and the company that leaves the universe are the three ways in which
a row cannot be covered.  For the dates the history is longer than a week and
shorter than the calendar, so that the overlap, the floor and the dropping of
days all take effect, and `MaxOutage` equals the history.  In the machine, four
companies leave the three or four workers something to choose from after the
filings workers have taken two.  The scheduler's calendar is longer than the
oldest status that readiness accepts, so that a status can be too old, and its
cycles may end on, before and after every edge of a window.  Scripts meet in one
company, and of three scripts one is at its load, one at its work and one between
its read and its commit.  The engines' inputs are chosen on both sides of the
thresholds the code compares them with.

Deadlock is checked except where the system may stop: where the calendar, the
revisions or the scripts come to an end (`process`, `research`,
`repairs_parked`) and in the refresh when nothing is stale
and no filing is left to arrive.

## Fairness

- Importer: the scheduler starts it again and again (`deploy/*.service` restarts
  the scheduler, which polls for ever), and the operating system runs every
  thread: weak fairness of the main thread and of each worker's progress.  No
  fairness for the SEC, for faults, for another writer.
- Refresh: the same, with weak fairness of starting and finishing a run.
- Machine: `_run_cycle` joins its threads, so that weak fairness of the machine
  as a whole lets each of them finish.  A report carries the date of its build,
  so that a company built again and again gets a row that changes again and
  again: strong fairness of that change.  Without it (many builds within one
  day) the builders may keep rebuilding the same unchanged rows; a new day ends
  it.
- Faults are bounded by `MaxFaults`: the liveness results are about what happens
  once failures stop for long enough.

## Proofs

`DiscoveryImportProofs` proves, for any sets of companies, rows, workers and any
number of faults: `TypeCorrect`; and, if commits are durable (PostgreSQL, or
SQLite that does not lose power), `DoneStaysStored`, `NothingListedIsLost`,
`SuccessIsReal` and the refinement `ImporterImplementsLedger`.  The properties
are not inductive by themselves.  The strengthening `IInv` relates the three
places that record a row's fate.  `DoneIsDurable`: done rows, in memory or on
disk, are in the database.  `Agreement`: memory equals the file between two
polls, and differs from it while workers run only by completions whose save
failed; no row is both pending and done.  `PendingIsExpected` and
`CompleteIsCovered`: every pending row is among what the workers were told to see
stored, and a worker about to complete a company has seen it covered.
`Accounted`: a listed row is pending or done on disk, and a run that reported
success has left nothing pending and no day failed.  Together they give
`SuccessMeansStored`.  Durability is a hypothesis because
`LosePower` breaks the others without it: SQLite is opened in WAL mode with
`synchronous=NORMAL` (`db/session.py:55`), so that the fsynced checkpoint may
outlive the commit it vouches for.

`BudgetIsKept` adds the storage cap (`DatabaseWithinBudget`), which needs no
durability.  It has two hypotheses, and the code makes the cap depend on both:
nobody else writes (`OtherWriters` is false; the test of `require_storage` and the
commit are one critical section of the importer alone), and no company has more
filings than the reserve holds (`FitsReserve`).  The invariant, `Admitted`, says
that one thread at a time stands between the test and its commit and that the
test still holds there; a loss of power only makes the database smaller.

`StaleReportsProofs` proves, for any companies, filings, threads and budgets:
`TypeCorrect`, `NoReserveLeaks`, `BudgetsHold` and `CompleteRunsRefresh`.  The budgets
rest on the assumption that a job
adds at most its reserve to the database, which the model states as the bound of
each stage's growth.  `BudgetInv` strengthens `WithinBudget` by what is still to
come: the size together with the unused reserve of every job in progress stays
within the budget.  The unused reserves are summed by an additive function over
the sets of workers whose existence the invariant carries from step to step: the
induction over finite sets takes an operator and cannot be cited.
`CompleteRunsRefresh` (`CompleteRunRefreshes`) follows each job: in a run that counts
no error it is queued, in a thread's hand, done, or with a thread that died or is
about to (`NoJobLost`), and while the gate refuses nobody no thread leaves of itself
before the queue is empty (`NoneLeftEarly`).  It needs
a thread, of which the script starts at least one (`StaleAssumption`), and has the
hypothesis `NewestIsLatest`: in each company filing dates and acceptance times order
the filings alike, and there is no 6-K/A.  For a company is stale by its latest time
and the card is anchored by the latest date, amendments excluded: `stale_amended_6k`
shows what happens without.

`ReportMachineProofs` proves, for any companies, workers, growth, archive, seeding
and faults: `MachineMatchesData` (`StageMatchesData`), `MachineLeavesParked`
(`ParkedIsLeftAlone`) and `MachineBoundsOvershoot` (`OvershootBounded`).
`MachineInv` says that no two workers hold one company (`OneJobEach`, since
`Assign` reserves what it gives) and that what a worker was given is still so when
it writes (`JobsFit`): its company is not parked, and one about to be parked has no
canonical fact.  That the machine always finds a first lane and a least company is
proved from the well-foundedness of the natural numbers.  `SizeFits` counts for
`OvershootBounded`: the size, with a reserve for each worker that may still write,
stays within the cap and the reserves of all workers but the one the cycle was
admitted on.  The assumption is that of the model: a job grows the database by at
most `Reserve`.

`SchedulerProofs` proves, for any windows, interval, number of steps and faults:
`TypeCorrect` (the status is never a half-written file), `StatusIsEvidence` and
`SuccessIsRemembered`.  The only assumption on the windows is that some window
comes first among those ahead, which `parse_windows` sees to.  The invariant
follows the evidence: `SummaryFits` (a summary tells how the steps of the cycle in
hand went), `CodeFits` (an exit code of 0 means that such a summary is out and all
passed) and `PartialFits` (the partial file about to be installed is whole,
classifies this cycle and carries the last success over).

Its second part is about the windows.  `OkIsRecent` proves `OkMeansRecent`: the
check looks at the windows of three days only, and `CalendarAssumption` supplies
what makes that enough: a window ends within its day, those of one day before those
of the next, and one three days back has been over for longer than the 36 hours
after which a status is too old anyway.  `AlarmsAreTrue` proves `NoFalseAlarm` by
the invariant `OnTime`: between the status and the next cycle the loop sleeps one
interval and then through time in which no window is open (`Quiet`), and the cycle
itself is younger than an interval, which is the grace.

Its third part is about `DiscoveryDates`: `NoGap` and `OwedDaysKept`, for any calendar
with a filing day to count back to from every date, any history, overlap and retry
limit.
`CheckpointHasNoGap` has the hypothesis `MaxOutage <= HistoryDays`: complete runs
are no further apart than the look back.  It is exact, since TLC finds a gap with
an outage one day longer, which is the first of the disagreements below.  The
invariant relates three sets of days: `CompleteCovers`, a complete run leaves no
day up to its own unaccounted for; `RunCovers`, what is left of a run in progress
is in its `todo`; `FirstRunFits`, nothing before the first look back is ever
polled, so that the floor of a later run passes over no day it should make up.
`CheckpointKeepsOwedDays` needs only that `Saved` drops settled days.

Its last part is about `SecClient`: `ClientKeepsInterval`, for any threads, clients, interval,
backoff and number of retries: `RequestsSpaced` is a property of `SecSpec`.  It
assumes what `SecAssumption` says of the constants: each thread has a client, and
the times are natural numbers.  By itself the property is not inductive.
`SleeperHoldsLock` adds that a thread which sleeps holds its client's lock and
wakes an interval after that client's last request; two sleepers of one client
would then both hold its lock.  The steps that neither begin nor end a sleep share
one lemma, `Moves`.

`BackupsProofs` proves `NewestAreKept` (`NewestKept`) and `OkIsRecoverable`
(`OkMeansRecoverable`), for any number of runs at the same time, archives, copies to
keep, retention, kills and damaged archives.  `BackupsAssumption` is the script's
own check that it is to keep at least one copy, and that numbers are natural.  The
two properties say nothing of the lists that a run has made, and are not inductive.
`ExpiryIsSafe` is what they rest on: of the archives a run has listed and not
chosen to keep, one that verifies is covered *now* by as many newer verified ones
as are to be kept, although another run may have expired some that were chosen.
It holds because no archive is expired but for newer ones, and because an archive
made at this very time is not yet old enough.  `RunsOwn` and `OwnArchive` say that
no other run touches what a run publishes, `SuccessIsVouched` that every success
remembered anywhere (in the file, in a run's copy of it, in the status) is of an
archive vouched for by itself, by a newer one, or by damage on record.

`WriterProofs` is about the writers of one row or one cache.  Of `BuyBoard` it proves, for any
companies, reports and quotes, `FirstPriceIsKept` (`FirstPriceKept`) and
`ActiveIsOfValidated` (`ActiveIsValidated`), by an invariant of what each session
has loaded: the machine and a refresh hold the guard from load to commit, so that
their copies are what the board holds; the warmer loads without it, so that its
copies may be stale but none is of a row that is gone.  The valuation of a report
is not opened.  Of `Repairs` it proves `SweptStaysComplete` (`SweptIsComplete`), for
any companies, scripts, workers of each script and resets.  Its hypothesis,
`HeldBeforeReports`, is that companies have their filings, and no card, before a
script runs.  Without it the property is false: filings that a catch-up stores
after the sweep has passed leave a company with filings and no card.  `DbGrows` is
what every transaction does to the rows (kinds are added, from what there is to
have; only a reset takes cards), `SweepJob` what is settled at each step of the sweep.
Whether its normalisation stored anything is never assumed: the sweep counts the
canonical facts itself, and a row without them is blocked, of which nothing is claimed.  The step that looks unsafe is `BuildStatements`, which builds a report only
if one is `needed` as the row was *loaded*: it is always needed, because a report
that comes with a card is never left `reports-ready` (`CardsHaveReports`), so that
no loaded row has both.  Of `ApiCaches` it proves `CachesMoveForward`
(`FiguresMoveForward`), for any caches, changes of the database, failures and
restarts.  Nothing in memory, in a file or in the hands of a thread is of a version
that the database has not reached (`CountsArePast`); and as long as no file of a
cache has failed to be written, its flag is up while a thread counts, so that one
counts at a time and what it will show is no older than what is shown (`OneCounts`).

`ResearchProofs` proves of `Evidence`, for any filings, texts, failures, restarts and
evictions at any time, `ScoringReadsOnce` (`OneReadingPerScoring`).  By itself the
property is not inductive; `AnswersAreCached` adds that until the last bundle the cache
still holds what each was answered of the texts not evicted since.  Of `ReportCards` it
proves, for any companies, filings, verdicts, books, days and deletions of cards,
`EntriesAreOfCards` (`EntriesStayEligible`) and `FilingsMoveCompaniesOn`
(`OnlyFilingsMoveOn`).  The first rests on three facts: a card stays as it was created
until it is deleted, no two cards that are there have one id (`IdsDiffer`), and what
`CHOOSE` picks as the newest card is one of the cards (`FirstInOrder`: in any order of
finitely many things, some member of a set comes first).
`ReportCardsAssumption` says what this needs of the filings and of the cards of an
earlier version: they are sequences, and their times are numbers.
`StaleRefusals` carries a refusal for the age of the scoring from the day it was given
to every later one.  That a timeline keeps its order is proved from the places of
cards in it: each place is taken, by one card (`PlaceIsTaken`, `PlaceIsOwn`), and a
new card takes the place after all the others.  The hypothesis, `FilingsInOrder`, is
that filings are accepted at known times, in the order in which they are linked.
Without it this half of the property is false: where a filing without an acceptance
time is analysed a day later than a second one was accepted, the card of the second
goes before the first in the timeline.  TLC finds this when the second company files a 10-Q without an acceptance time and
another 10-Q after it.

Of `Facts` it proves, for any filings, facts, mapping, processes and failing commits,
`NormalisationsAreComplete` (`CleanMeansComplete`) and `ThePastStands`
(`PastStands`).  `FactsInv` is what they need: a process in the middle of a normalisation will
add a row for every mapped fact it read that had none (`ReadingsFit`), a canonical
fact is of a stored one (`CanonFits`), a stored fact is of a known filing and has its
dates (`RowsFit`), and every snapshot is of a year in which its sheet has a fact it
can date (`SnapshotsHaveRows`).  That an import leaves
the facts of a day as they were rests on the order of the imports only through the
hypothesis of the property, that everything accepted by that day is there: what
comes after has another hash and a later acceptance.  `FactsAssumption` gives the
shape of a published fact.

`AnalysisProofs` is about the engines, for any figures and any revisions of them.
`EnginesGiveOneFigure` (`EnginesAgree`) compares the formulas where both are defined.
`ConcernsOnlyGrow` (`ConcernsNeverShrink`) needs that more findings are more of each
kind, that the sums are monotone and that the clamps keep an order.
`TheSearchFindsThePrice` (`SearchFindsPrice`) has two parts.  The search: by induction
over the halvings, as a least counterexample, the cells left are a power of two that
halves (`CellsDouble`), their lower end stays too low and their upper end does not
(`HalvedNarrows`), and unless a price came within a cent one cell is left in the end
(`SearchEnds`).  The price: that it moves one way is proved and not assumed.  Whatever
the horizon, the flows are worth less at a higher rate (`AnnuityFalls`) and powers grow
with their base (`PowersGrow`); so a price that is under the one given stays under it
at a lower growth (`GrowthRises`), one that is over it stays over it at a lower rate
(`RateFalls`), and the places without a price lie on the side they are counted to.
`LateFactsAreInert` (`LateFactsDecideNothing`) opens the selection into what it reads
of each bucket (`OutrankedDecidesNothing`), and the annual periods into the selections
they are made of (`PeriodsStay`).  `EntryIsEarned` (`EntryNeedsProfit`) adds up what a company
with a loss and cash going out can get at most: 25 points for the quality of its
earnings, 20 for growth, 5 for returns (of the margin and the turnover one fails with
the sign of revenue, and mean assets and mean equity are not negative), 20 for
solvency and none for cash, which is 70 of the 75 it needs.  `WorseIsNoBetter`
(`WorseNeverLooksBetter`) shows for each list of blockers that each one found before
is outdone by one found of the worse figures; the severest of all is among the three
kept (`TopIsSeverest`), so it only rises (`TopRises`).  Position and confidence are
products of clamped parts, each monotone (`SizeFalls`).  The assumptions
(`FiguresAssumption`, `PeersAssumption`, `PricesAssumption`, `FactorAssumption`,
`GradesAssumption`) say that figures are numbers, that total assets are none below
zero in the factors, that a search halves at least once, that rates and growth lie above -100%, that vetoes are flags and
that inputs with a default are given.  Totals and searches are recursive functions; that a function defined
by steps exists is proved once (`StepByStep`), from the least number of a set.

Two of these proofs did not go through at first, because the property was wrong.
`EntryNeedsProfit` asked only for an equity
that is not negative this year, but the code divides by the mean of two: see the
disagreements below.  And `WorseNeverLooksBetter` did not ask that assets remain: a
company whose total assets fall to zero loses the blocker of its leverage
(`bottleneck_engine.py:341`), as TLC then showed in one step.

Model-checked only.  Because the provers cannot do it: all liveness
(`PublishedGetsStored`, `ImportsComeClean`, `RunsEnd`, `NothingStaleInTheEnd`,
`AllButHeldFinish`), as they handle neither fairness nor ENABLED.  Because
it compares products of unknown figures, beyond the solver's arithmetic:
`InputsDecide`, `PercentileIsTrue` and `WeakerNeverRatesBetter`.

## Disagreements between the code and what is said of it

Shown by a run (see `findings` in `PROJECT.json`): the co-registrant that stays
pending for ever, the 6-K/A that keeps its company stale, the companies that the
filings workers hold, and the finalizer that parks what it has just built.

Seen in the models without a run of their own.  In what runs:

- after an outage longer than `HISTORY_DAYS` the floor (`discovery_state.py:110`)
  passes over days that nobody polls any more;
- a cycle of the machine is admitted on one reserve, and its workers may together
  pass the cap that `storage_budget.py:12` calls a ceiling; `OvershootBounded`
  says by how much;
- a swallowed commit (`canonical_ingestion.py:195`) parks a company whose facts
  are stored and map, under the reason "SEC CompanyFacts unavailable";
- a refresh with no stale company prints no `remaining_stale`, so that the
  summary's `stale_core_report_cards` is null instead of 0;
- the serial catch-up ends in a partial report for every company with facts
  (`report_machine.py:948`), and where canonical facts exist the partial report has
  the stage `reports-ready` (`_pipeline_stage`), which the finalizer passes by;
- nothing writes `calculation_validation`, and no report is left in the stage
  `reports-ready` by a build: no packet is ever accepted;
- a thread of the refresh that dies outside the `try` of its job is counted nowhere,
  and the run exits 0 (`refresh_stale_core_reports.py:428`) with companies left stale;
  `remaining_stale` is printed and not looked at;
- report cards are "immutable and must never be overwritten"
  (`db/models/report_card.py:89`), but `backfill_report_cards.py:133` deletes them past
  the guard, and the rebuild gives the same id the verdict of its day while the
  positions of a book keep the id;
- the cache of texts is shared by all threads that build reports: one report may
  combine the non-GAAP figures of a filing with the absence of its tone, if the text
  was pushed out and could not be fetched again;
- a book launched again after the ranking changed adds positions of another
  weight, where `docs/lane1-preregistration-2026-08-30.md:33` has equal weights;
- `first_reported` of a lineage is the first one linked: an older filing linked
  later does not become it; two normalisers at once may write a canonical fact
  twice;
- `change_timeline` orders cards by an acceptance time that may be absent: then the
  day of the analysis stands in for it (`change_timeline.py:184`), and a later filing
  may take a place before events already shown;
- the newest card is chosen by acceptance times too, and the two databases sort
  absent ones to different ends.

In the engines:

- `classification_engine.py:103` calls a lower forensic risk safer, and lines
  234-239 ask for a score that is not zero: the safest company is demoted;
- a loss is a positive return on an equity that is negative on average
  (`factor_engine.py:679`): with it a company that loses money and burns cash reaches
  the 75 points exactly, and passes for the portfolio;
- a company whose total assets fall to zero is no longer called highly indebted: its
  leverage is not computed (`bottleneck_engine.py:341`);
- rule EARN_001 reads the ratio of cash flow to income the wrong way round
  (`forensic_rules_engine.py:128`);
- the risk factor of a capital intensity above 8 names `CAPEX_INFLATION`, which its
  enumeration does not have (`bear_case_engine.py:367`), and the sensitivities of
  the cost of capital multiply by a cost of debt that may be missing: both raise;
- peer statistics of three to nine companies are computed and then ranked by
  deciles that are missing, which raises;
- the reverse DCF reports a growth as SOLVED whatever it found, also where the price lies
  beyond the growths it searches, and its search for a margin does not use the margin;
- the combined downside of the bear case weighs three prices by weights that sum to
  less than a third (`bear_case_engine.py:481`), and negative flows put the bear
  case above the bull case;
- the registry does not name some inputs that decide a metric (`Unnamed`); a strike
  of zero dilutes in one implementation only; DELEVERAGING is tested with the sign
  reversed (`capital_allocation_ledger.py:299`); a growth rate over a change of
  sign is complex, and comparing it raises.

## Not modelled

- Strategy and report-refresh lanes of the machine: no transaction leaves the
  stage they ask for.
- `statement_builder`, `period_resolver`, `historical_snapshot_engine`, the
  backtest, the survivorship universe, `universe_signal_engine`,
  `sector_intelligence`, `source_integrity`: listings, arithmetic over series or
  tables, and wording, without state.
- The company registry and the extraction of text: one writer, string and pattern
  work; what they find is a choice in the models.
- The other endpoints of the API, the command line, exports, storage and market
  data adapters, the front end, the Windows scripts and the migrations: wrappers
  and input or output.
- The machine's gate and the refresh's gate over one database, and the importer's
  `--from-date`: each component is modelled with its own gate and whole days.

## What could be added

A composition of the machine and the refresh as two gates over one database.
