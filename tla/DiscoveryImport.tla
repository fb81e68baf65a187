-------------------------- MODULE DiscoveryImport --------------------------
(***************************************************************************)
(* The SEC filing importer, scripts/import_stale_sec_filings.py, with its  *)
(* checkpoint file, sec/discovery_state.py.  Each run polls the daily      *)
(* indexes, records in the checkpoint the rows whose filings it has yet to *)
(* store, and lets worker threads fetch, commit and verify one company at  *)
(* a time.  The process may die at any step and a later run starts from    *)
(* the checkpoint on disk and from the filings the database kept.          *)
(*                                                                         *)
(* Left to module DiscoveryDates: which days a run polls, when a settled   *)
(* day is pruned, and the attempt counters that order retries (here any    *)
(* order of companies, and any choice of them under Limit, is possible).   *)
(***************************************************************************)
EXTENDS Naturals, FiniteSets

CONSTANTS
    Days,            \* the index days a run polls, as day numbers
    Ciks,            \* companies
    NoCompany,       \* the cik of a thread that holds none
    Accessions,      \* accession numbers
    Rows,            \* index rows the SEC will ever publish on those days
    Universes,       \* the possible sets of companies with a ticker
    Workers,         \* worker threads
    Limit,           \* --limit; at least the number of companies for none
    Undated,         \* accessions whose submissions row has no filing date
    OtherWriters,    \* another process ingests into the same database
    DurableCommits,  \* a commit survives a loss of power
    MaxDatabase,     \* storage cap, in filings
    Reserve,         \* storage reserved for one company's ingest, in filings
    MaxFaults        \* bound on crashes and failed calls

Filings == [cik: Ciks, accession: Accessions]
FilingOf(r) == [cik |-> r.cik, accession |-> r.accession]

ASSUME RowsAssumption ==
    /\ Days \subseteq Nat
    /\ Rows \subseteq [day: Days, cik: Ciks, accession: Accessions]
    /\ Universes \subseteq SUBSET Ciks
    /\ NoCompany \notin Ciks
    /\ OtherWriters \in BOOLEAN
    /\ DurableCommits \in BOOLEAN
    /\ Limit \in Nat
    /\ MaxDatabase \in Nat
    /\ Reserve \in Nat
    /\ MaxFaults \in Nat

VARIABLES
    published,   \* rows the SEC has published so far
    disk,        \* the checkpoint file
    mem,         \* state.data of the running process
    db,          \* committed filings
    durable,     \* the committed filings a loss of power leaves
    phase,       \* where the main thread of the importer is
    todo,        \* days the run has yet to poll
    listed,      \* history: rows the run's successful polls returned
    universe,    \* companies the run loaded from the database
    expected,    \* filings the run's workers must see stored
    queue,       \* companies no worker has taken
    paused,      \* storage_paused
    worker,      \* per thread: its step, its company, what it fetched
    errors,      \* counters.errors is not 0
    result,      \* how the last run ended
    faults       \* crashes and failed calls so far

run == <<todo, listed, universe>>
work == <<expected, queue, paused, worker>>
vars == <<published, disk, mem, db, durable, phase, run, work, errors, result,
          faults>>

Checkpoint == [days: SUBSET Days, ok: SUBSET Days,
               pending: SUBSET Rows, done: SUBSET Rows]
EmptyCheckpoint == [days |-> {}, ok |-> {}, pending |-> {}, done |-> {}]

Phases == {"stopped", "scan", "index", "work"}
Steps == {"idle", "check", "fetch", "admit", "commit", "verify", "complete",
          "gone"}
Results == {"none", "success", "partial", "died"}
Idle == [step |-> "idle", cik |-> NoCompany, fetched |-> {}]

TypeOK ==
    /\ published \subseteq Rows
    /\ disk \in Checkpoint
    /\ mem \in Checkpoint
    /\ db \subseteq Filings
    /\ durable \subseteq db
    /\ phase \in Phases
    /\ todo \subseteq Days
    /\ listed \subseteq Rows
    /\ universe \subseteq Ciks
    /\ expected \subseteq Filings
    /\ queue \subseteq Ciks
    /\ paused \in BOOLEAN
    /\ worker \in [Workers -> [step: Steps, cik: Ciks \cup {NoCompany},
                               fetched: SUBSET Accessions]]
    /\ errors \in BOOLEAN
    /\ result \in Results
    /\ faults \in 0..MaxFaults

Init ==
    /\ published = {}
    /\ disk = EmptyCheckpoint
    /\ mem = EmptyCheckpoint
    /\ db = {}
    /\ durable = {}
    /\ phase = "stopped"
    /\ todo = {}
    /\ listed = {}
    /\ universe = {}
    /\ expected = {}
    /\ queue = {}
    /\ paused = FALSE
    /\ worker = [w \in Workers |-> Idle]
    /\ errors = FALSE
    /\ result = "none"
    /\ faults = 0

-----------------------------------------------------------------------------
(* Helpers *)

Fault ==
    /\ faults < MaxFaults
    /\ faults' = faults + 1

\* The checkpoint after a company's expected filings were all seen stored.
Completed(m, c) ==
    LET rows == {r \in m.pending : r.cik = c}
    IN  [m EXCEPT !.pending = @ \ rows, !.done = @ \cup rows]

\* Mutant of Recorded: the day is never marked good.
RecordedNotOk(m, d, rows) == [m EXCEPT !.pending = @ \cup (rows \ m.done)]

\* The checkpoint after a poll of day d returned these rows.
Recorded(m, d, rows) ==
    [m EXCEPT !.pending = @ \cup (rows \ m.done), !.ok = @ \cup {d}]

\* What ingest adds for company c: an accession any company already has is
\* skipped, and so is one without a filing date.
Insertable(c, accessions) ==
    {[cik |-> c, accession |-> a] :
        a \in {x \in accessions \ Undated :
                  \A f \in db : f.accession # x}}

Covered(c) == {f \in expected : f.cik = c} \subseteq db

Headroom == Cardinality(db) + Reserve <= MaxDatabase

CommitFilings(fs) ==
    /\ db' = db \cup fs
    /\ durable' = IF DurableCommits THEN durable \cup fs ELSE durable

Exit(outcome) ==
    /\ phase' = "stopped"
    /\ result' = outcome
    /\ mem' = EmptyCheckpoint
    /\ expected' = {}
    /\ queue' = {}
    /\ paused' = FALSE
    /\ worker' = [w \in Workers |-> Idle]

-----------------------------------------------------------------------------
(* The environment *)

\* The SEC adds a row to a daily index, possibly one polled before.
Publish(r) ==
    /\ r \notin published
    /\ published' = published \cup {r}
    /\ UNCHANGED <<disk, mem, db, durable, phase, run, work, errors,
                   result, faults>>

Submissions(c) == {r.accession : r \in {x \in published : x.cik = c}}

\* Another process (the report machine, an importer of other forms) ingests
\* what the SEC lists for company c.
IngestElsewhere(c) ==
    /\ OtherWriters
    /\ Insertable(c, Submissions(c)) # {}
    /\ CommitFilings(Insertable(c, Submissions(c)))
    /\ UNCHANGED <<published, disk, mem, phase, run, work, errors,
                   result, faults>>

\* The process dies: killed, or a save outside a worker raised.
Crash ==
    /\ phase # "stopped"
    /\ Fault
    /\ Exit("died")
    /\ UNCHANGED <<published, disk, db, durable, run, errors>>

\* The machine loses power.  The checkpoint was fsynced; the database keeps
\* what it had made durable.
LosePower ==
    /\ Fault
    /\ Exit("died")
    /\ db' = durable
    /\ UNCHANGED <<published, disk, durable, run, errors>>

\* The database makes its log durable (a WAL checkpoint).
Flush ==
    /\ durable # db
    /\ durable' = db
    /\ UNCHANGED <<published, disk, mem, db, phase, run, work, errors,
                   result, faults>>

-----------------------------------------------------------------------------
(* The main thread *)

\* Mutant of Start: a day polled with success is not polled again.
StartWithoutOverlap(u) ==
    /\ phase = "stopped"
    /\ phase' = "scan"
    /\ mem' = disk
    /\ todo' = Days \ disk.ok
    /\ listed' = {}
    /\ universe' = u
    /\ errors' = FALSE
    /\ result' = "none"
    /\ UNCHANGED <<published, disk, db, durable, work, faults>>

\* main: take the lock, load the checkpoint, choose the days, load the
\* universe.
Start(u) ==
    /\ phase = "stopped"
    /\ phase' = "scan"
    /\ mem' = disk
    /\ todo' = Days
    /\ listed' = {}
    /\ universe' = u
    /\ errors' = FALSE
    /\ result' = "none"
    /\ UNCHANGED <<published, disk, db, durable, work, faults>>

NextDay(d) == d \in todo /\ \A e \in todo : d <= e

Save(m) ==
    /\ mem' = m
    /\ disk' = m

\* Mutant of BeginDay: the day's entry is replaced instead of kept.
BeginDayAfresh(d) ==
    /\ phase = "scan"
    /\ NextDay(d)
    /\ Save([mem EXCEPT !.days = @ \cup {d}, !.ok = @ \ {d},
                        !.pending = {r \in @ : r.day # d}])
    /\ phase' = "index"
    /\ UNCHANGED <<published, db, durable, run, work, errors, result, faults>>

\* The poll of day d is booked as failed before it is made.
BeginDay(d) ==
    /\ phase = "scan"
    /\ NextDay(d)
    /\ Save([mem EXCEPT !.days = @ \cup {d}, !.ok = @ \ {d}])
    /\ phase' = "index"
    /\ UNCHANGED <<published, db, durable, run, work, errors, result,
                   faults>>

IndexRows(d) == {r \in published : r.day = d /\ r.cik \in universe}

PollDay(d) ==
    /\ phase = "index"
    /\ NextDay(d)
    /\ Save(Recorded(mem, d, IndexRows(d)))
    /\ listed' = listed \cup IndexRows(d)
    /\ todo' = todo \ {d}
    /\ phase' = "scan"
    /\ UNCHANGED <<published, db, durable, universe, work, errors, result,
                   faults>>

PollFails(d) ==
    /\ phase = "index"
    /\ NextDay(d)
    /\ Fault
    /\ Save(mem)
    /\ errors' = TRUE
    /\ todo' = todo \ {d}
    /\ phase' = "scan"
    /\ UNCHANGED <<published, db, durable, listed, universe, work, result>>

\* Every pending filing of every day becomes expected, and Limit companies
\* are handed to the workers.
Plan(affected) ==
    LET ciks == {r.cik : r \in mem.pending} IN
    /\ phase = "scan"
    /\ todo = {}
    /\ affected \subseteq ciks
    /\ Cardinality(affected) =
         IF Cardinality(ciks) <= Limit THEN Cardinality(ciks) ELSE Limit
    /\ expected' = {FilingOf(r) : r \in mem.pending}
    /\ queue' = affected
    /\ Save(mem)
    /\ phase' = "work"
    /\ UNCHANGED <<published, db, durable, run, paused, worker, errors,
                   result, faults>>

\* Mutant of Partial: work left over does not make a run partial.
PartialByErrors == errors \/ mem.days # mem.ok

Partial == errors \/ mem.days # mem.ok \/ mem.pending # {}

\* Every thread has been joined; the run reports and exits.
Finish ==
    /\ phase = "work"
    /\ \A w \in Workers : worker[w].step = "gone"
    /\ Exit(IF Partial THEN "partial" ELSE "success")
    /\ UNCHANGED <<published, disk, db, durable, run, errors, faults>>

-----------------------------------------------------------------------------
(* The worker threads *)

\* Thread w is at the given step of the company it holds.
At(w, step) ==
    /\ phase = "work"
    /\ worker[w].step = step

Goto(w, step) == worker' = [worker EXCEPT ![w].step = step]

\* The except and finally clauses: roll back, count an error, go on.
Drop(w) ==
    /\ worker' = [worker EXCEPT ![w] = Idle]
    /\ errors' = TRUE

outside == <<published, disk, mem, db, durable, phase, run, expected, result>>

Take(w, c) ==
    /\ At(w, "idle")
    /\ ~paused
    /\ c \in queue
    /\ queue' = queue \ {c}
    /\ worker' = [worker EXCEPT ![w] = [Idle EXCEPT !.step = "check",
                                                    !.cik = c]]
    /\ UNCHANGED <<outside, paused, errors, faults>>

\* Mutant of Leave: during a storage pause the thread looks at its queue again.
LeaveWhenDrained(w) ==
    /\ At(w, "idle")
    /\ \/ queue = {} /\ Goto(w, "gone")
       \/ queue # {} /\ paused /\ Goto(w, "idle")
    /\ UNCHANGED <<outside, queue, paused, errors, faults>>

Leave(w) ==
    /\ At(w, "idle")
    /\ queue = {} \/ paused
    /\ Goto(w, "gone")
    /\ UNCHANGED <<outside, queue, paused, errors, faults>>

\* A company whose expected filings are all stored needs no fetch.
Check(w) ==
    LET c == worker[w].cik IN
    /\ At(w, "check")
    /\ \/ /\ Covered(c)
          /\ Goto(w, "complete")
          /\ UNCHANGED errors
       \/ /\ ~Covered(c)
          /\ c \in universe
          /\ Goto(w, "fetch")
          /\ UNCHANGED errors
       \/ /\ ~Covered(c)
          /\ c \notin universe
          /\ Drop(w)
    /\ UNCHANGED <<outside, queue, paused, faults>>

Fetch(w) ==
    /\ At(w, "fetch")
    /\ worker' = [worker EXCEPT ![w].step = "admit",
                                ![w].fetched = Submissions(worker[w].cik)]
    /\ UNCHANGED <<outside, queue, paused, errors, faults>>

\* The SEC call fails, answers for another company, or lists neither in its
\* recent block nor in its shards some accession that is missing.
FetchFails(w) ==
    /\ At(w, "fetch")
    /\ Fault
    /\ Drop(w)
    /\ UNCHANGED <<outside, queue, paused>>

\* Mutant of Admit: the budget is tested outside the commit section.
AdmitUnlocked(w) ==
    /\ At(w, "admit")
    /\ \/ /\ Headroom
          /\ Goto(w, "commit")
          /\ UNCHANGED <<paused, errors>>
       \/ /\ ~Headroom
          /\ paused' = TRUE
          /\ Drop(w)
    /\ UNCHANGED <<outside, queue, faults>>

\* Enter the commit section and test the storage budget in it.
Admit(w) ==
    /\ At(w, "admit")
    /\ \A v \in Workers : worker[v].step # "commit"
    /\ \/ /\ Headroom
          /\ Goto(w, "commit")
          /\ UNCHANGED <<paused, errors>>
       \/ /\ ~Headroom
          /\ paused' = TRUE
          /\ Drop(w)
    /\ UNCHANGED <<outside, queue, faults>>

Commit(w) ==
    /\ At(w, "commit")
    /\ CommitFilings(Insertable(worker[w].cik, worker[w].fetched))
    /\ Goto(w, "verify")
    /\ UNCHANGED <<published, disk, mem, phase, run, expected, queue, paused,
                   errors, result, faults>>

CommitFails(w) ==
    /\ At(w, "commit")
    /\ Fault
    /\ Drop(w)
    /\ UNCHANGED <<outside, queue, paused>>

\* Mutant of Verify: a commit that returned is taken to cover the company.
VerifyAssumed(w) ==
    /\ At(w, "verify")
    /\ Goto(w, "complete")
    /\ UNCHANGED <<outside, queue, paused, errors, faults>>

\* Read the company's filings again before calling it completed.
Verify(w) ==
    /\ At(w, "verify")
    /\ \/ /\ Covered(worker[w].cik)
          /\ Goto(w, "complete")
          /\ UNCHANGED errors
       \/ /\ ~Covered(worker[w].cik)
          /\ Drop(w)
    /\ UNCHANGED <<outside, queue, paused, faults>>

Complete(w) ==
    /\ At(w, "complete")
    /\ Save(Completed(mem, worker[w].cik))
    /\ worker' = [worker EXCEPT ![w] = Idle]
    /\ UNCHANGED <<published, db, durable, phase, run, expected, queue, paused,
                   errors, result, faults>>

\* The save raises after the checkpoint in memory has changed.
CompleteUnsaved(w) ==
    /\ At(w, "complete")
    /\ Fault
    /\ mem' = Completed(mem, worker[w].cik)
    /\ Drop(w)
    /\ UNCHANGED <<published, disk, db, durable, phase, run, expected, queue,
                   paused, result>>

WorkerProgress(w) ==
    \/ \E c \in Ciks : Take(w, c)
    \/ Leave(w) \/ Check(w) \/ Fetch(w) \/ Admit(w) \/ Commit(w)
    \/ Verify(w) \/ Complete(w)

WorkerFault(w) == FetchFails(w) \/ CommitFails(w) \/ CompleteUnsaved(w)

Main ==
    \/ \E u \in Universes : Start(u)
    \/ \E d \in Days : BeginDay(d) \/ PollDay(d)
    \/ \E affected \in SUBSET Ciks : Plan(affected)
    \/ Finish

Environment ==
    \/ \E r \in Rows : Publish(r)
    \/ \E c \in Ciks : IngestElsewhere(c)
    \/ \E d \in Days : PollFails(d)
    \/ Crash \/ LosePower \/ Flush

Next ==
    \/ Main
    \/ Environment
    \/ \E w \in Workers : WorkerProgress(w) \/ WorkerFault(w)

Spec == Init /\ [][Next]_vars

\* The scheduler starts the importer again and again, and the operating
\* system runs every thread.  Nothing makes the SEC publish, a fault happen or
\* another process ingest.
FairSpec ==
    /\ Spec
    /\ WF_vars(Main)
    /\ \A w \in Workers : WF_vars(WorkerProgress(w))

-----------------------------------------------------------------------------
(* Properties *)

\* The checkpoint, in memory or on disk, calls a row done only while the
\* database holds its filing under its company: completed() runs after the
\* commit was read back, and nothing undoes either.
DoneIsStored == \A r \in disk.done \cup mem.done : FilingOf(r) \in db

\* Every row a successful poll returned is on disk as pending or done from
\* then on, so that no later death of the process forgets it.
ListedIsRecorded == listed \subseteq disk.pending \cup disk.done

\* Exit status 0 means that the whole checkpoint is settled and that every
\* row the run listed is stored, whatever the threads and faults did.
SuccessMeansStored ==
    result = "success" =>
        /\ disk.pending = {}
        /\ disk.ok = disk.days
        /\ \A r \in listed : FilingOf(r) \in db

\* Workers that pass the storage test together never take the database over
\* its cap, if no company adds more than the reserve.
DatabaseWithinBudget == Cardinality(db) <= MaxDatabase

\* What the importer does to its checkpoint and the database is what the
\* ledger of discovered rows allows.
Ledger == INSTANCE DiscoveryLedger WITH
    FilingNamed <- FilingOf,
    owed <- disk.pending,
    settled <- disk.done,
    stored <- db

LedgerSpec == Ledger!Spec

\* A published row ends up stored under its company.
PublishedGetsStored ==
    \A r \in Rows : r \in published ~> FilingOf(r) \in db

\* The main thread joins its workers: no pause, error or crash strands it.
RunsEnd == phase = "work" ~> phase = "stopped"

\* The importer comes to report success again after any run of failures.
ImportsComeClean == []<>(result = "success")
=============================================================================
