----------------------- MODULE DiscoveryImportProofs -----------------------
(***************************************************************************)
(* Safety of the importer for every set of days, companies, rows and       *)
(* workers, every limit and any number of faults.  The invariant relates   *)
(* the three places where a row's fate is recorded: the checkpoint on      *)
(* disk, its copy in memory, and the database.                             *)
(***************************************************************************)
EXTENDS DiscoveryImport, FiniteSetTheorems, TLAPS

\* A thread past "idle" holds a company.
HoldsCompany ==
    \A w \in Workers :
        worker[w].step \notin {"idle", "gone"} => worker[w].cik \in Ciks

\* Done rows are stored, and what a loss of power keeps includes them.
DoneIsDurable ==
    /\ \A r \in disk.done \cup mem.done : FilingOf(r) \in durable
    /\ durable = db

\* Threads hold companies only while the main thread waits for them.
Idling == phase # "work" => \A w \in Workers : worker[w] = Idle

\* What the workers were told to see stored includes all that is pending.
PendingIsExpected ==
    phase = "work" => \A r \in mem.pending : FilingOf(r) \in expected

\* A thread about to complete a company has seen it covered.
CompleteIsCovered ==
    \A w \in Workers :
        phase = "work" /\ worker[w].step = "complete" => Covered(worker[w].cik)

\* Memory differs from disk by completions whose save failed, no more.
Agreement ==
    /\ phase \in {"scan", "index"} => mem = disk
    /\ phase = "work" /\ ~errors => mem = disk
    /\ phase = "work" =>
         /\ disk.done \subseteq mem.done
         /\ mem.pending = disk.pending \ mem.done
         /\ mem.done \subseteq disk.done \cup disk.pending
         /\ mem.days = disk.days
         /\ mem.ok = disk.ok
    /\ disk.pending \cap disk.done = {}

\* The rows listed are accounted for; a success leaves nothing owed.
Accounted ==
    /\ listed \subseteq disk.pending \cup disk.done
    /\ result = "success" => /\ phase = "stopped"
                             /\ disk.pending = {}
                             /\ disk.ok = disk.days

TypeInv == TypeOK /\ HoldsCompany

Bookkeeping ==
    /\ Idling
    /\ DoneIsDurable
    /\ PendingIsExpected
    /\ CompleteIsCovered
    /\ Agreement
    /\ Accounted

IInv == TypeInv /\ Bookkeeping

-----------------------------------------------------------------------------
(* Type correctness *)

LEMMA InsertableType ==
    ASSUME NEW c \in Ciks, NEW A \in SUBSET Accessions
    PROVE  Insertable(c, A) \subseteq Filings
BY DEF Insertable, Filings

LEMMA FilingType ==
    ASSUME NEW r \in Rows
    PROVE  FilingOf(r) \in Filings
BY RowsAssumption DEF FilingOf, Filings

LEMMA SubmissionsType ==
    ASSUME published \subseteq Rows, NEW c
    PROVE  Submissions(c) \subseteq Accessions
BY RowsAssumption DEF Submissions

LEMMA RecordedType ==
    ASSUME NEW m \in Checkpoint, NEW d \in Days, NEW R \in SUBSET Rows
    PROVE  Recorded(m, d, R) \in Checkpoint
BY DEF Recorded, Checkpoint

LEMMA CompletedType ==
    ASSUME NEW m \in Checkpoint, NEW c
    PROVE  Completed(m, c) \in Checkpoint
BY DEF Completed, Checkpoint

\* Giving up a company, a fault and the end of a process keep the types.
LEMMA DropType ==
    ASSUME TypeInv, NEW w \in Workers, Drop(w)
    PROVE  /\ worker' \in [Workers -> [step: Steps, cik: Ciks \cup {NoCompany},
                                       fetched: SUBSET Accessions]]
           /\ HoldsCompany'
           /\ errors' \in BOOLEAN
<1>1. Idle \in [step: Steps, cik: Ciks \cup {NoCompany},
                fetched: SUBSET Accessions]
  BY DEF Idle, Steps
<1>2. Idle.step = "idle"
  BY DEF Idle
<1>. QED
  BY <1>1, <1>2 DEF TypeInv, TypeOK, HoldsCompany, Drop

LEMMA FaultType == Fault /\ faults \in 0..MaxFaults => faults' \in 0..MaxFaults
BY RowsAssumption DEF Fault

LEMMA ExitType ==
    ASSUME TypeInv, NEW o \in Results, Exit(o)
    PROVE  /\ phase' \in Phases
           /\ result' \in Results
           /\ mem' \in Checkpoint
           /\ expected' \subseteq Filings
           /\ queue' \subseteq Ciks
           /\ paused' \in BOOLEAN
           /\ worker' \in [Workers -> [step: Steps, cik: Ciks \cup {NoCompany},
                                       fetched: SUBSET Accessions]]
           /\ HoldsCompany'
BY DEF Exit, Phases, Results, EmptyCheckpoint, Checkpoint, Idle, Steps,
       HoldsCompany

LEMMA InitType == Init => TypeInv
<1> SUFFICES ASSUME Init PROVE TypeInv
  OBVIOUS
<1>1. EmptyCheckpoint \in Checkpoint
  BY DEF EmptyCheckpoint, Checkpoint
<1>2. HoldsCompany /\ worker \in [Workers -> [step: Steps,
          cik: Ciks \cup {NoCompany}, fetched: SUBSET Accessions]]
  BY DEF Init, Idle, Steps, HoldsCompany
<1>3. faults \in 0..MaxFaults
  BY RowsAssumption DEF Init
<1>4. paused \in BOOLEAN /\ errors \in BOOLEAN
  BY DEF Init
<1>. QED
  BY <1>1, <1>2, <1>3, <1>4 DEF Init, TypeInv, TypeOK, Phases, Results

LEMMA MainType == TypeInv /\ Main => TypeInv'
<1> SUFFICES ASSUME TypeInv, Main PROVE TypeInv'
  OBVIOUS
<1> USE DEF TypeInv, TypeOK, HoldsCompany, run, work
<1>1. ASSUME NEW u \in Universes, Start(u) PROVE TypeInv'
  BY <1>1, RowsAssumption DEF Start, Phases, Results
<1>2. ASSUME NEW d \in Days, BeginDay(d) PROVE TypeInv'
  BY <1>2 DEF BeginDay, Save, Phases, Checkpoint
<1>3. ASSUME NEW d \in Days, PollDay(d) PROVE TypeInv'
  <2>1. IndexRows(d) \subseteq Rows
    BY DEF IndexRows
  <2>. QED
    BY <1>3, <2>1, RecordedType DEF PollDay, Save, Phases
<1>4. ASSUME NEW affected \in SUBSET Ciks, Plan(affected) PROVE TypeInv'
  <2>1. expected' \subseteq Filings
    BY <1>4, FilingType DEF Plan, Checkpoint
  <2>. QED
    BY <1>4, <2>1 DEF Plan, Save, Phases
<1>5. CASE Finish
  BY <1>5 DEF Finish, Exit, EmptyCheckpoint, Checkpoint, Phases, Results,
              Idle, Steps
<1>. QED
  BY <1>1, <1>2, <1>3, <1>4, <1>5 DEF Main

LEMMA EnvironmentType == TypeInv /\ Environment => TypeInv'
<1> SUFFICES ASSUME TypeInv, Environment PROVE TypeInv'
  OBVIOUS
<1> USE DEF TypeInv, TypeOK, HoldsCompany, run, work
<1>1. ASSUME NEW r \in Rows, Publish(r) PROVE TypeInv'
  BY <1>1 DEF Publish
<1>2. ASSUME NEW c \in Ciks, IngestElsewhere(c) PROVE TypeInv'
  BY <1>2, InsertableType, SubmissionsType DEF IngestElsewhere, CommitFilings
<1>3. ASSUME NEW d \in Days, PollFails(d) PROVE TypeInv'
  BY <1>3, RowsAssumption DEF PollFails, Save, Fault, Phases
<1>4. CASE Crash
  <2>1. "died" \in Results
    BY DEF Results
  <2>. QED
    BY <1>4, <2>1, ExitType, FaultType DEF Crash
<1>5. CASE LosePower
  <2>1. "died" \in Results
    BY DEF Results
  <2>. QED
    BY <1>5, <2>1, ExitType, FaultType DEF LosePower
<1>6. CASE Flush
  BY <1>6 DEF Flush
<1>. QED
  BY <1>1, <1>2, <1>3, <1>4, <1>5, <1>6 DEF Environment

LEMMA WorkerType ==
    ASSUME TypeInv, NEW w \in Workers, WorkerProgress(w) \/ WorkerFault(w)
    PROVE  TypeInv'
<1> USE DEF TypeInv, TypeOK, HoldsCompany, run, At, outside
<1>1. ASSUME NEW c \in Ciks, Take(w, c) PROVE TypeInv'
  BY <1>1 DEF Take, Idle, Steps
<1>2. CASE Leave(w)
  BY <1>2 DEF Leave, Goto, Steps
<1>3. CASE Check(w)
  <2>1. CASE Drop(w)
    BY <1>3, <2>1, DropType DEF Check
  <2>2. CASE UNCHANGED errors /\ (Goto(w, "complete") \/ Goto(w, "fetch"))
    BY <1>3, <2>2 DEF Check, Goto, Steps
  <2>. QED
    BY <1>3, <2>1, <2>2 DEF Check
<1>4. CASE Fetch(w)
  BY <1>4, SubmissionsType DEF Fetch, Steps
<1>5. CASE Admit(w)
  <2>1. CASE paused' = TRUE /\ Drop(w)
    BY <1>5, <2>1, DropType DEF Admit
  <2>2. CASE Goto(w, "commit") /\ UNCHANGED <<paused, errors>>
    BY <1>5, <2>2 DEF Admit, Goto, Steps
  <2>. QED
    BY <1>5, <2>1, <2>2 DEF Admit
<1>6. CASE Commit(w)
  BY <1>6, InsertableType DEF Commit, CommitFilings, Goto, Steps
<1>7. CASE Verify(w)
  <2>1. CASE Drop(w)
    BY <1>7, <2>1, DropType DEF Verify
  <2>2. CASE UNCHANGED errors /\ Goto(w, "complete")
    BY <1>7, <2>2 DEF Verify, Goto, Steps
  <2>. QED
    BY <1>7, <2>1, <2>2 DEF Verify
<1>8. CASE Complete(w)
  BY <1>8, CompletedType DEF Complete, Save, Idle, Steps
<1>9. CASE FetchFails(w)
  BY <1>9, DropType, FaultType DEF FetchFails
<1>10. CASE CommitFails(w)
  BY <1>10, DropType, FaultType DEF CommitFails
<1>11. CASE CompleteUnsaved(w)
  BY <1>11, DropType, FaultType, CompletedType DEF CompleteUnsaved
<1>. QED
  BY <1>1, <1>2, <1>3, <1>4, <1>5, <1>6, <1>7, <1>8, <1>9, <1>10, <1>11
     DEF WorkerProgress, WorkerFault

LEMMA NextType == TypeInv /\ [Next]_vars => TypeInv'
<1>1. TypeInv /\ UNCHANGED vars => TypeInv'
  BY DEF TypeInv, TypeOK, HoldsCompany, vars, run, work
<1>. QED
  BY <1>1, MainType, EnvironmentType, WorkerType DEF Next

\* Every state variable keeps the type the importer's data has, and a thread
\* past "idle" holds a company.
THEOREM TypeCorrect == Spec => []TypeOK
<1>1. TypeInv => TypeOK
  BY DEF TypeInv
<1>. QED
  BY <1>1, InitType, NextType, PTL DEF Spec

-----------------------------------------------------------------------------
(* The bookkeeping invariant, where a commit is durable *)

LEMMA InitBookkeeping == Init => Bookkeeping
BY DEF Init, Bookkeeping, Idling, DoneIsDurable, PendingIsExpected,
       CompleteIsCovered, Agreement, Accounted, EmptyCheckpoint

\* A step that leaves the checkpoint and the main thread alone, and only adds
\* filings, keeps the books if it completes no company uncovered.
LEMMA QuietBookkeeping ==
    ASSUME Bookkeeping,
           UNCHANGED <<disk, mem, phase, expected, listed, result>>,
           db \subseteq db', durable' = db', ~errors' => ~errors,
           Idling', CompleteIsCovered'
    PROVE  Bookkeeping'
BY DEF Bookkeeping, DoneIsDurable, PendingIsExpected, Agreement, Accounted

\* The end of a process leaves disk and database as they were.
LEMMA ExitBookkeeping ==
    ASSUME Bookkeeping, NEW o, Exit(o), UNCHANGED <<disk, durable, listed>>,
           db' = durable,
           o = "success" => disk.pending = {} /\ disk.ok = disk.days
    PROVE  Bookkeeping'
BY DEF Bookkeeping, Exit, Idling, DoneIsDurable, PendingIsExpected,
       CompleteIsCovered, Agreement, Accounted, EmptyCheckpoint

LEMMA MainBookkeeping ==
    ASSUME IInv, Main
    PROVE  Bookkeeping'
<1> USE DEF IInv, Bookkeeping
<1>1. ASSUME NEW u \in Universes, Start(u) PROVE Bookkeeping'
  BY <1>1 DEF Start, work, Idling, DoneIsDurable, PendingIsExpected,
              CompleteIsCovered, Agreement, Accounted
<1>2. ASSUME NEW d \in Days, BeginDay(d) PROVE Bookkeeping'
  BY <1>2 DEF BeginDay, Save, run, work, Idling, DoneIsDurable,
              PendingIsExpected, CompleteIsCovered, Agreement, Accounted,
              TypeInv, TypeOK, Checkpoint
<1>3. ASSUME NEW d \in Days, PollDay(d) PROVE Bookkeeping'
  <2>1. /\ mem = disk
        /\ disk'.pending = disk.pending \cup (IndexRows(d) \ disk.done)
        /\ disk'.done = disk.done
        /\ mem' = disk'
    BY <1>3 DEF PollDay, Save, Recorded, Agreement, TypeInv, TypeOK,
                Checkpoint
  <2>2. listed' = listed \cup IndexRows(d)
    BY <1>3 DEF PollDay
  <2>3. /\ phase = "index" /\ phase' = "scan"
        /\ UNCHANGED <<db, durable, worker, result>>
    BY <1>3 DEF PollDay, work
  <2>4. Idling' /\ DoneIsDurable' /\ PendingIsExpected' /\ CompleteIsCovered'
    BY <2>1, <2>3 DEF Idling, DoneIsDurable, PendingIsExpected,
                      CompleteIsCovered
  <2>5. Agreement'
    BY <2>1, <2>3 DEF Agreement
  <2>6. Accounted'
    BY <2>1, <2>2, <2>3 DEF Accounted
  <2>. QED
    BY <2>4, <2>5, <2>6
<1>4. ASSUME NEW affected \in SUBSET Ciks, Plan(affected) PROVE Bookkeeping'
  <2>1. /\ phase = "scan" /\ phase' = "work" /\ mem = disk
        /\ UNCHANGED <<mem, disk, db, durable, worker, result, listed>>
        /\ expected' = {FilingOf(r) : r \in mem.pending}
    BY <1>4 DEF Plan, Save, Agreement, run
  <2>2. Idling' /\ CompleteIsCovered'
    BY <2>1 DEF Idling, CompleteIsCovered, Idle
  <2>3. DoneIsDurable' /\ PendingIsExpected'
    BY <2>1 DEF DoneIsDurable, PendingIsExpected
  <2>4. Agreement' /\ Accounted'
    BY <2>1 DEF Agreement, Accounted
  <2>. QED
    BY <2>2, <2>3, <2>4
<1>5. CASE Finish
  <2>1. ~Partial => disk.pending = {} /\ disk.ok = disk.days
    BY <1>5 DEF Finish, Partial, Agreement
  <2>2. PICK o : Exit(o) /\ (o = "success" => ~Partial)
    BY <1>5 DEF Finish
  <2>. QED
    BY <1>5, <2>1, <2>2, ExitBookkeeping DEF Finish, run, DoneIsDurable
<1>. QED
  BY <1>1, <1>2, <1>3, <1>4, <1>5 DEF Main

LEMMA EnvironmentBookkeeping ==
    ASSUME IInv, DurableCommits, Environment
    PROVE  Bookkeeping'
<1> USE DEF IInv, run, work
<1>1. Idling /\ CompleteIsCovered /\ durable = db
  BY DEF Bookkeeping, DoneIsDurable
<1>2. ASSUME NEW r \in Rows, Publish(r) PROVE Bookkeeping'
  BY <1>1, <1>2, QuietBookkeeping
     DEF Publish, Idling, CompleteIsCovered, Covered
<1>3. ASSUME NEW c \in Ciks, IngestElsewhere(c) PROVE Bookkeeping'
  BY <1>1, <1>3, QuietBookkeeping
     DEF IngestElsewhere, CommitFilings, Idling, CompleteIsCovered, Covered
<1>4. ASSUME NEW d \in Days, PollFails(d) PROVE Bookkeeping'
  BY <1>4 DEF PollFails, Save, Bookkeeping, Idling, DoneIsDurable,
              PendingIsExpected, CompleteIsCovered, Agreement, Accounted
<1>5. CASE Crash
  BY <1>1, <1>5, ExitBookkeeping DEF Crash
<1>6. CASE LosePower
  BY <1>6, ExitBookkeeping DEF LosePower
<1>7. CASE Flush
  BY <1>1, <1>7 DEF Flush
<1>. QED
  BY <1>2, <1>3, <1>4, <1>5, <1>6, <1>7 DEF Environment

LEMMA WorkerBookkeeping ==
    ASSUME IInv, DurableCommits, NEW w \in Workers,
           WorkerProgress(w) \/ WorkerFault(w)
    PROVE  Bookkeeping'
<1> USE DEF IInv, At, outside, run, Idling, CompleteIsCovered, Covered
<1>1. /\ Idling /\ CompleteIsCovered /\ durable = db
      /\ worker \in [Workers -> [step: Steps, cik: Ciks \cup {NoCompany},
                                 fetched: SUBSET Accessions]]
  BY DEF Bookkeeping, DoneIsDurable, TypeInv, TypeOK
<1>2. ASSUME NEW c \in Ciks, Take(w, c) PROVE Bookkeeping'
  BY <1>1, <1>2, QuietBookkeeping DEF Take, Idle
<1>3. CASE Leave(w)
  BY <1>1, <1>3, QuietBookkeeping DEF Leave, Goto
<1>4. CASE Check(w)
  BY <1>1, <1>4, QuietBookkeeping DEF Check, Goto, Drop, Idle
<1>5. CASE Fetch(w)
  BY <1>1, <1>5, QuietBookkeeping DEF Fetch
<1>6. CASE Admit(w)
  BY <1>1, <1>6, QuietBookkeeping DEF Admit, Goto, Drop, Idle
<1>7. CASE Commit(w)
  BY <1>1, <1>7, QuietBookkeeping DEF Commit, CommitFilings, Goto
<1>8. CASE Verify(w)
  BY <1>1, <1>8, QuietBookkeeping DEF Verify, Goto, Drop, Idle
<1>9. CASE FetchFails(w)
  BY <1>1, <1>9, QuietBookkeeping DEF FetchFails, Drop, Idle
<1>10. CASE CommitFails(w)
  BY <1>1, <1>10, QuietBookkeeping DEF CommitFails, Drop, Idle
<1>11. ASSUME At(w, "complete") PROVE
         \A r \in Completed(mem, worker[w].cik).done : FilingOf(r) \in db
  BY <1>1, <1>11 DEF Bookkeeping, Completed, DoneIsDurable, PendingIsExpected,
                     FilingOf, TypeInv, TypeOK, Checkpoint
<1> DEFINE c == worker[w].cik
           M == Completed(mem, c)
<1>12. /\ M.done \subseteq mem.done \cup mem.pending
       /\ mem.done \subseteq M.done
       /\ phase = "work" => M.pending = mem.pending \ M.done
       /\ M.days = mem.days /\ M.ok = mem.ok
  BY DEF Completed, TypeInv, TypeOK, Checkpoint, Bookkeeping, Agreement
<1>13. CASE Complete(w)
  <2>1. /\ phase = "work" /\ mem' = M /\ disk' = M
        /\ UNCHANGED <<phase, db, durable, expected, listed, result>>
    BY <1>13 DEF Complete, Save
  <2>2. Idling' /\ CompleteIsCovered'
    BY <1>1, <1>13, <2>1 DEF Complete, Idle
  <2>3. DoneIsDurable'
    BY <1>1, <1>11, <1>13, <2>1 DEF Complete, DoneIsDurable
  <2>4. PendingIsExpected'
    BY <1>12, <2>1 DEF Bookkeeping, PendingIsExpected
  <2>5. Agreement' /\ Accounted'
    BY <1>12, <2>1 DEF Bookkeeping, Agreement, Accounted
  <2>. QED
    BY <2>2, <2>3, <2>4, <2>5 DEF Bookkeeping
<1>14. CASE CompleteUnsaved(w)
  <2>1. /\ phase = "work" /\ mem' = M /\ errors' = TRUE
        /\ UNCHANGED <<disk, phase, db, durable, expected, listed, result>>
    BY <1>14 DEF CompleteUnsaved, Drop
  <2>2. Idling' /\ CompleteIsCovered'
    BY <1>1, <1>14, <2>1 DEF CompleteUnsaved, Drop, Idle
  <2>3. DoneIsDurable'
    BY <1>1, <1>11, <1>14, <2>1 DEF CompleteUnsaved, Bookkeeping, DoneIsDurable
  <2>4. PendingIsExpected'
    BY <1>12, <2>1 DEF Bookkeeping, PendingIsExpected
  <2>5. Agreement' /\ Accounted'
    BY <1>12, <2>1 DEF Bookkeeping, Agreement, Accounted
  <2>. QED
    BY <2>2, <2>3, <2>4, <2>5 DEF Bookkeeping
<1>. QED
  BY <1>2, <1>3, <1>4, <1>5, <1>6, <1>7, <1>8, <1>9, <1>10, <1>13, <1>14
     DEF WorkerProgress, WorkerFault

LEMMA NextBookkeeping ==
    DurableCommits /\ IInv /\ [Next]_vars => Bookkeeping'
<1> SUFFICES ASSUME DurableCommits, IInv, [Next]_vars PROVE Bookkeeping'
  OBVIOUS
<1>1. CASE UNCHANGED vars
  BY <1>1 DEF vars, run, work, IInv, Bookkeeping, Idling, DoneIsDurable,
              PendingIsExpected, CompleteIsCovered, Covered, Agreement,
              Accounted
<1>2. CASE \E w \in Workers : WorkerProgress(w) \/ WorkerFault(w)
  BY <1>2, WorkerBookkeeping
<1>. QED
  BY <1>1, <1>2, MainBookkeeping, EnvironmentBookkeeping DEF Next

LEMMA InvariantHolds == DurableCommits => (Spec => []IInv)
<1> SUFFICES ASSUME DurableCommits PROVE Spec => []IInv
  OBVIOUS
<1>1. Init => IInv
  BY InitType, InitBookkeeping DEF IInv
<1>2. IInv /\ [Next]_vars => IInv'
  BY NextType, NextBookkeeping DEF IInv
<1>. QED
  BY <1>1, <1>2, PTL DEF Spec

\* Where a commit survives a loss of power, a row the checkpoint calls done
\* has its filing in the database at all times.
THEOREM DoneStaysStored == DurableCommits => (Spec => []DoneIsStored)
<1>1. IInv => DoneIsStored
  BY DEF IInv, Bookkeeping, DoneIsDurable, DoneIsStored
<1>. QED
  BY <1>1, InvariantHolds, PTL

\* A row that a poll returned is on disk, pending or done, for good.
THEOREM NothingListedIsLost == DurableCommits => (Spec => []ListedIsRecorded)
<1>1. IInv => ListedIsRecorded
  BY DEF IInv, Bookkeeping, Accounted, ListedIsRecorded
<1>. QED
  BY <1>1, InvariantHolds, PTL

\* Exit status 0 means that the checkpoint is settled and that all the run
\* listed is stored.
THEOREM SuccessIsReal == DurableCommits => (Spec => []SuccessMeansStored)
<1>1. IInv => SuccessMeansStored
  BY DEF IInv, Bookkeeping, DoneIsDurable, Accounted, SuccessMeansStored
<1>. QED
  BY <1>1, InvariantHolds, PTL

-----------------------------------------------------------------------------
(* The importer implements the ledger of discovered rows *)

LEMMA QuietLedger ==
    UNCHANGED <<disk, db>> => [Ledger!Next]_(Ledger!vars)
BY DEF Ledger!vars

LEMMA StoreLedger ==
    ASSUME IInv, IInv', UNCHANGED disk, db \subseteq db'
    PROVE  [Ledger!Next]_(Ledger!vars)
BY DEF IInv, TypeInv, TypeOK, Ledger!Next, Ledger!Store

LEMMA MainLedger ==
    ASSUME IInv, IInv', Main
    PROVE  [Ledger!Next]_(Ledger!vars)
<1> USE DEF IInv, Bookkeeping
<1>1. ASSUME NEW u \in Universes, Start(u)
      PROVE  [Ledger!Next]_(Ledger!vars)
  BY <1>1, QuietLedger DEF Start
<1>2. ASSUME NEW d \in Days, BeginDay(d)
      PROVE  [Ledger!Next]_(Ledger!vars)
  <2>1. disk'.pending = disk.pending /\ disk'.done = disk.done /\ db' = db
    BY <1>2 DEF BeginDay, Save, Agreement, TypeInv, TypeOK, Checkpoint
  <2>. QED
    BY <2>1 DEF Ledger!vars
<1>3. ASSUME NEW d \in Days, PollDay(d)
      PROVE  [Ledger!Next]_(Ledger!vars)
  <2>1. /\ disk'.pending = disk.pending \cup (IndexRows(d) \ disk.done)
        /\ disk'.done = disk.done
        /\ db' = db
    BY <1>3 DEF PollDay, Save, Recorded, Agreement, TypeInv, TypeOK,
                Checkpoint
  <2>2. disk'.pending \subseteq Rows
    BY DEF TypeInv, TypeOK, Checkpoint
  <2>. QED
    BY <2>1, <2>2 DEF Ledger!Next, Ledger!Record
<1>4. ASSUME NEW affected \in SUBSET Ciks, Plan(affected)
      PROVE  [Ledger!Next]_(Ledger!vars)
  BY <1>4, QuietLedger DEF Plan, Save, Agreement
<1>5. CASE Finish
  BY <1>5, QuietLedger DEF Finish
<1>. QED
  BY <1>1, <1>2, <1>3, <1>4, <1>5 DEF Main

LEMMA EnvironmentLedger ==
    ASSUME IInv, IInv', Environment
    PROVE  [Ledger!Next]_(Ledger!vars)
<1>1. ASSUME NEW r \in Rows, Publish(r) PROVE UNCHANGED <<disk, db>>
  BY <1>1 DEF Publish
<1>2. ASSUME NEW c \in Ciks, IngestElsewhere(c)
      PROVE  UNCHANGED disk /\ db \subseteq db'
  BY <1>2 DEF IngestElsewhere, CommitFilings
<1>3. ASSUME NEW d \in Days, PollFails(d) PROVE UNCHANGED <<disk, db>>
  BY <1>3 DEF PollFails, Save, IInv, Bookkeeping, Agreement
<1>4. Crash \/ LosePower \/ Flush => UNCHANGED <<disk, db>>
  BY DEF Crash, LosePower, Flush, IInv, Bookkeeping, DoneIsDurable
<1>. QED
  BY <1>1, <1>2, <1>3, <1>4, QuietLedger, StoreLedger DEF Environment

LEMMA WorkerLedger ==
    ASSUME IInv, IInv', NEW w \in Workers,
           WorkerProgress(w) \/ WorkerFault(w)
    PROVE  [Ledger!Next]_(Ledger!vars)
<1>1. ASSUME NEW c \in Ciks, Take(w, c) PROVE UNCHANGED <<disk, db>>
  BY <1>1 DEF Take, outside
<1>2. Leave(w) \/ Check(w) \/ Fetch(w) \/ Admit(w) \/ Verify(w)
        => UNCHANGED <<disk, db>>
  BY DEF Leave, Check, Fetch, Admit, Verify, outside
<1>3. WorkerFault(w) => UNCHANGED <<disk, db>>
  BY DEF WorkerFault, FetchFails, CommitFails, CompleteUnsaved, outside
<1>4. Commit(w) => UNCHANGED disk /\ db \subseteq db'
  BY DEF Commit, CommitFilings
<1>5. ASSUME Complete(w) PROVE Ledger!Settle
  <2> DEFINE c == worker[w].cik
             rows == {r \in mem.pending : r.cik = c}
  <2>1. /\ disk'.pending = mem.pending \ rows
        /\ disk'.done = mem.done \cup rows
        /\ db' = db /\ phase = "work" /\ phase' = "work"
    BY <1>5 DEF Complete, Save, Completed, At, IInv, TypeInv, TypeOK,
                Checkpoint
  <2>2. /\ disk.done \subseteq mem.done
        /\ mem.pending = disk.pending \ mem.done
        /\ mem.done \subseteq disk.done \cup disk.pending
        /\ disk.pending \cap disk.done = {}
    BY <2>1 DEF IInv, Bookkeeping, Agreement
  <2>3. disk.done \subseteq disk'.done /\ disk'.done \ disk.done \subseteq disk.pending
    BY <2>1, <2>2
  <2>4. disk'.pending = disk.pending \ disk'.done
    BY <2>1, <2>2
  <2>5. \A r \in disk'.done : FilingOf(r) \in db
    BY <2>1 DEF IInv, Bookkeeping, DoneIsDurable
  <2>. QED
    BY <2>1, <2>3, <2>4, <2>5 DEF Ledger!Settle
<1>. QED
  BY <1>1, <1>2, <1>3, <1>4, <1>5, QuietLedger, StoreLedger
     DEF WorkerProgress, Ledger!Next

\* Every behaviour of the importer is one of the ledger's: rows become owed
\* when recorded, and settled only once their filings are stored.
THEOREM ImporterImplementsLedger == DurableCommits => (Spec => LedgerSpec)
<1> SUFFICES ASSUME DurableCommits PROVE Spec => LedgerSpec
  OBVIOUS
<1>1. Init => Ledger!Init
  BY DEF Init, Ledger!Init, EmptyCheckpoint
<1>2. IInv /\ IInv' /\ [Next]_vars => [Ledger!Next]_(Ledger!vars)
  <2> SUFFICES ASSUME IInv, IInv', [Next]_vars
               PROVE  [Ledger!Next]_(Ledger!vars)
    OBVIOUS
  <2>1. CASE UNCHANGED vars
    BY <2>1, QuietLedger DEF vars
  <2>2. CASE \E w \in Workers : WorkerProgress(w) \/ WorkerFault(w)
    BY <2>2, WorkerLedger
  <2>. QED
    BY <2>1, <2>2, MainLedger, EnvironmentLedger DEF Next
<1>. QED
  BY <1>1, <1>2, InvariantHolds, PTL DEF Spec, LedgerSpec, Ledger!Spec
-----------------------------------------------------------------------------
(* The storage budget *)

FilingsOf(c) == {FilingOf(r) : r \in {x \in Rows : x.cik = c}}

\* What the storage test takes for granted: one company's filings fit the reserve.
FitsReserve ==
    \A c \in Ciks : IsFiniteSet(FilingsOf(c)) /\ Cardinality(FilingsOf(c)) <= Reserve

\* One thread at a time is between the test and its commit, and the test holds.
Admitted ==
    \A w \in Workers :
        /\ worker[w].step \in {"admit", "commit"} =>
              \A a \in worker[w].fetched :
                  \E r \in Rows : r.cik = worker[w].cik /\ r.accession = a
        /\ worker[w].step = "commit" =>
              Headroom /\ \A v \in Workers : worker[v].step = "commit" => v = w

BudgetInv == IsFiniteSet(db) /\ DatabaseWithinBudget /\ Admitted

\* A database that loses filings stays within what it was.
LEMMA SmallerFits ==
    ASSUME IsFiniteSet(db), DatabaseWithinBudget, db' \subseteq db
    PROVE  IsFiniteSet(db') /\ DatabaseWithinBudget' /\ (Headroom => Headroom')
<1>1. /\ IsFiniteSet(db') /\ Cardinality(db') <= Cardinality(db)
      /\ Cardinality(db') \in Nat /\ Cardinality(db) \in Nat
  BY FS_Subset, FS_CardinalityType
<1>. QED
  BY <1>1, RowsAssumption DEF DatabaseWithinBudget, Headroom

\* The end of a process leaves nobody between test and commit.
LEMMA ExitBudget ==
    ASSUME BudgetInv, NEW o, Exit(o), db' \subseteq db PROVE BudgetInv'
<1>1. \A w \in Workers : worker'[w].step = "idle"
  BY DEF Exit, Idle
<1>. QED
  BY <1>1, SmallerFits DEF BudgetInv, Admitted

\* A step of one thread that neither commits nor passes the test.
LEMMA StepBudget ==
    ASSUME TypeInv, BudgetInv, NEW w \in Workers, db' = db,
           \A v \in Workers \ {w} : worker'[v] = worker[v],
           worker'[w].step # "commit",
           worker'[w].step = "admit" =>
              \A a \in worker'[w].fetched :
                  \E r \in Rows : r.cik = worker'[w].cik /\ r.accession = a
    PROVE  BudgetInv'
<1>1. Headroom' = Headroom /\ DatabaseWithinBudget' = DatabaseWithinBudget
  BY DEF Headroom, DatabaseWithinBudget
<1>2. Admitted'
  BY <1>1 DEF BudgetInv, Admitted
<1>. QED
  BY <1>1, <1>2 DEF BudgetInv

\* The commit of the thread that was admitted.
LEMMA CommitBudget ==
    ASSUME TypeInv, BudgetInv, FitsReserve, NEW w \in Workers, Commit(w) PROVE BudgetInv'
<1>. DEFINE c == worker[w].cik
            added == Insertable(c, worker[w].fetched)
<1>1. /\ worker[w].step = "commit" /\ db' = db \cup added
      /\ worker' = [worker EXCEPT ![w].step = "verify"]
  BY DEF Commit, At, Goto, CommitFilings
<1>2. Headroom /\ \A v \in Workers : worker[v].step = "commit" => v = w
  BY <1>1 DEF BudgetInv, Admitted
<1>3. added \subseteq FilingsOf(c)
  <2>. SUFFICES ASSUME NEW a \in worker[w].fetched PROVE [cik |-> c, accession |-> a] \in FilingsOf(c)
    BY DEF Insertable
  <2>1. PICK r \in Rows : r.cik = c /\ r.accession = a
    BY <1>1 DEF BudgetInv, Admitted
  <2>. QED
    BY <2>1 DEF FilingsOf, FilingOf
<1>4. c \in Ciks
  BY <1>1 DEF TypeInv, HoldsCompany
<1>5. /\ IsFiniteSet(added) /\ Cardinality(added) <= Reserve /\ Cardinality(added) \in Nat
  <2>1. IsFiniteSet(FilingsOf(c)) /\ Cardinality(FilingsOf(c)) <= Reserve
    BY <1>4 DEF FitsReserve
  <2>. HIDE DEF added
  <2>2. /\ IsFiniteSet(added) /\ Cardinality(added) <= Cardinality(FilingsOf(c))
        /\ Cardinality(added) \in Nat /\ Cardinality(FilingsOf(c)) \in Nat
    BY <1>3, <2>1, FS_Subset, FS_CardinalityType
  <2>. QED
    BY <2>1, <2>2, RowsAssumption
<1>6. /\ IsFiniteSet(db')
      /\ Cardinality(db') <= Cardinality(db) + Cardinality(added)
  <2>. HIDE DEF added
  <2>1. IsFiniteSet(db) /\ Cardinality(db) \in Nat
    BY FS_CardinalityType DEF BudgetInv
  <2>2. IsFiniteSet(db \cup added) /\ Cardinality(db \cap added) \in Nat
        /\ Cardinality(db \cup added) = Cardinality(db) + Cardinality(added) - Cardinality(db \cap added)
    BY <1>5, <2>1, FS_Union, FS_Intersection, FS_CardinalityType
  <2>. QED
    BY <1>1, <1>5, <2>1, <2>2
<1>7. DatabaseWithinBudget'
  <2>1. Cardinality(db) \in Nat /\ Cardinality(db') \in Nat
    BY <1>6, FS_CardinalityType DEF BudgetInv
  <2>. HIDE DEF added
  <2>. QED
    BY <1>2, <1>5, <1>6, <2>1, RowsAssumption DEF Headroom, DatabaseWithinBudget
<1>8. Admitted'
  <2>1. /\ worker'[w].step = "verify"
        /\ \A v \in Workers \ {w} : worker'[v] = worker[v]
    BY <1>1 DEF TypeInv, TypeOK
  <2>. QED
    BY <1>2, <2>1 DEF BudgetInv, Admitted
<1>. QED
  BY <1>6, <1>7, <1>8 DEF BudgetInv

LEMMA WorkerBudget ==
    ASSUME TypeInv, BudgetInv, FitsReserve, NEW w \in Workers, WorkerProgress(w) \/ WorkerFault(w)
    PROVE  BudgetInv'
<1>. USE DEF outside
<1>0. worker \in [Workers -> [step: Steps, cik: Ciks \cup {NoCompany}, fetched: SUBSET Accessions]]
  BY DEF TypeInv, TypeOK
<1>1. ASSUME db' = db, NEW s \in {"gone", "complete", "fetch", "verify"}, Goto(w, s) PROVE BudgetInv'
  <2>1. worker'[w].step = s /\ \A v \in Workers \ {w} : worker'[v] = worker[v]
    BY <1>0, <1>1 DEF Goto
  <2>. QED
    BY <1>1, <2>1, StepBudget
<1>2. ASSUME db' = db, worker' = [worker EXCEPT ![w] = Idle] PROVE BudgetInv'
  <2>1. worker'[w].step = "idle" /\ \A v \in Workers \ {w} : worker'[v] = worker[v]
    BY <1>0, <1>2 DEF Idle
  <2>. QED
    BY <1>2, <2>1, StepBudget
<1>3. ASSUME NEW c \in Ciks, Take(w, c) PROVE BudgetInv'
  <2>1. worker'[w].step = "check" /\ db' = db /\ \A v \in Workers \ {w} : worker'[v] = worker[v]
    BY <1>0, <1>3 DEF Take, Idle
  <2>. QED
    BY <2>1, StepBudget
<1>4. CASE Leave(w)
  BY <1>1, <1>4 DEF Leave
<1>5. CASE Check(w)
  BY <1>1, <1>2, <1>5 DEF Check, Drop
<1>6. CASE Fetch(w)
  <2>1. /\ worker'[w].step = "admit" /\ worker'[w].cik = worker[w].cik
        /\ worker'[w].fetched = Submissions(worker[w].cik)
        /\ db' = db /\ \A v \in Workers \ {w} : worker'[v] = worker[v]
    BY <1>0, <1>6 DEF Fetch
  <2>2. \A a \in Submissions(worker[w].cik) :
           \E r \in Rows : r.cik = worker[w].cik /\ r.accession = a
    BY DEF Submissions, TypeInv, TypeOK
  <2>. QED
    BY <2>1, <2>2, StepBudget
<1>7. CASE Admit(w)
  <2>1. CASE Drop(w)
    BY <1>2, <1>7, <2>1 DEF Admit, Drop
  <2>2. CASE Headroom /\ Goto(w, "commit")
    <3>1. /\ worker[w].step = "admit" /\ db' = db
          /\ \A v \in Workers : worker[v].step # "commit"
      BY <1>7 DEF Admit, At
    <3>2. /\ worker'[w].step = "commit" /\ worker'[w].cik = worker[w].cik
          /\ worker'[w].fetched = worker[w].fetched
          /\ \A v \in Workers \ {w} : worker'[v] = worker[v]
      BY <1>0, <2>2 DEF Goto
    <3>3. Headroom' /\ DatabaseWithinBudget'
      BY <2>2, <3>1 DEF Headroom, BudgetInv, DatabaseWithinBudget
    <3>. QED
      BY <3>1, <3>2, <3>3 DEF BudgetInv, Admitted
  <2>. QED
    BY <1>7, <2>1, <2>2 DEF Admit
<1>8. CASE Commit(w)
  BY <1>8, CommitBudget
<1>9. CASE Verify(w)
  BY <1>1, <1>2, <1>9 DEF Verify, Drop
<1>10. CASE Complete(w) \/ CompleteUnsaved(w)
  BY <1>2, <1>10 DEF Complete, CompleteUnsaved, Drop
<1>11. CASE FetchFails(w) \/ CommitFails(w)
  BY <1>2, <1>11 DEF FetchFails, CommitFails, Drop
<1>. QED
  BY <1>3, <1>4, <1>5, <1>6, <1>7, <1>8, <1>9, <1>10, <1>11 DEF WorkerProgress, WorkerFault

\* Threads that pass the storage test one after the other never take the
\* database over its cap, however many there are and wherever runs die
\* (require_storage in the commit section), where nobody else writes and no
\* company has more filings than the reserve.
THEOREM BudgetIsKept == ~OtherWriters /\ FitsReserve => (Spec => []DatabaseWithinBudget)
<1>. SUFFICES ASSUME ~OtherWriters, FitsReserve PROVE Spec => []DatabaseWithinBudget
  OBVIOUS
<1>1. Init => BudgetInv
  <2>. SUFFICES ASSUME Init PROVE BudgetInv
    OBVIOUS
  <2>1. IsFiniteSet(db) /\ DatabaseWithinBudget
    BY FS_EmptySet, RowsAssumption DEF Init, DatabaseWithinBudget
  <2>2. Admitted
    BY DEF Init, Admitted, Idle
  <2>. QED
    BY <2>1, <2>2 DEF BudgetInv
<1>2. TypeInv /\ BudgetInv /\ [Next]_vars => BudgetInv'
  <2>. SUFFICES ASSUME TypeInv, BudgetInv, [Next]_vars PROVE BudgetInv'
    OBVIOUS
  <2>1. ASSUME UNCHANGED <<db, worker>> PROVE BudgetInv'
    BY <2>1 DEF BudgetInv, DatabaseWithinBudget, Admitted, Headroom
  <2>2. CASE Main
    <3>1. CASE Finish
      BY <3>1, ExitBudget DEF Finish
    <3>. QED
      BY <2>1, <2>2, <3>1 DEF Main, Start, BeginDay, PollDay, Plan, work
  <2>3. CASE Environment
    <3>1. CASE Crash \/ LosePower
      BY <3>1, ExitBudget DEF Crash, LosePower, TypeInv, TypeOK
    <3>. QED
      BY <2>1, <2>3, <3>1 DEF Environment, Publish, IngestElsewhere, PollFails, Flush, work
  <2>4. CASE UNCHANGED vars
    BY <2>1, <2>4 DEF vars, work
  <2>. QED
    BY <2>2, <2>3, <2>4, WorkerBudget DEF Next
<1>3. BudgetInv => DatabaseWithinBudget
  BY DEF BudgetInv
<1>. QED
  BY <1>1, <1>2, <1>3, InitType, NextType, PTL DEF Spec

=============================================================================
