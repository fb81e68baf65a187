------------------------------- MODULE Repairs -------------------------------
(***************************************************************************)
(* The catch-up and repair scripts of src/scripts, run against one         *)
(* database: catch_up_missing_reports.py ("serial") and its parallel       *)
(* successor ("catchup"), run_second_sweep.py, finalize_remaining_backlog  *)
(* .py, backfill_report_cards.py and refresh_all_report_scores.py          *)
(* ("scores").  Each loads its rows once and hands them to its workers;    *)
(* the write guard of each process excludes its own threads only.          *)
(*                                                                         *)
(* What the database holds of a company is a set of kinds of row and the   *)
(* stage of its report; Facts and ReportCards say what the rows contain.   *)
(* The order in which a script hands out its rows is left out, and so are  *)
(* the options that narrow them to one ticker or to the first few.         *)
(***************************************************************************)
EXTENDS Integers, FiniteSets, TLC

CONSTANTS
    Held,       \* company |-> the kinds of row the database holds of it at the start
    Obtainable, \* company |-> what its filings and facts may give: sets of kinds
    ScriptOf,   \* worker |-> the script it belongs to
    RefreshAll, \* whether the sweep rebuilds what is there
    ScriptsRun, \* how many of the scripts are run
    MaxResets,  \* bound on resets of the report cards
    MaxRowErrors \* bound on rows that end in an error

ASSUME RepairsAssumption == ScriptsRun \in Nat /\ MaxResets \in Nat
    /\ MaxRowErrors \in Nat /\ RefreshAll \in BOOLEAN
    /\ \A w \in DOMAIN ScriptOf :
          ScriptOf[w] \in {"catchup", "serial", "sweep", "finalizer", "backfill", "scores"}

VARIABLES
    gives,      \* company |-> the kinds its filings and facts give; never changes
    db,         \* company |-> [kinds, stage], a subset of Kinds and the stage of its report
    phase,      \* script |-> "idle", "coverage", "running" or "done"
    queue,      \* script |-> the rows loaded and not handed out, by company
    job,        \* worker |-> what it is doing
    resets,     \* resets of the report cards
    rowErrors,  \* rows that ended in an error
    swept       \* companies the sweep has finished since the last reset, neither in error nor blocked

repairVars == <<gives, db, phase, queue, job, resets, rowErrors, swept>>

Kinds == {"filings", "raw", "canonical", "statements", "card"}
Companies == DOMAIN Held
Hands == DOMAIN ScriptOf
Scripts == {ScriptOf[w] : w \in Hands}

NoJob == [company |-> 0]
Unseen == [kinds |-> {}, stage |-> "none"]
Without(c, kind) == kind \notin db[c].kinds
With(c, kinds) == db[c].kinds \cup (kinds \cap gives[c])

-----------------------------------------------------------------------------
(* Rows *)

\* Both catch-ups take what has no report.
MissingReports == {c \in Companies : db[c].stage = "none"}

SweepRows ==
    {c \in Companies :
        /\ ~Without(c, "raw")
        /\ \/ RefreshAll
           \/ {"canonical", "statements", "card"} \ db[c].kinds # {}
           \/ db[c].stage # "reports-ready"}

BacklogRows == {c \in Companies : db[c].stage \notin {"reports-ready", "parked"}}

Reported == {c \in Companies : db[c].stage # "none"}

\* Missing cards only, unless the cards have been reset or all are asked for.
CardRows(reset) == {Reported} \cup IF reset THEN {} ELSE {{c \in Reported : Without(c, "card")}}

\* The reports last written before today may be any of them.
ScoreRows == SUBSET Reported

RowChoices(s, reset) ==
    CASE s \in {"catchup", "serial"} -> {MissingReports}
      [] s = "sweep" -> {SweepRows}
      [] s = "finalizer" -> {BacklogRows}
      [] s = "backfill" -> CardRows(reset)
      [] s = "scores" -> ScoreRows

StartScript(s, reset) ==
    /\ phase[s] = "idle"
    /\ reset => s = "backfill" /\ resets < MaxResets
    /\ phase' = [phase EXCEPT ![s] = IF s = "catchup" THEN "coverage" ELSE "running"]
    /\ \E rows \in RowChoices(s, reset) : queue' = [queue EXCEPT ![s] = [c \in rows |-> db[c]]]
    /\ db' = IF reset THEN [c \in Companies |-> [db[c] EXCEPT !.kinds = @ \ {"card"}]] ELSE db
    /\ resets' = IF reset THEN resets + 1 ELSE resets
    /\ swept' = IF reset THEN {} ELSE swept
    /\ UNCHANGED <<job, rowErrors>>

\* The catch-up loads its rows again between its two stages.
EndPhase(s) ==
    /\ phase[s] \in {"coverage", "running"} /\ queue[s] = <<>>
    /\ \A w \in Hands : ScriptOf[w] = s => job[w] = NoJob
    /\ phase' = [phase EXCEPT ![s] = IF @ = "coverage" THEN "running" ELSE "done"]
    /\ queue' = [queue EXCEPT ![s] = IF phase[s] = "coverage" THEN [c \in MissingReports |-> db[c]] ELSE <<>>]
    /\ UNCHANGED <<db, job, resets, swept, rowErrors>>

FirstStep(s) ==
    CASE s = "catchup" /\ phase[s] = "coverage" -> "filings"
      [] s = "serial" -> "filings"
      [] s = "sweep" -> "normalize"
      [] s = "finalizer" -> "finalize"
      [] OTHER -> "build"

TakeRow(w) ==
    /\ job[w] = NoJob
    /\ \E c \in DOMAIN queue[ScriptOf[w]] :
         /\ queue' = [queue EXCEPT ![ScriptOf[w]] = [d \in DOMAIN @ \ {c} |-> @[d]]]
         /\ job' = [job EXCEPT ![w] = [company |-> c, step |-> FirstStep(ScriptOf[w]), row |-> queue[ScriptOf[w]][c], had |-> {}, did |-> FALSE, seen |-> Unseen, resets |-> 0]]
    /\ UNCHANGED <<db, phase, resets, swept, rowErrors>>

\* An error ends the work on the row; its transaction is rolled back.
RowFails(w) ==
    /\ job[w] # NoJob /\ rowErrors < MaxRowErrors
    /\ job' = [job EXCEPT ![w] = NoJob]
    /\ rowErrors' = rowErrors + 1
    /\ UNCHANGED <<db, phase, queue, resets, swept>>

-----------------------------------------------------------------------------
(* Steps *)

Store(c, kinds, stage) == db' = [db EXCEPT ![c] = [kinds |-> kinds, stage |-> stage]]

AtStep(w, step) == job[w] # NoJob /\ job[w].step = step

\* The serial catch-up goes on where a step fails; in the other scripts a
\* failure ends the row.
MayFail(w) == IF ScriptOf[w] = "serial" THEN BOOLEAN ELSE {TRUE}

\* Filings, then facts are fetched for a company that has none of them, each
\* in a transaction of its own; the serial catch-up passes a parked one by.
EnsureCompanyCoverage(w) ==
    /\ \/ AtStep(w, "filings") \/ AtStep(w, "facts")
    /\ LET c == job[w].company
           parked == ScriptOf[w] = "serial" /\ AtStep(w, "filings") /\ db[c].stage = "parked"
           kind == IF AtStep(w, "facts") THEN "raw" ELSE "filings"
           next == IF AtStep(w, "filings") THEN "facts" ELSE IF ScriptOf[w] = "serial" THEN "choose" ELSE "none"
       IN /\ \E done \in MayFail(w) : Store(c, IF done /\ ~parked THEN With(c, {kind}) ELSE db[c].kinds, db[c].stage)
          /\ job' = [job EXCEPT ![w] = IF parked \/ next = "none" THEN NoJob
                                       ELSE [@ EXCEPT !.step = next, !.row = Unseen,
                                             !.did = kind = "raw" /\ Without(c, "raw") /\ "raw" \notin gives[c]]]
    /\ UNCHANGED <<phase, queue, resets, swept, rowErrors>>

\* The serial catch-up ends with a partial report where it finds none, or
\* where the SEC has no facts to give, which parks the company.
ChooseStep(w) ==
    /\ AtStep(w, "choose")
    /\ LET c == job[w].company
           noFacts == job[w].did
           has(kind) == ~Without(c, kind)
           seeds == has("filings") /\ ((has("raw") /\ db[c].stage = "none") \/ noFacts)
           step == CASE seeds -> "seed"
                     [] ~seeds /\ has("raw") /\ ~has("canonical") -> "canonicalize"
                     [] ~seeds /\ has("canonical") -> "snapshots"
                     [] OTHER -> "build"
       IN job' = [job EXCEPT ![w].step = step, ![w].did = step = "seed" /\ noFacts /\ ~has("raw"),
                             ![w].seen = IF step = "seed" THEN db[c] ELSE Unseen]
    /\ UNCHANGED <<db, phase, queue, resets, swept, rowErrors>>

\* A company whose facts come out as no canonical fact is parked.
CanonicalizeCompany(w) ==
    /\ AtStep(w, "canonicalize")
    /\ LET c == job[w].company
       IN \E after \in {db[c].kinds, With(c, {"canonical"})} :
            /\ Store(c, after, db[c].stage)
            /\ job' = [job EXCEPT ![w] = IF "canonical" \in after THEN [@ EXCEPT !.step = "snapshots"]
                                         ELSE [@ EXCEPT !.step = "seed", !.did = TRUE, !.seen = [kinds |-> after, stage |-> db[c].stage]]]
    /\ UNCHANGED <<phase, queue, resets, swept, rowErrors>>

SnapshotCompany(w) ==
    /\ AtStep(w, "snapshots")
    /\ LET c == job[w].company IN \E done \in BOOLEAN : Store(c, IF done THEN With(c, {"statements"}) ELSE db[c].kinds, db[c].stage)
    /\ job' = [job EXCEPT ![w].step = "build"]
    /\ UNCHANGED <<phase, queue, resets, swept, rowErrors>>

PartialStage(seen) ==
    CASE "canonical" \in seen.kinds -> IF "raw" \in seen.kinds THEN "reports-ready" ELSE "archive-dependent-incomplete"
      [] OTHER -> IF "raw" \in seen.kinds THEN "facts-ingested" ELSE "filings-only"

\* The sweep does not read what the normalisation returns, and a commit that
\* fails in it is swallowed: there may be no canonical facts after it.
NormalizeRow(w) ==
    /\ AtStep(w, "normalize")
    /\ LET c == job[w].company
           run == Without(c, "canonical") /\ "raw" \in job[w].row.kinds
       IN \E after \in {db[c].kinds} \cup (IF run THEN {With(c, {"canonical"})} ELSE {}) :
            /\ Store(c, after, db[c].stage)
            /\ job' = [job EXCEPT ![w].step = "statements", ![w].had = db[c].kinds \cap {"statements"}, ![w].did = run /\ "canonical" \in after]
    /\ UNCHANGED <<phase, queue, resets, swept, rowErrors>>

CanonicalAfter(w) == ~Without(job[w].company, "canonical")

\* Mutant of NeedsReport: only what has just been built asks for a report.
NeedsReportAfterWork(w, built) == RefreshAll \/ job[w].did \/ built

NeedsReport(w, built) ==
    \/ RefreshAll \/ job[w].row.stage # "reports-ready" \/ "card" \notin job[w].row.kinds
    \/ job[w].did \/ built

BuildStatements(w) ==
    /\ AtStep(w, "statements")
    /\ LET c == job[w].company
           run == CanonicalAfter(w) /\ ("statements" \notin job[w].had \/ RefreshAll)
           after == IF run THEN With(c, {"statements"}) ELSE db[c].kinds
           needed == NeedsReport(w, run /\ "statements" \in after)
       IN /\ Store(c, after, db[c].stage)
          /\ job' = [job EXCEPT ![w].step = IF CanonicalAfter(w) /\ needed THEN "build" ELSE "finish",
                                ![w].had = after \cap {"canonical", "statements"}, ![w].did = FALSE,
                                ![w].row = Unseen, ![w].resets = resets]
    /\ UNCHANGED <<phase, queue, resets, swept, rowErrors>>

\* A report is built from what its transaction has read ...
BeginReport(w) ==
    /\ AtStep(w, "build")
    /\ job' = [job EXCEPT ![w].step = "commit", ![w].seen = db[job[w].company], ![w].row = Unseen, ![w].resets = resets]
    /\ UNCHANGED <<db, phase, queue, resets, swept, rowErrors>>

BuiltStage(seen) == IF "raw" \in seen.kinds THEN "unvalidated" ELSE "archive-dependent-incomplete"
CardGiven(c, seen) == IF "filings" \in seen.kinds THEN {"card"} \cap gives[c] ELSE {}

\* ... and is lost when another process has inserted the same row meanwhile.
Inserted(c, seen) == (seen.stage = "none" /\ db[c].stage # "none") \/ ("card" \notin seen.kinds /\ ~Without(c, "card"))

CommitReport(w) ==
    /\ AtStep(w, "commit")
    /\ LET c == job[w].company
           seen == job[w].seen
       IN /\ ~Inserted(c, seen)
          /\ Store(c, IF "card" \in seen.kinds THEN db[c].kinds ELSE db[c].kinds \cup CardGiven(c, seen), BuiltStage(seen))
    /\ job' = [job EXCEPT ![w].step = "finish", ![w].seen = Unseen]
    /\ UNCHANGED <<phase, queue, resets, swept, rowErrors>>

\* What is lost is logged, and the worker goes on with the next row.
LoseReport(w) ==
    /\ AtStep(w, "commit") /\ Inserted(job[w].company, job[w].seen)
    /\ job' = [job EXCEPT ![w] = NoJob]
    /\ UNCHANGED <<db, phase, queue, resets, swept, rowErrors>>

SeedReport(w) ==
    /\ AtStep(w, "seed")
    /\ LET c == job[w].company
           seen == job[w].seen
           lost == seen.stage = "none" /\ db[c].stage # "none"
       IN Store(c, db[c].kinds, IF lost THEN db[c].stage ELSE IF job[w].did THEN "parked" ELSE PartialStage(seen))
    /\ job' = [job EXCEPT ![w] = NoJob]
    /\ UNCHANGED <<phase, queue, resets, swept, rowErrors>>

\* The sweep counts a row as blocked when it found no canonical facts, or no
\* statements, after its own steps.
Blocked(w) == {"canonical", "statements"} \ job[w].had # {}

FinishRow(w) ==
    /\ AtStep(w, "finish")
    /\ job' = [job EXCEPT ![w] = NoJob]
    /\ swept' = IF ScriptOf[w] = "sweep" /\ job[w].resets = resets /\ ~Blocked(w) THEN swept \cup {job[w].company} ELSE swept
    /\ UNCHANGED <<db, phase, queue, resets, rowErrors>>

\* The finalizer normalises what has no canonical facts; a failure there parks.
FinalizeCompany(w) ==
    /\ AtStep(w, "finalize")
    /\ LET c == job[w].company
           tries == "raw" \in job[w].row.kinds /\ Without(c, "canonical")
       IN \E after \in IF tries THEN {db[c].kinds, With(c, {"canonical"})} ELSE {db[c].kinds} :
            /\ Store(c, after, db[c].stage)
            /\ job' = [job EXCEPT ![w].step = "park", ![w].seen = [kinds |-> after, stage |-> db[c].stage]]
    /\ UNCHANGED <<phase, queue, resets, swept, rowErrors>>

\* Statements and a report are built for a company with canonical facts; a
\* report that does not come out ready is replaced by a parked one, in the
\* transaction that is committed.
ParkCompany(w) ==
    /\ AtStep(w, "park")
    /\ LET c == job[w].company
           seen == job[w].seen
           built == "raw" \in job[w].row.kinds /\ "canonical" \in seen.kinds
           lost == Inserted(c, IF built THEN seen ELSE [seen EXCEPT !.kinds = @ \cup {"card"}])
           cards == IF "card" \in seen.kinds THEN {} ELSE CardGiven(c, seen)
           ready == built /\ BuiltStage(seen) = "reports-ready"
       IN IF lost THEN UNCHANGED db
          ELSE Store(c, IF built THEN With(c, {"statements"}) \cup cards ELSE db[c].kinds, IF ready THEN "reports-ready" ELSE "parked")
    /\ job' = [job EXCEPT ![w] = NoJob]
    /\ UNCHANGED <<phase, queue, resets, swept, rowErrors>>

-----------------------------------------------------------------------------
RepairsInit ==
    /\ gives \in {g \in [Companies -> SUBSET Kinds] : \A c \in Companies : g[c] \in Obtainable[c]}
    /\ db = [c \in Companies |-> [kinds |-> Held[c], stage |-> "none"]]
    /\ phase \in [Scripts -> {"idle", "done"}] /\ Cardinality({s \in Scripts : phase[s] = "idle"}) = ScriptsRun
    /\ queue = [s \in Scripts |-> <<>>]
    /\ job = [w \in Hands |-> NoJob]
    /\ resets = 0 /\ rowErrors = 0 /\ swept = {}

RepairStep(w) ==
    \/ EnsureCompanyCoverage(w) \/ ChooseStep(w)
    \/ CanonicalizeCompany(w) \/ SnapshotCompany(w) \/ SeedReport(w)
    \/ NormalizeRow(w) \/ BuildStatements(w)
    \/ BeginReport(w) \/ CommitReport(w) \/ LoseReport(w)
    \/ FinishRow(w)
    \/ FinalizeCompany(w) \/ ParkCompany(w)

RepairsNext ==
    /\ UNCHANGED gives
    /\ \/ \E s \in Scripts, reset \in BOOLEAN : StartScript(s, reset)
       \/ \E s \in Scripts : EndPhase(s)
       \/ \E w \in Hands : TakeRow(w) \/ RowFails(w) \/ RepairStep(w)

RepairsSpec == RepairsInit /\ [][RepairsNext]_repairVars

-----------------------------------------------------------------------------
(* Properties *)

\* Whatever runs beside it, and whatever its normalisation lost, a company the
\* sweep counted neither in error nor as blocked has canonical facts,
\* statements and a report, and the card its filings can give; only a reset of
\* the report cards while it was built takes its card.
\* (run_second_sweep.py 80-119)
SweptIsComplete ==
    \A c \in swept :
        /\ {"canonical", "statements"} \subseteq db[c].kinds
        /\ db[c].stage # "none"
        /\ "filings" \in db[c].kinds /\ "card" \in gives[c] => "card" \in db[c].kinds

\* A parked company has no company facts, as its report says.
\* (report_machine.py 1169-1180; finalize_remaining_backlog.py 201-216)
ParkedLacksFacts == \A c \in Companies : db[c].stage = "parked" => "raw" \notin db[c].kinds

=============================================================================
