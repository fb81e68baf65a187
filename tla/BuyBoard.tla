------------------------------- MODULE BuyBoard -------------------------------
(***************************************************************************)
(* research/buy_board.py, research/cache_warmer.py and the write guard of  *)
(* db/session.py: three kinds of thread of the API process that write the  *)
(* same candidate rows.  The machine rebuilds a report and syncs its       *)
(* candidate; the cache warmer syncs the candidates of every report once   *)
(* per start of the process; the buy board prices the active candidates,   *)
(* at its hours and on request.                                            *)
(*                                                                         *)
(* A session loads rows, changes its copies and writes at commit only the  *)
(* columns it changed (autoflush is off).  On SQLite the guard is a lock   *)
(* of the process, on PostgreSQL it is nothing.                            *)
(***************************************************************************)
EXTENDS Integers, FiniteSets, FiniteSetsExt, TLC
CONSTANTS
    Issuers,      \* companies, in the order of their tickers: numbers
    Builds,       \* what the machine may build of a company: reports
    Quotes,       \* prices in cents
    MaxRebuilds,  \* bound on rebuilt reports
    MaxReviews,   \* bound on reviews that validate a report
    MaxRestarts   \* bound on restarts of the process
Missing == -1
Rejected == -2  \* a quote refused for good
Unusable == -3    \* any other answer without a usable price
\* In cents per share, rounded down; the multiple is in 1/180.
Multiple(r) ==
    1440 + 18 * Max({0, r.quality - 50}) + Max({0, Min({1440, 10 * r.growth})})
         + (IF r.stance = "MOST_BULLISH" THEN 270 ELSE 135)
EarningsPower(r) == IF r.owner # Missing /\ r.owner > 0 THEN r.owner ELSE r.net
CcValuation(r) ==
    IF /\ r.quality # Missing
       /\ r.annual
       /\ EarningsPower(r) > 0
       /\ r.shares > 0
    THEN (100 * EarningsPower(r) * Multiple(r)) \div (180 * r.shares)
    ELSE Missing
Validated(r) ==
    /\ r.status = "VALIDATED"
    /\ r.rule = "FINANCIAL_INPUT_SAFETY_V1"
    /\ r.grade \in {"A", "B", "C", "D", "F"}
    /\ r.gradeScore = r.score
    /\ r.raw > 0
Qualifies(r) ==
    /\ Validated(r)
    /\ r.stance \in {"MOST_BULLISH", "BULLISH"}
    /\ r.score >= 70
    /\ r.tier = "ADEQUATE"
    /\ r.canonical > 0
    /\ r.quality >= 60
    /\ r.growth > 0
    /\ r.owner > 0 \/ r.net > 0
-----------------------------------------------------------------------------
Actors == {"machine", "warmer", "scheduled", "manual"}
Refreshers == {"scheduled", "manual"}
NoHolder == "nobody"

NoRow == [status |-> "NONE"]

NewRow ==
    [status |-> "ACTIVE", firstVal |-> Missing, val |-> Missing, firstPrice |-> Missing,
     price |-> Missing, error |-> FALSE]

VARIABLES
    sqlite,    \* the database is SQLite; never changes
    report,    \* company_reports: the report of each company
    board,     \* buy_board_candidates: the row of each company
    guard,     \* who holds _SQLITE_WRITE_LOCK
    thread,    \* what each thread is about to do
    seen,      \* the reports and rows a thread's session loaded
    warm,      \* CacheWarmSnapshot.phase
    stop,      \* _stop of the warmer
    raced,     \* companies the warmer synced from a report rebuilt since
    boardBounds  \* rebuilds, reviews and restarts so far

boardVars == <<sqlite, report, board, guard, thread, seen, warm, stop, raced, boardBounds>>

Nothing == [c \in {} |-> NoRow]
NoSession == [reports |-> Nothing, rows |-> Nothing]

BoardInit ==
    /\ sqlite \in BOOLEAN
    /\ report \in [Issuers -> Builds]
    /\ board = [c \in Issuers |-> NoRow]
    /\ guard = NoHolder
    /\ thread = [a \in Actors |-> IF a = "warmer" THEN "count" ELSE "idle"]
    /\ seen = [a \in Actors |-> NoSession]
    /\ warm = "queued"
    /\ stop = FALSE
    /\ raced = {}
    /\ boardBounds = [rebuilds |-> 0, reviews |-> 0, restarts |-> 0]

GuardFree(a) == sqlite => guard \in {NoHolder, a}

Hold(a) == guard' = IF sqlite THEN a ELSE guard

\* The session is closed.
Close(a) == seen' = [seen EXCEPT ![a] = NoSession]

Release == guard' = IF sqlite THEN NoHolder ELSE guard

-----------------------------------------------------------------------------
(* Sessions *)

\* Mutant of Merged: a commit writes every column it loaded.
MergedWhole(row, loaded, changed) == changed

\* A commit writes the columns whose copy differs from what was loaded.
Merged(row, loaded, changed) ==
    IF loaded = NoRow THEN changed
    ELSE [f \in DOMAIN changed |-> IF changed[f] # loaded[f] THEN changed[f] ELSE row[f]]

\* An insert of a row somebody else inserted since breaks company_id's constraint.
Conflicts(a, copy) ==
    \E c \in DOMAIN copy :
        copy[c] # NoRow /\ seen[a].rows[c] = NoRow /\ board[c] # NoRow

WriteRows(a, copy) ==
    board' = [c \in Issuers |->
                 IF c \in DOMAIN copy /\ copy[c] # NoRow
                 THEN Merged(board[c], seen[a].rows[c], copy[c]) ELSE board[c]]

\* Mutant of Sync: a company that no longer qualifies keeps its status.
SyncKeepsStatus(row, r) ==
    IF ~Qualifies(r)
    THEN IF row = NoRow THEN NoRow
         ELSE [row EXCEPT !.val = CcValuation(r)]
    ELSE LET base == IF row = NoRow THEN NewRow ELSE row
         IN [base EXCEPT !.status = "ACTIVE", !.val = CcValuation(r),
                !.firstVal = IF @ = Missing THEN CcValuation(r) ELSE @]

Sync(row, r) ==
    IF ~Qualifies(r)
    THEN IF row = NoRow THEN NoRow
         ELSE [row EXCEPT !.status = "MONITOR", !.val = CcValuation(r)]
    ELSE LET base == IF row = NoRow THEN NewRow ELSE row
         IN [base EXCEPT !.status = "ACTIVE", !.val = CcValuation(r),
                !.firstVal = IF @ = Missing THEN CcValuation(r) ELSE @]

\* The copies of a session that syncs what it loaded.
Synced(a) == [c \in DOMAIN seen[a].rows |-> Sync(seen[a].rows[c], seen[a].reports[c])]

-----------------------------------------------------------------------------
(* The machine, and the review outside this code *)

\* _build_report and _build_report_lane: load, rebuild and sync in one session.
RebuildLoad(c, r) ==
    /\ thread["machine"] = "idle"
    /\ boardBounds.rebuilds < MaxRebuilds
    /\ GuardFree("machine")
    /\ Hold("machine")
    /\ thread' = [thread EXCEPT !["machine"] = "commit"]
    /\ seen' = [seen EXCEPT !["machine"] =
                    [reports |-> [d \in {c} |-> r], rows |-> [d \in {c} |-> board[d]]]]
    /\ boardBounds' = [boardBounds EXCEPT !.rebuilds = @ + 1]
    /\ UNCHANGED <<sqlite, report, board, warm, stop, raced>>

\* A conflict rolls the report back with the row.
RebuildCommit ==
    LET ok == ~Conflicts("machine", Synced("machine"))
    IN  /\ thread["machine"] = "commit"
        /\ report' = IF ok THEN [c \in Issuers |-> IF c \in DOMAIN seen["machine"].reports
                                                  THEN seen["machine"].reports[c] ELSE report[c]]
                     ELSE report
        /\ IF ok THEN WriteRows("machine", Synced("machine")) ELSE UNCHANGED board
        /\ raced' = IF ok THEN raced \ DOMAIN seen["machine"].rows ELSE raced
        /\ thread' = [thread EXCEPT !["machine"] = "idle"]
        /\ Release
        /\ Close("machine")
        /\ UNCHANGED <<sqlite, warm, stop, boardBounds>>

\* Nothing in src/ marks a report VALIDATED: an independent review does.
Review(c) ==
    /\ boardBounds.reviews < MaxReviews
    /\ guard = NoHolder
    /\ report[c].status # "VALIDATED"
    /\ report' = [report EXCEPT ![c].status = "VALIDATED",
                                ![c].stance = "BULLISH",
                                ![c].grade = "B"]
    /\ boardBounds' = [boardBounds EXCEPT !.reviews = @ + 1]
    /\ UNCHANGED <<sqlite, board, guard, thread, seen, warm, stop, raced>>

-----------------------------------------------------------------------------
(* The cache warmer *)

\* Every company has a report here: the backlog that defers it is a choice.
WarmCount(pending) ==
    /\ thread["warmer"] = "count"
    /\ warm' = IF pending THEN "deferred" ELSE "buy_board_backfill"
    /\ thread' = [thread EXCEPT !["warmer"] = IF pending THEN "end" ELSE "backfill"]
    /\ UNCHANGED <<sqlite, report, board, guard, seen, stop, raced, boardBounds>>

WarmBackfill ==
    /\ thread["warmer"] = "backfill"
    /\ GuardFree("warmer")
    /\ seen' = [seen EXCEPT !["warmer"] = [reports |-> report, rows |-> board]]
    /\ thread' = [thread EXCEPT !["warmer"] = "check"]
    /\ UNCHANGED <<sqlite, report, board, guard, warm, stop, raced, boardBounds>>

WarmCheckStop ==
    /\ thread["warmer"] = "check"
    /\ warm' = IF stop THEN "stopped" ELSE warm
    /\ thread' = [thread EXCEPT !["warmer"] = IF stop THEN "end" ELSE "commit"]
    /\ IF stop THEN Close("warmer") ELSE UNCHANGED seen
    /\ UNCHANGED <<sqlite, report, board, guard, stop, raced, boardBounds>>

WarmCommit ==
    LET ok == ~Conflicts("warmer", Synced("warmer"))
    IN  /\ thread["warmer"] = "commit"
        /\ GuardFree("warmer")
        /\ IF ok THEN WriteRows("warmer", Synced("warmer")) ELSE UNCHANGED board
        /\ raced' = IF ok THEN raced \cup {c \in Issuers : seen["warmer"].reports[c] # report[c]}
                          ELSE raced
        /\ warm' = IF ok THEN "complete" ELSE "failed"
        /\ thread' = [thread EXCEPT !["warmer"] = "end"]
        /\ Close("warmer")
        /\ UNCHANGED <<sqlite, report, guard, stop, boardBounds>>

\* An exception anywhere rolls back.
WarmFail ==
    /\ thread["warmer"] \in {"count", "backfill", "check", "commit"}
    /\ warm' = "failed"
    /\ thread' = [thread EXCEPT !["warmer"] = "end"]
    /\ Close("warmer")
    /\ UNCHANGED <<sqlite, report, board, guard, stop, raced, boardBounds>>

WarmStop ==
    /\ ~stop
    /\ stop' = TRUE
    /\ warm' = IF warm \in {"complete", "failed"} THEN warm ELSE "stopped"
    /\ UNCHANGED <<sqlite, report, board, guard, thread, seen, raced, boardBounds>>

-----------------------------------------------------------------------------
(* The buy board *)

Active == {c \in Issuers : board[c].status = "ACTIVE"}

\* The guard is waited for two seconds; a refresh that does not get it changes
\* no row and is not tried again before the next hour of the board.
RefreshLoad(a) ==
    /\ thread[a] = "idle"
    /\ GuardFree(a)
    /\ Hold(a)
    /\ seen' = [seen EXCEPT ![a].rows = [c \in Active |-> board[c]]]
    /\ thread' = [thread EXCEPT ![a] = "quote"]
    /\ UNCHANGED <<sqlite, report, board, warm, stop, raced, boardBounds>>

Answers == Quotes \cup {Rejected, Unusable}

\* A rejected request fails every later candidate without a request.
Answer(answers, c) ==
    IF \E d \in DOMAIN answers : d < c /\ answers[d] = Rejected
    THEN Unusable ELSE answers[c]

Priced(row, answer) ==
    IF answer \in Quotes
    THEN [row EXCEPT !.firstPrice = IF @ = Missing THEN answer ELSE @,
                     !.price = answer, !.error = FALSE]
    ELSE [row EXCEPT !.error = TRUE]

\* Every quote is asked for and the rows committed under the one guard.
RefreshCommit(a, answers) ==
    /\ thread[a] = "quote"
    /\ WriteRows(a, [c \in DOMAIN answers |-> Priced(seen[a].rows[c], Answer(answers, c))])
    /\ Release
    /\ Close(a)
    /\ thread' = [thread EXCEPT ![a] = "idle"]
    /\ UNCHANGED <<sqlite, report, warm, stop, raced, boardBounds>>

-----------------------------------------------------------------------------
\* The process ends; the next one warms again and primes the board's status.
RestartServer ==
    /\ boardBounds.restarts < MaxRestarts
    /\ thread' = [a \in Actors |-> IF a = "warmer" THEN "count" ELSE "idle"]
    /\ guard' = NoHolder
    /\ warm' = "queued"
    /\ stop' = FALSE
    /\ boardBounds' = [boardBounds EXCEPT !.restarts = @ + 1]
    /\ seen' = [a \in Actors |-> NoSession]
    /\ UNCHANGED <<sqlite, report, board, raced>>

BoardNext ==
    \/ \E c \in Issuers, r \in Builds : RebuildLoad(c, r)
    \/ RebuildCommit
    \/ \E c \in Issuers : Review(c)
    \/ \E pending \in BOOLEAN : WarmCount(pending)
    \/ WarmBackfill \/ WarmCheckStop \/ WarmCommit \/ WarmFail \/ WarmStop
    \/ \E a \in Refreshers :
          \/ RefreshLoad(a)
          \/ \E answers \in [DOMAIN seen[a].rows -> Answers] : RefreshCommit(a, answers)
    \/ RestartServer

BoardSpec == BoardInit /\ [][BoardNext]_boardVars

-----------------------------------------------------------------------------
\* On SQLite the price a candidate entered the board at is never replaced,
\* however a scheduled refresh, one on request, the warmer and the machine meet.
FirstPriceKept ==
    [][board' # board => \A c \in Issuers :
          (sqlite /\ board[c] # NoRow) =>
              /\ board'[c] # NoRow
              /\ board[c].firstPrice # Missing => board'[c].firstPrice = board[c].firstPrice]_boardVars

\* On SQLite a candidate is active only while its company's report is the
\* validated one it was synced from, except where the warmer committed what it
\* had read before the machine rebuilt the report.
ActiveIsValidated ==
    sqlite => \A c \in Issuers \ raced :
        board[c].status = "ACTIVE" => Validated(report[c])

=============================================================================
