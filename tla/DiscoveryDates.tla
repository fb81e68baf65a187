--------------------------- MODULE DiscoveryDates ---------------------------
(***************************************************************************)
(* Which days the SEC filing importer polls, and what its checkpoint keeps *)
(* of them: DiscoveryState.dates, entry and save, over runs spread along   *)
(* the calendar.  A run may be late by days, may die between two polls,    *)
(* and may find an index unavailable.  What becomes of the filings found   *)
(* is the matter of DiscoveryImport; here a day has pending work or not.   *)
(***************************************************************************)
EXTENDS Integers, FiniteSets, FiniteSetsExt

CONSTANTS
    FilingDay(_),    \* EDGAR accepts filings on that day
    HistoryDays,     \* the longest look back, in days
    OverlapDays,     \* filing days polled again by every run
    RetryLimit,      \* failed days retried by one run
    FirstDay,        \* the day of the first run
    LastDay,         \* bound: the calendar ends
    MaxRuns,         \* bound on the number of runs
    MaxOutage        \* longest time between two runs that poll all their days

Days == (FirstDay - HistoryDays)..LastDay

ASSUME DatesAssumption ==
    /\ HistoryDays \in Nat \ {0}
    /\ OverlapDays \in Nat \ {0}
    /\ RetryLimit \in Nat
    /\ FirstDay \in Int
    /\ LastDay \in Int
    /\ FirstDay <= LastDay
    /\ MaxRuns \in Nat
    /\ MaxOutage \in Nat

VARIABLES
    today,       \* the calendar
    days,        \* the checkpoint's entries, by day
    todo,        \* days the run has yet to poll
    runDay,      \* today's date as the run took it
    runs,        \* runs started
    complete,    \* date of the last run that polled all its days
    begun,       \* history: days polled by any run
    answered,    \* history: days polled with success
    owed         \* history: days whose filings are not all stored

dateVars == <<today, days, todo, runDay, runs, complete, begun, answered, owed>>

NewEntry == [ok |-> FALSE, attempts |-> 0, pending |-> FALSE]

DatesInit ==
    /\ today = FirstDay
    /\ days = [d \in {} |-> NewEntry]
    /\ todo = {}
    /\ runDay = FirstDay
    /\ runs = 0
    /\ complete = FirstDay - HistoryDays
    /\ begun = {}
    /\ answered = {}
    /\ owed = {}

-----------------------------------------------------------------------------
(* DiscoveryState.dates *)

FilingDays(first, last) == {d \in first..last : FilingDay(d)}

\* The day from which OverlapDays filing days lead up to end.
OverlapStarts(end) ==
    {d \in (end - 7 * OverlapDays)..end :
        FilingDay(d) /\ Cardinality(FilingDays(d, end)) = OverlapDays}

OverlapStart(end) == Max(OverlapStarts(end))

\* No week is without a filing day: the loop that looks for the overlap ends.
ASSUME FilingDaysRecur == \A end \in FirstDay..LastDay : OverlapStarts(end) # {}

\* Mutant of FirstNormal: days missed since the newest entry are not made up.
FirstNormalByOverlap(end) == Max({end - (HistoryDays - 1), OverlapStart(end)})

FirstNormal(end) ==
    LET floor == end - (HistoryDays - 1)
        newest == IF DOMAIN days = {} THEN floor ELSE Max(DOMAIN days)
    IN  Max({floor, Min({OverlapStart(end), newest})})

\* Failed days in the order of their retries.
Sooner(d, e) ==
    \/ days[d].attempts < days[e].attempts
    \/ days[d].attempts = days[e].attempts /\ d <= e

Failed == {d \in DOMAIN days : ~days[d].ok}

Retries == {d \in Failed :
                Cardinality({e \in Failed : Sooner(e, d)}) <= RetryLimit}

Dates(end) == FilingDays(FirstNormal(end), end) \cup Retries

-----------------------------------------------------------------------------
(* Actions *)

\* Mutant of Saved: a day is dropped for its age while filings are pending.
SavedByAge(entries) ==
    LET kept == {d \in DOMAIN entries :
                    d >= runDay - HistoryDays \/ ~entries[d].ok}
    IN  [d \in kept |-> entries[d]]

\* DiscoveryState.save: settled days older than the history are dropped.
Saved(entries) ==
    LET kept == {d \in DOMAIN entries :
                    \/ d >= runDay - HistoryDays
                    \/ ~entries[d].ok
                    \/ entries[d].pending}
    IN  [d \in kept |-> entries[d]]

\* A day passes; the scheduler is not out for longer than MaxOutage.  A run
\* keeps the date it read first, so that midnight may as well wait for its end.
DayPasses ==
    /\ todo = {}
    /\ today < LastDay
    /\ today + 1 <= complete + MaxOutage
    /\ today' = today + 1
    /\ UNCHANGED <<days, todo, runDay, runs, complete, begun, answered, owed>>

\* A run without --from-date or --to-date chooses its days.
StartRun ==
    /\ todo = {}
    /\ runs < MaxRuns
    /\ runs' = runs + 1
    /\ runDay' = today
    /\ todo' = Dates(today)
    /\ UNCHANGED <<today, days, complete, begun, answered, owed>>

Polled(d, good, found) ==
    LET old == IF d \in DOMAIN days THEN days[d] ELSE NewEntry IN
    [e \in DOMAIN days \cup {d} |->
        IF e # d THEN days[e]
        ELSE [ok |-> good, attempts |-> old.attempts + 1,
              pending |-> old.pending \/ found]]

IsNext(d) == d \in todo /\ \A e \in todo : d <= e

\* The next day is polled; the index is read (good) or not, and it lists
\* filings yet to be stored (found) or not.
PollDay(d, good, found) ==
    /\ IsNext(d)
    /\ found => good
    /\ days' = Saved(Polled(d, good, found))
    /\ todo' = todo \ {d}
    /\ complete' = IF todo = {d} THEN runDay ELSE complete
    /\ begun' = begun \cup {d}
    /\ answered' = IF good THEN answered \cup {d} ELSE answered
    /\ owed' = IF found THEN owed \cup {d} ELSE owed
    /\ UNCHANGED <<today, runDay, runs>>

\* The process dies after it booked a poll and before the answer.
DieInPoll(d) ==
    /\ IsNext(d)
    /\ days' = Saved(Polled(d, FALSE, FALSE))
    /\ todo' = {}
    /\ begun' = begun \cup {d}
    /\ UNCHANGED <<today, runDay, runs, complete, answered, owed>>

\* After the scan, workers store the last pending filings of day d.
SettleDay(d) ==
    /\ todo = {}
    /\ d \in DOMAIN days
    /\ days[d].pending
    /\ days' = Saved([days EXCEPT ![d].pending = FALSE])
    /\ owed' = owed \ {d}
    /\ UNCHANGED <<today, todo, runDay, runs, complete, begun, answered>>

DatesNext ==
    \/ DayPasses
    \/ StartRun
    \/ \E d \in Days : \/ \E good, found \in BOOLEAN : PollDay(d, good, found)
                       \/ DieInPoll(d)
                       \/ SettleDay(d)

DatesSpec == DatesInit /\ [][DatesNext]_dateVars

-----------------------------------------------------------------------------
(* Properties *)

\* No filing day between the first and the last day ever polled is passed
\* over: it was read, or the checkpoint still holds it as failed.
NoGap ==
    \A d \in Days :
        /\ FilingDay(d)
        /\ \E first, last \in begun : first <= d /\ d <= last
        => \/ d \in answered
           \/ d \in DOMAIN days /\ ~days[d].ok

\* However old, a day with filings not yet stored stays in the checkpoint.
OwedDaysKept == \A d \in owed : d \in DOMAIN days /\ days[d].pending

=============================================================================
