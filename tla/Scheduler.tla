----------------------------- MODULE Scheduler -----------------------------
(***************************************************************************)
(* The scheduler that runs maintenance cycles for ever (the shell loop     *)
(* run_vps_scheduler.sh and run_accountant_automation.py, its child), the  *)
(* status file it leaves, and what the readiness check concludes from that *)
(* file at any moment.  Either process may die at any step; whatever it    *)
(* was doing, the status must be evidence of what really happened.  The    *)
(* child and the recording of its outcome share no memory with the reader: *)
(* files are all they have.                                                *)
(***************************************************************************)
EXTENDS Integers, FiniteSetsExt

CONSTANTS
    WindowsOf(_),   \* the polling windows of a local day, as instants
    DayOf(_),       \* the local day of an instant
    Interval,       \* ACCOUNTANT_ACTIVE_POLL_INTERVAL_SECONDS
    MaxAge,         \* the age, 36 hours, past which a status is no evidence
    Steps,          \* steps of a cycle
    Never,          \* the absence of a time
    MaxCycle,       \* bound on the time a cycle takes
    MaxTime,        \* bound: the clock stops
    MaxFaults       \* bound on deaths and failing helpers

ASSUME SchedulerAssumption ==
    /\ Interval \in Nat \ {0}
    /\ MaxAge \in Nat
    /\ Steps \in Nat
    /\ Never \notin Nat
    /\ MaxCycle \in Nat
    /\ MaxTime \in Nat
    /\ MaxFaults \in Nat

VARIABLES
    now,        \* the clock
    pc,         \* where the shell loop is
    wake,       \* end of the loop's sleep
    started,    \* started_at of the cycle
    ran,        \* steps of the cycle that have run
    failed,     \* one of them returned an error
    summary,    \* the summary file of this cycle's generation
    code,       \* exit code of the cycle
    partial,    \* scheduler_cycle_status.json.partial
    status,     \* scheduler_cycle_status.json
    faults,     \* faults so far
    proved,     \* history: end of the last complete cycle whose status is out
    tardy       \* history: since the status was replaced, a cycle has run
                \* for longer than the interval, or the loop has died

vars == <<now, pc, wake, started, ran, failed, summary, code, partial, status,
          faults, proved, tardy>>

Times == 0..MaxTime
NoFile == [kind |-> "none"]
HalfFile == [kind |-> "half"]

Summary == [kind: {"summary"}, status: {"complete", "failed", "paused_storage"},
            blocked: BOOLEAN, passed: BOOLEAN, at: Times]

CycleStatus == [kind: {"status"}, status: {"complete", "failed", "paused_storage"},
                code: 0..75, last_cycle_at: Times,
                last_success_at: Times \cup {Never}, helper: BOOLEAN]

TypeOK ==
    /\ now \in Times
    /\ pc \in {"timing", "sleeping", "running", "ended", "writing",
               "installing", "resting", "dead"}
    /\ wake \in Nat
    /\ started \in Times
    /\ ran \in 0..Steps
    /\ failed \in BOOLEAN
    /\ summary \in {NoFile} \cup Summary
    /\ code \in 0..75
    /\ partial \in {NoFile, HalfFile} \cup CycleStatus
    /\ status \in {NoFile} \cup CycleStatus
    /\ faults \in 0..MaxFaults
    /\ proved \in Times \cup {Never}
    /\ tardy \in BOOLEAN

Init ==
    /\ now = 0
    /\ pc = "timing"
    /\ wake = 0
    /\ started = 0
    /\ ran = 0
    /\ failed = FALSE
    /\ summary = NoFile
    /\ code = 0
    /\ partial = NoFile
    /\ status = NoFile
    /\ faults = 0
    /\ proved = Never
    /\ tardy = FALSE

-----------------------------------------------------------------------------
(* Polling windows *)

InWindow(t) == \E w \in WindowsOf(DayOf(t)) : w.start <= t /\ t < w.end

\* The windows of today that are still to come, or else those of tomorrow.
Upcoming(t) ==
    LET Today == {w \in WindowsOf(DayOf(t)) : t < w.start}
    IN  IF Today # {} THEN Today ELSE WindowsOf(DayOf(t) + 1)

\* parse_windows refuses an empty list and sorts it: there is a first one.
ASSUME WindowsAssumption ==
    \A t \in Times : \E w \in Upcoming(t) :
        w.start \in Int /\ t <= w.start
        /\ \A v \in Upcoming(t) : v.start \in Int /\ w.start <= v.start

CalendarDays == (DayOf(0) - 2)..(DayOf(MaxTime) + 1)

\* A window starts before it ends, within its day, and has been over for more
\* than the 36 hours of MaxAge on the third day after its own.
ASSUME CalendarAssumption ==
    /\ DayOf(0) \in Int /\ DayOf(MaxTime) \in Int
    /\ \A t \in Times : DayOf(t) \in DayOf(0)..DayOf(MaxTime)
    /\ \A d \in CalendarDays : \A w \in WindowsOf(d) :
         /\ w.start \in Int /\ w.end \in Int /\ w.start < w.end
         /\ \A e \in CalendarDays : \A v \in WindowsOf(e) :
              d < e => w.end <= v.start
         /\ \A t \in Times : /\ d < DayOf(t) => w.end <= t
                             /\ d < DayOf(t) - 2 => w.end + MaxAge <= t

SecondsUntilNextPoll(t) ==
    IF InWindow(t) THEN 0 ELSE Min({w.start : w \in Upcoming(t)}) - t

-----------------------------------------------------------------------------
(* The clock *)

\* Time passes while the loop sleeps, waits for its child or is down; the
\* rest of an iteration takes less than a unit of time.
Tick ==
    /\ now < MaxTime
    /\ \/ pc = "sleeping" /\ now < wake
       \/ pc = "running" /\ now < started + MaxCycle
       \/ pc = "dead"
    /\ now' = now + 1
    /\ tardy' = (tardy \/ (pc = "running" /\ now' > started + Interval))
    /\ UNCHANGED <<pc, wake, started, ran, failed, summary, code, partial,
                   status, faults, proved>>

-----------------------------------------------------------------------------
(* The loop *)

\* The next cycle sets all of these again; the summary of this one is
\* removed, or keeps a name that nobody will read.
ForgetCycle ==
    /\ started' = 0
    /\ ran' = 0
    /\ failed' = FALSE
    /\ summary' = NoFile
    /\ code' = 0

SleepTillWindow ==
    /\ pc = "timing"
    /\ SecondsUntilNextPoll(now) > 0
    /\ wake' = now + SecondsUntilNextPoll(now)
    /\ pc' = "sleeping"
    /\ UNCHANGED <<now, started, ran, failed, summary, code, partial, status,
                   faults, proved, tardy>>

Wake ==
    /\ pc = "sleeping"
    /\ now = wake
    /\ pc' = "timing"
    /\ wake' = 0
    /\ UNCHANGED <<now, started, ran, failed, summary, code, partial,
                   status, faults, proved, tardy>>

\* The summary gets a new name, so that no older one can be taken for it.
StartCycle ==
    /\ pc = "timing"
    /\ SecondsUntilNextPoll(now) = 0
    /\ pc' = "running"
    /\ started' = now
    /\ ran' = 0
    /\ failed' = FALSE
    /\ summary' = NoFile
    /\ code' = 0
    /\ UNCHANGED <<now, wake, partial, status, faults, proved, tardy>>

-----------------------------------------------------------------------------
(* The cycle, in a child process *)

\* Every step runs, whatever became of the one before.
RunStep ==
    /\ pc = "running"
    /\ summary = NoFile
    /\ ran < Steps
    /\ ran' = ran + 1
    /\ \E error \in BOOLEAN : failed' = (failed \/ error)
    /\ UNCHANGED <<now, pc, wake, started, summary, code, partial, status,
                   faults, proved, tardy>>

Publishes(s) ==
    /\ pc = "running"
    /\ summary = NoFile
    /\ summary' = s
    /\ UNCHANGED <<now, pc, wake, started, ran, failed, code, partial, status,
                   faults, proved, tardy>>

\* The preflight finds no room for a cycle.
PauseForStorage ==
    /\ ran = 0
    /\ Publishes([kind |-> "summary", status |-> "paused_storage",
                  blocked |-> TRUE, passed |-> TRUE, at |-> now])

PublishSummary ==
    /\ ran = Steps
    /\ Publishes([kind |-> "summary",
                  status |-> IF failed THEN "failed" ELSE "complete",
                  blocked |-> FALSE, passed |-> ~failed, at |-> now])

\* What main returns once the summary is out.
ExitCode ==
    IF summary.blocked THEN 75 ELSE IF summary.status = "failed" THEN 1 ELSE 0

Exit ==
    /\ pc = "running"
    /\ summary # NoFile
    /\ pc' = "ended"
    /\ code' = ExitCode
    /\ UNCHANGED <<now, wake, started, ran, failed, summary, partial, status,
                   faults, proved, tardy>>

\* An exception, such as a database that is away, or a signal ends the
\* child, before or after it has published.
ChildDies ==
    /\ pc = "running"
    /\ faults < MaxFaults
    /\ faults' = faults + 1
    /\ pc' = "ended"
    /\ code' = 1
    /\ UNCHANGED <<now, wake, started, ran, failed, summary, partial, status,
                   proved, tardy>>

-----------------------------------------------------------------------------
(* The status file *)

LastSuccess(file) == IF file.kind = "status" THEN file.last_success_at ELSE Never

\* The summary is of this cycle by its own account too.
IsEvidence(s) ==
    /\ s # NoFile
    /\ started <= s.at
    /\ s.at <= now + 1

Complete(s) ==
    /\ code = 0
    /\ ~s.blocked
    /\ s.status = "complete"
    /\ s.passed

Paused(s) == s.blocked /\ (code = 0 \/ s.status = "paused_storage")

\* The exit code and the summary must agree.
Verdict ==
    LET known == code \in {0, 75} /\ IsEvidence(summary)
    IN  IF known /\ Paused(summary) THEN "paused_storage"
        ELSE IF known /\ Complete(summary) THEN "complete"
        ELSE "failed"

\* Mutant of SuccessAfter: every cycle that published counts as success.
SuccessByEvidence == IF IsEvidence(summary) THEN now ELSE LastSuccess(status)

SuccessAfter == IF Verdict = "complete" THEN now ELSE LastSuccess(status)

\* The field helper tells the records of record_cycle from the shell's own,
\* whose reason is status_writer_unavailable.
RecordCycle == [kind |-> "status", status |-> Verdict, code |-> code,
                last_cycle_at |-> now, last_success_at |-> SuccessAfter,
                helper |-> TRUE]

\* What the shell writes in place of a helper that failed.
Fallback == [kind |-> "status", status |-> "failed", code |-> code,
             last_cycle_at |-> now, last_success_at |-> Never,
             helper |-> FALSE]

\* The redirection empties the partial file before the helper runs.
OpenPartial ==
    /\ pc = "ended"
    /\ partial' = HalfFile
    /\ pc' = "writing"
    /\ UNCHANGED <<now, wake, started, ran, failed, summary, code, status,
                   faults, proved, tardy>>

Writes(file) ==
    /\ pc = "writing"
    /\ partial' = file
    /\ pc' = "installing"
    /\ UNCHANGED <<now, wake, started, ran, failed, summary, code, status,
                   proved, tardy>>

WriteStatus == Writes(RecordCycle) /\ UNCHANGED faults

HelperFails ==
    /\ faults < MaxFaults
    /\ faults' = faults + 1
    /\ Writes(Fallback)

\* Every step of the cycle has run and passed, and the child said so.
CyclePassed == ran = Steps /\ ~failed /\ code = 0

InstallStatus ==
    /\ pc = "installing"
    /\ status' = partial
    /\ partial' = NoFile
    /\ pc' = "resting"
    /\ proved' = IF CyclePassed THEN now ELSE proved
    /\ tardy' = FALSE
    /\ UNCHANGED <<now, wake, started, ran, failed, summary, code, faults>>

Rest ==
    /\ pc = "resting"
    /\ ForgetCycle
    /\ wake' = now + Interval
    /\ pc' = "sleeping"
    /\ UNCHANGED <<now, partial, status, faults, proved, tardy>>

-----------------------------------------------------------------------------
(* The loop dies, by a signal or by `set -e`; the service manager starts   *)
(* it again, late at times.                                                *)

Die ==
    /\ pc # "dead"
    /\ faults < MaxFaults
    /\ faults' = faults + 1
    /\ pc' = "dead"
    /\ ForgetCycle
    /\ wake' = 0
    /\ tardy' = TRUE
    /\ UNCHANGED <<now, partial, status, proved>>

Restart ==
    /\ pc = "dead"
    /\ pc' = "timing"
    /\ UNCHANGED <<now, wake, started, ran, failed, summary, code, partial,
                   status, faults, proved, tardy>>

Next ==
    \/ Tick
    \/ SleepTillWindow
    \/ Wake
    \/ StartCycle
    \/ RunStep
    \/ PauseForStorage
    \/ PublishSummary
    \/ Exit
    \/ ChildDies
    \/ OpenPartial
    \/ WriteStatus
    \/ HelperFails
    \/ InstallStatus
    \/ Rest
    \/ Die
    \/ Restart

Spec == Init /\ [][Next]_vars

-----------------------------------------------------------------------------
(* What the readiness check concludes *)

Grace == 2 * Interval

\* Mutant of Elapsed: hours before the window count as well.
ElapsedSinceCycle(w, s, t) == Min({t, w.end}) - s

\* Time of window w between s and t.
Elapsed(w, s, t) == Min({t, w.end}) - Max({s, w.start})

\* Mutant of MissedPoll: only the windows of today count.
MissedToday ==
    \E w \in WindowsOf(DayOf(now)) :
        Elapsed(w, status.last_cycle_at, now) > Grace

\* scheduler_status looks at the windows of three days.
MissedPoll ==
    \E k \in 0..2 : \E w \in WindowsOf(DayOf(now) - k) :
        Elapsed(w, status.last_cycle_at, now) > Grace

SchedulerOk ==
    /\ status.kind = "status"
    /\ status.status = "complete"
    /\ status.code = 0
    /\ status.last_cycle_at <= now
    /\ now - status.last_cycle_at <= MaxAge
    /\ ~MissedPoll

-----------------------------------------------------------------------------
(* Properties *)

\* A status that says complete is about a cycle that ran all its steps
\* without an error, and the success it remembers is the last one there was
\* or none, whichever process died when and whatever file was half written.
EvidenceIsReal ==
    status.kind = "status" =>
        /\ status.last_success_at \in {proved, Never}
        /\ status.status = "complete" =>
             status.last_cycle_at = proved /\ status.code = 0

\* When readiness says ok, no polling window there ever was has gone by for
\* longer than the grace of two intervals since a cycle that really passed,
\* though it looks at three days only and at the end of the last cycle.
OkMeansRecent ==
    SchedulerOk =>
        /\ proved # Never
        /\ \A d \in DayOf(0)..DayOf(now) : \A w \in WindowsOf(d) :
             Elapsed(w, proved, now) <= Grace

\* A loop that has not died since the last status and whose cycles keep
\* within the interval is never reported to have missed a poll: not at the
\* edges of a window, not across a night, nor by a cycle that fails.
NoFalseAlarm == status.kind = "status" /\ ~tardy => ~MissedPoll

\* The success on record gives way to a later success, or is lost with a
\* helper that failed; no pause, failure, death or restart forgets it.
SuccessIsKept ==
    [][LastSuccess(status) # Never =>
         \/ LastSuccess(status') = LastSuccess(status)
         \/ LastSuccess(status') = now /\ CyclePassed
         \/ status'.kind = "status" /\ ~status'.helper]_vars

=============================================================================
