-------------------------- MODULE SchedulerProofs --------------------------
(***************************************************************************)
(* The unattended discovery: its status, the days it covers, and the       *)
(* requests it sends.                                                      *)
(*                                                                         *)
(* Scheduler.                                                              *)
(* What the status file says is what happened, for any windows, interval,  *)
(* steps and times, and any number of deaths.  The invariant follows the   *)
(* evidence from the child's steps over its summary and its exit code to   *)
(* the partial file: each is whole and agrees with the one before it.      *)
(*                                                                         *)
(* DiscoveryDates.                                                         *)
(* The checkpoint of the importer neither passes a filing day over nor     *)
(* forgets one whose filings are not stored, for any calendar with a       *)
(* filing day in every week, any look back, overlap and retry limit, and   *)
(* any runs that die or find an index unavailable.                         *)
(*                                                                         *)
(* A run starts no later than the day after the newest entry or than the   *)
(* end of its look back, and a complete run covers all days up to its own: *)
(* so it is enough that complete runs are not further apart than the       *)
(* look back.                                                              *)
(*                                                                         *)
(* SecClient.                                                              *)
(* Requests of one client keep their distance, for any threads, clients    *)
(* and interval.                                                           *)
(***************************************************************************)
EXTENDS Scheduler, DiscoveryDates, SecClient, WellFoundedInduction, TLAPS

\* A summary is of the cycle in hand and tells how its steps went.
SummaryFits ==
    /\ started <= now
    /\ summary # NoFile =>
         /\ started <= summary.at
         /\ summary.at <= now
         /\ summary.blocked => summary.status = "paused_storage"
         /\ ~summary.blocked =>
              /\ ran = Steps
              /\ summary.passed = ~failed
              /\ summary.status = IF failed THEN "failed" ELSE "complete"

\* A child that has ended with 0 has published that every step passed.
CodeFits ==
    /\ pc = "running" => code = 0
    /\ pc \in {"ended", "writing", "installing"} /\ code = 0 =>
         /\ summary # NoFile
         /\ ~summary.blocked
         /\ ~failed

\* The partial file, once written, classifies the cycle that has ended.
PartialFits ==
    pc = "installing" =>
        /\ partial.kind = "status"
        /\ partial.last_cycle_at = now
        /\ partial.status = "complete" => CyclePassed
        /\ partial.code = code
        /\ ~partial.helper => partial.last_success_at = Never
        /\ partial.helper =>
             partial.last_success_at =
                IF CyclePassed THEN now ELSE LastSuccess(status)

\* A partial file that is about to be installed is whole.
TypeInv == TypeOK /\ (pc = "installing" => partial \in CycleStatus)

Evidence == SummaryFits /\ CodeFits /\ PartialFits /\ EvidenceIsReal

IInv == TypeInv /\ Evidence

-----------------------------------------------------------------------------
(* Type correctness *)

LEMMA NextPollType ==
    ASSUME NEW t \in Times
    PROVE  SecondsUntilNextPoll(t) \in Nat
<1>1. PICK w \in Upcoming(t) :
        /\ w.start \in Int
        /\ t <= w.start
        /\ \A v \in Upcoming(t) : v.start \in Int /\ w.start <= v.start
  BY WindowsAssumption
<1>. DEFINE S == {v.start : v \in Upcoming(t)}
<1>2. w.start \in S /\ \A y \in S : w.start <= y
  BY <1>1
<1>3. \A x \in S : (\A y \in S : x <= y) => x = w.start
  BY <1>1, <1>2
<1>4. Min(S) = w.start
  BY <1>2, <1>3 DEF Min
<1>5. t \in Int
  BY SchedulerAssumption DEF Times
<1>. QED
  BY <1>1, <1>4, <1>5 DEF SecondsUntilNextPoll

LEMMA StatusType ==
    ASSUME TypeOK
    PROVE  RecordCycle \in CycleStatus /\ Fallback \in CycleStatus
<1>1. LastSuccess(status) \in Times \cup {Never}
  BY DEF TypeOK, LastSuccess, NoFile, CycleStatus
<1>. QED
  BY <1>1 DEF TypeOK, RecordCycle, Verdict, SuccessAfter, Fallback, CycleStatus

LEMMA ForgetType ==
    ASSUME ForgetCycle
    PROVE  /\ started' \in Times
           /\ ran' \in 0..Steps
           /\ failed' \in BOOLEAN
           /\ summary' = NoFile
           /\ code' \in 0..75
<1>1. failed' \in BOOLEAN /\ summary' = NoFile
  BY DEF ForgetCycle
<1>2. started' \in Times /\ ran' \in 0..Steps /\ code' \in 0..75
  BY SchedulerAssumption DEF ForgetCycle, Times
<1>. QED
  BY <1>1, <1>2

LEMMA TypeInit == Init => TypeInv
<1>. SUFFICES ASSUME Init PROVE TypeInv
  OBVIOUS
<1>1. failed \in BOOLEAN /\ tardy \in BOOLEAN /\ pc = "timing"
  BY DEF Init
<1>2. now \in Times /\ wake \in Nat /\ started \in Times /\ ran \in 0..Steps
      /\ code \in 0..75 /\ faults \in 0..MaxFaults
  BY SchedulerAssumption DEF Init, Times
<1>. QED
  BY <1>1, <1>2 DEF Init, TypeOK, TypeInv

LEMMA TypeNext == TypeInv /\ [Next]_vars => TypeInv'
<1>. SUFFICES ASSUME TypeInv, [Next]_vars PROVE TypeInv'
  OBVIOUS
<1>. USE SchedulerAssumption
<1>1. CASE Tick
  BY <1>1 DEF Tick, TypeOK, TypeInv, Times
<1>2. CASE SleepTillWindow
  <2>1. SecondsUntilNextPoll(now) \in Nat
    BY NextPollType DEF TypeInv, TypeOK
  <2>2. wake' \in Nat
    BY <1>2, <2>1 DEF SleepTillWindow, TypeOK, TypeInv, Times
  <2>. QED
    BY <1>2, <2>2 DEF SleepTillWindow, TypeOK, TypeInv
<1>3. CASE Wake
  BY <1>3 DEF Wake, TypeOK, TypeInv
<1>4. CASE StartCycle
  <2>1. failed' \in BOOLEAN
    BY <1>4 DEF StartCycle
  <2>2. ran' \in 0..Steps /\ code' \in 0..75 /\ started' \in Times
    BY <1>4 DEF StartCycle, TypeInv, TypeOK
  <2>. QED
    BY <1>4, <2>1, <2>2 DEF StartCycle, TypeInv, TypeOK
<1>5. CASE RunStep
  BY <1>5 DEF RunStep, TypeOK, TypeInv
<1>6. CASE PauseForStorage
  BY <1>6 DEF PauseForStorage, Publishes, Summary, TypeOK, TypeInv
<1>7. CASE PublishSummary
  BY <1>7 DEF PublishSummary, Publishes, Summary, TypeOK, TypeInv
<1>8. CASE Exit
  <2>1. code' \in 0..75
    BY <1>8 DEF Exit, ExitCode
  <2>. QED
    BY <1>8, <2>1 DEF Exit, TypeOK, TypeInv
<1>9. CASE ChildDies
  BY <1>9 DEF ChildDies, TypeOK, TypeInv
<1>10. CASE OpenPartial
  BY <1>10 DEF OpenPartial, TypeOK, TypeInv
<1>11. CASE WriteStatus
  BY <1>11, StatusType DEF WriteStatus, Writes, TypeOK, TypeInv
<1>12. CASE HelperFails
  BY <1>12, StatusType DEF HelperFails, Writes, TypeOK, TypeInv
<1>13. CASE InstallStatus
  <2>1. pc = "installing" /\ status' = partial /\ partial' = NoFile
    BY <1>13 DEF InstallStatus
  <2>. QED
    BY <1>13 DEF InstallStatus, TypeOK, TypeInv
<1>14. CASE Rest
  BY <1>14, ForgetType DEF Rest, TypeOK, TypeInv, Times
<1>15. CASE Die
  BY <1>15, ForgetType DEF Die, TypeOK, TypeInv
<1>16. CASE Restart
  BY <1>16 DEF Restart, TypeOK, TypeInv
<1>17. CASE UNCHANGED vars
  BY <1>17 DEF vars, TypeOK, TypeInv
<1>. QED
  BY <1>1, <1>2, <1>3, <1>4, <1>5, <1>6, <1>7, <1>8, <1>9, <1>10, <1>11,
     <1>12, <1>13, <1>14, <1>15, <1>16, <1>17 DEF Next

\* Every variable keeps its type, however long the loop has run and
\* whichever process has died (the whole of run_vps_scheduler.sh).
THEOREM TypeCorrect == Spec => []TypeOK
<1>1. TypeInv => TypeOK
  BY DEF TypeInv
<1>. QED
  BY TypeInit, TypeNext, <1>1, PTL DEF Spec

-----------------------------------------------------------------------------
(* Evidence *)

\* What the helper writes about a child that has ended.
LEMMA RecordFits ==
    ASSUME IInv, pc = "writing"
    PROVE  /\ RecordCycle.status = "complete" => CyclePassed
           /\ RecordCycle.last_success_at =
                IF CyclePassed THEN now ELSE LastSuccess(status)
<1>1. now \in Int /\ code \in 0..75
  BY SchedulerAssumption DEF IInv, TypeInv, TypeOK, Times
<1>2. CASE code = 0
  <2>1. /\ summary # NoFile
        /\ ~summary.blocked
        /\ ~failed
    BY <1>2 DEF IInv, Evidence, CodeFits
  <2>2. /\ started <= summary.at
        /\ summary.at <= now
        /\ ran = Steps
        /\ summary.passed
        /\ summary.status = "complete"
    BY <2>1 DEF IInv, Evidence, SummaryFits
  <2>3. summary.at \in Int
    BY <2>1 DEF IInv, TypeInv, TypeOK, Summary, Times
  <2>4. IsEvidence(summary)
    BY <1>1, <2>1, <2>2, <2>3 DEF IsEvidence
  <2>5. Complete(summary) /\ ~Paused(summary)
    BY <1>2, <2>1, <2>2 DEF Complete, Paused
  <2>6. CyclePassed
    BY <1>2, <2>1, <2>2 DEF CyclePassed
  <2>. QED
    BY <1>2, <2>4, <2>5, <2>6 DEF RecordCycle, Verdict, SuccessAfter
<1>3. CASE code # 0
  <2>1. ~Complete(summary) /\ ~CyclePassed
    BY <1>3 DEF Complete, CyclePassed
  <2>. QED
    BY <2>1 DEF RecordCycle, Verdict, SuccessAfter
<1>. QED
  BY <1>2, <1>3

LEMMA EvidenceInit == Init => Evidence
BY DEF Init, Evidence, SummaryFits, CodeFits, PartialFits, EvidenceIsReal,
       NoFile

\* Time does not take a summary's evidence away.
LEMMA SummaryFitsLater ==
    ASSUME SummaryFits, TypeInv, now' \in Int, now <= now',
           UNCHANGED <<summary, started, ran, failed>>
    PROVE  SummaryFits'
<1>1. summary # NoFile => summary.at \in Int
  BY DEF TypeInv, TypeOK, Summary, Times
<1>2. now \in Int /\ started \in Int
  BY SchedulerAssumption DEF TypeInv, TypeOK, Times
<1>. QED
  BY <1>1, <1>2 DEF SummaryFits

LEMMA EvidenceNext == IInv /\ [Next]_vars => Evidence'
<1>. SUFFICES ASSUME IInv, [Next]_vars PROVE Evidence'
  OBVIOUS
<1>0. now \in Int /\ now <= now
  BY SchedulerAssumption DEF IInv, TypeInv, TypeOK, Times
<1>1. CASE Tick
  <2>1. now' \in Int /\ now <= now'
    BY <1>0, <1>1 DEF Tick
  <2>2. SummaryFits'
    BY <1>1, <2>1, SummaryFitsLater DEF Tick, IInv, Evidence
  <2>3. CodeFits'
    BY <1>1 DEF Tick, IInv, Evidence, CodeFits
  <2>4. PartialFits'
    BY <1>1 DEF Tick, PartialFits
  <2>5. EvidenceIsReal'
    BY <1>1 DEF Tick, IInv, Evidence, EvidenceIsReal
  <2>. QED
    BY <2>2, <2>3, <2>4, <2>5 DEF Evidence
<1>2. CASE SleepTillWindow \/ Wake \/ Restart
  <2>1. SummaryFits'
    BY <1>0, <1>2, SummaryFitsLater
       DEF SleepTillWindow, Wake, Restart, IInv, Evidence
  <2>2. CodeFits' /\ PartialFits'
    BY <1>2 DEF SleepTillWindow, Wake, Restart, CodeFits, PartialFits
  <2>3. EvidenceIsReal'
    BY <1>2 DEF SleepTillWindow, Wake, Restart, IInv, Evidence, EvidenceIsReal
  <2>. QED
    BY <2>1, <2>2, <2>3 DEF Evidence
<1>3. CASE StartCycle
  <2>1. SummaryFits' /\ CodeFits' /\ PartialFits'
    BY <1>0, <1>3 DEF StartCycle, SummaryFits, CodeFits, PartialFits
  <2>2. EvidenceIsReal'
    BY <1>3 DEF StartCycle, IInv, Evidence, EvidenceIsReal
  <2>. QED
    BY <2>1, <2>2 DEF Evidence
<1>4. CASE RunStep
  <2>1. SummaryFits' /\ CodeFits' /\ PartialFits'
    BY <1>4 DEF RunStep, IInv, Evidence, SummaryFits, CodeFits, PartialFits
  <2>2. EvidenceIsReal'
    BY <1>4 DEF RunStep, IInv, Evidence, EvidenceIsReal
  <2>. QED
    BY <2>1, <2>2 DEF Evidence
<1>5. CASE PauseForStorage \/ PublishSummary
  <2>1. started <= now
    BY DEF IInv, Evidence, SummaryFits
  <2>2. SummaryFits'
    <3>1. CASE PauseForStorage
      BY <1>0, <2>1, <3>1 DEF PauseForStorage, Publishes, SummaryFits
    <3>2. CASE PublishSummary
      BY <1>0, <2>1, <3>2 DEF PublishSummary, Publishes, SummaryFits
    <3>. QED
      BY <1>5, <3>1, <3>2
  <2>3. CodeFits' /\ PartialFits'
    BY <1>5 DEF PauseForStorage, PublishSummary, Publishes, IInv, Evidence,
                CodeFits, PartialFits
  <2>4. EvidenceIsReal'
    BY <1>5 DEF PauseForStorage, PublishSummary, Publishes, IInv, Evidence,
                EvidenceIsReal
  <2>. QED
    BY <2>2, <2>3, <2>4 DEF Evidence
<1>6. CASE Exit
  <2>1. SummaryFits'
    BY <1>0, <1>6, SummaryFitsLater DEF Exit, IInv, Evidence
  <2>2. code' = 0 => ~summary.blocked /\ ~failed
    BY <1>6 DEF Exit, ExitCode, IInv, Evidence, SummaryFits
  <2>3. CodeFits' /\ PartialFits'
    BY <1>6, <2>2 DEF Exit, CodeFits, PartialFits
  <2>4. EvidenceIsReal'
    BY <1>6 DEF Exit, IInv, Evidence, EvidenceIsReal
  <2>. QED
    BY <2>1, <2>3, <2>4 DEF Evidence
<1>7. CASE ChildDies \/ OpenPartial
  <2>1. SummaryFits'
    BY <1>0, <1>7, SummaryFitsLater DEF ChildDies, OpenPartial, IInv, Evidence
  <2>2. CodeFits' /\ PartialFits'
    BY <1>7 DEF ChildDies, OpenPartial, IInv, Evidence, CodeFits, PartialFits
  <2>3. EvidenceIsReal'
    BY <1>7 DEF ChildDies, OpenPartial, IInv, Evidence, EvidenceIsReal
  <2>. QED
    BY <2>1, <2>2, <2>3 DEF Evidence
<1>8. CASE WriteStatus
  <2>1. SummaryFits'
    BY <1>0, <1>8, SummaryFitsLater DEF WriteStatus, Writes, IInv, Evidence
  <2>2. CodeFits'
    BY <1>8 DEF WriteStatus, Writes, IInv, Evidence, CodeFits
  <2>3. pc = "writing" /\ partial' = RecordCycle
        /\ UNCHANGED <<now, status, code, ran, failed>>
    BY <1>8 DEF WriteStatus, Writes
  <2>4. /\ RecordCycle.status = "complete" => CyclePassed
        /\ RecordCycle.last_success_at =
             IF CyclePassed THEN now ELSE LastSuccess(status)
    BY <2>3, RecordFits
  <2>5. /\ RecordCycle.kind = "status"
        /\ RecordCycle.last_cycle_at = now
        /\ RecordCycle.code = code
        /\ RecordCycle.helper
    BY DEF RecordCycle
  <2>6. CyclePassed' = CyclePassed /\ LastSuccess(status)' = LastSuccess(status)
    BY <2>3 DEF CyclePassed, LastSuccess
  <2>7. PartialFits'
    BY <2>3, <2>4, <2>5, <2>6 DEF PartialFits
  <2>8. EvidenceIsReal'
    BY <1>8 DEF WriteStatus, Writes, IInv, Evidence, EvidenceIsReal
  <2>. QED
    BY <2>1, <2>2, <2>7, <2>8 DEF Evidence
<1>9. CASE HelperFails
  <2>1. SummaryFits'
    BY <1>0, <1>9, SummaryFitsLater DEF HelperFails, Writes, IInv, Evidence
  <2>2. CodeFits'
    BY <1>9 DEF HelperFails, Writes, IInv, Evidence, CodeFits
  <2>3. PartialFits'
    BY <1>9 DEF HelperFails, Writes, Fallback, PartialFits
  <2>4. EvidenceIsReal'
    BY <1>9 DEF HelperFails, Writes, IInv, Evidence, EvidenceIsReal
  <2>. QED
    BY <2>1, <2>2, <2>3, <2>4 DEF Evidence
<1>10. CASE InstallStatus
  <2>1. SummaryFits'
    BY <1>0, <1>10, SummaryFitsLater DEF InstallStatus, IInv, Evidence
  <2>2. CodeFits' /\ PartialFits'
    BY <1>10 DEF InstallStatus, CodeFits, PartialFits
  <2>3. /\ partial.kind = "status"
        /\ partial.last_cycle_at = now
        /\ partial.status = "complete" => CyclePassed
        /\ partial.code = code
        /\ ~partial.helper => partial.last_success_at = Never
        /\ partial.helper =>
             partial.last_success_at =
                IF CyclePassed THEN now ELSE LastSuccess(status)
    BY <1>10 DEF InstallStatus, IInv, Evidence, PartialFits
  <2>4. LastSuccess(status) \in {proved, Never}
    BY DEF IInv, Evidence, EvidenceIsReal, LastSuccess
  <2>5. status' = partial /\ proved' = IF CyclePassed THEN now ELSE proved
    BY <1>10 DEF InstallStatus
  <2>6. partial.last_success_at \in {proved', Never}
    BY <2>3, <2>4, <2>5
  <2>7. partial.status = "complete" =>
          partial.last_cycle_at = proved' /\ partial.code = 0
    BY <2>3, <2>5 DEF CyclePassed
  <2>8. EvidenceIsReal'
    BY <2>5, <2>6, <2>7 DEF EvidenceIsReal
  <2>. QED
    BY <2>1, <2>2, <2>8 DEF Evidence
<1>11. CASE Rest \/ Die
  <2>1. SummaryFits'
    BY <1>0, <1>11, SchedulerAssumption
       DEF Rest, Die, ForgetCycle, SummaryFits, IInv, TypeInv, TypeOK, Times
  <2>2. CodeFits' /\ PartialFits'
    BY <1>11 DEF Rest, Die, CodeFits, PartialFits
  <2>3. EvidenceIsReal'
    BY <1>11 DEF Rest, Die, IInv, Evidence, EvidenceIsReal
  <2>. QED
    BY <2>1, <2>2, <2>3 DEF Evidence
<1>12. CASE UNCHANGED vars
  <2>1. SummaryFits'
    BY <1>0, <1>12, SummaryFitsLater DEF vars, IInv, Evidence
  <2>2. CodeFits'
    BY <1>12 DEF vars, IInv, Evidence, CodeFits
  <2>3. PartialFits'
    BY <1>12 DEF vars, IInv, Evidence, PartialFits, CyclePassed, LastSuccess
  <2>4. EvidenceIsReal'
    BY <1>12 DEF vars, IInv, Evidence, EvidenceIsReal
  <2>. QED
    BY <2>1, <2>2, <2>3, <2>4 DEF Evidence
<1>. QED
  BY <1>1, <1>2, <1>3, <1>4, <1>5, <1>6, <1>7, <1>8, <1>9, <1>10, <1>11,
     <1>12 DEF Next

LEMMA Inductive == Spec => []IInv
<1>1. Init => IInv
  BY TypeInit, EvidenceInit DEF IInv
<1>2. IInv /\ [Next]_vars => IInv'
  BY TypeNext, EvidenceNext DEF IInv
<1>. QED
  BY <1>1, <1>2, PTL DEF Spec

\* The status file is evidence of what happened: a complete status is about
\* a cycle whose steps all passed, and the success it remembers took place
\* (run_vps_scheduler.sh, record_cycle).
THEOREM StatusIsEvidence == Spec => []EvidenceIsReal
<1>1. IInv => EvidenceIsReal
  BY DEF IInv, Evidence
<1>. QED
  BY <1>1, Inductive, PTL

\* The success on record is replaced by a later one or lost with the helper
\* that writes it, and by nothing else (record_cycle's last_success_at).
THEOREM SuccessIsRemembered == Spec => SuccessIsKept
<1>. DEFINE Kept ==
       LastSuccess(status) # Never =>
         \/ LastSuccess(status') = LastSuccess(status)
         \/ LastSuccess(status') = now /\ CyclePassed
         \/ status'.kind = "status" /\ ~status'.helper
<1>1. ASSUME IInv, [Next]_vars PROVE Kept \/ UNCHANGED vars
  <2>1. CASE InstallStatus
    <3>1. /\ partial.kind = "status"
          /\ partial.helper =>
               partial.last_success_at =
                  IF CyclePassed THEN now ELSE LastSuccess(status)
      BY <1>1, <2>1 DEF InstallStatus, IInv, Evidence, PartialFits
    <3>2. status' = partial /\ LastSuccess(partial) = partial.last_success_at
      BY <2>1, <3>1 DEF InstallStatus, LastSuccess
    <3>. QED
      BY <3>1, <3>2
  <2>2. CASE UNCHANGED status
    BY <2>2
  <2>3. InstallStatus \/ UNCHANGED status
    BY <1>1 DEF Next, Tick, SleepTillWindow, Wake, StartCycle, RunStep,
                PauseForStorage, PublishSummary, Publishes, Exit, ChildDies,
                OpenPartial, WriteStatus, HelperFails, Writes, Rest, Die,
                Restart, vars
  <2>. QED
    BY <2>1, <2>2, <2>3
<1>. QED
  BY <1>1, Inductive, PTL DEF Spec, SuccessIsKept
-----------------------------------------------------------------------------
(* Windows *)

LEMMA WindowTimes ==
    ASSUME NEW d \in CalendarDays, NEW w \in WindowsOf(d)
    PROVE  w.start \in Int /\ w.end \in Int /\ w.start < w.end
BY CalendarAssumption

\* The days a check looks at are days of the calendar.
LEMMA CheckedDays ==
    ASSUME NEW t \in Times
    PROVE  /\ DayOf(t) \in Int
           /\ DayOf(t) \in CalendarDays /\ DayOf(t) + 1 \in CalendarDays
           /\ \A k \in 0..2 : DayOf(t) - k \in CalendarDays
           /\ DayOf(0)..DayOf(t) \subseteq CalendarDays
<1>1. DayOf(0) \in Int /\ DayOf(MaxTime) \in Int /\ DayOf(t) \in DayOf(0)..DayOf(MaxTime)
  BY CalendarAssumption
<1>. QED
  BY <1>1 DEF CalendarDays

\* The elapsed time of a window is what lies between the later of two starts
\* and the earlier of two ends.
LEMMA ElapsedIs ==
    ASSUME NEW d \in CalendarDays, NEW w \in WindowsOf(d), NEW s \in Int, NEW t \in Int
    PROVE  /\ Elapsed(w, s, t) \in Int
           /\ Elapsed(w, s, t) <= t - s
           /\ Elapsed(w, s, t) <= w.end - s
           /\ Elapsed(w, s, t) <= t - w.start
<1>1. w.start \in Int /\ w.end \in Int
  BY WindowTimes
<1>2. ASSUME NEW a \in Int, NEW b \in Int
      PROVE  /\ Min({a, b}) \in Int /\ Min({a, b}) <= a /\ Min({a, b}) <= b
             /\ Max({a, b}) \in Int /\ a <= Max({a, b}) /\ b <= Max({a, b})
  <2>1. \E x \in {a, b} : \A y \in {a, b} : x <= y
    BY a <= b \/ b <= a
  <2>2. \E x \in {a, b} : \A y \in {a, b} : x >= y
    BY a <= b \/ b <= a
  <2>3. Min({a, b}) \in {a, b} /\ \A y \in {a, b} : Min({a, b}) <= y
    BY <2>1 DEF Min
  <2>4. Max({a, b}) \in {a, b} /\ \A y \in {a, b} : Max({a, b}) >= y
    BY <2>2 DEF Max
  <2>. QED
    BY <2>3, <2>4
<1>. DEFINE low == Min({t, w.end})
            high == Max({s, w.start})
<1>3. low \in Int /\ low <= t /\ low <= w.end
  BY <1>1, <1>2
<1>4. high \in Int /\ s <= high /\ w.start <= high
  BY <1>1, <1>2
<1>5. Elapsed(w, s, t) = low - high
  BY DEF Elapsed
<1>. HIDE DEF low, high
<1>. QED
  BY <1>1, <1>3, <1>4, <1>5

\* When readiness says ok, the last success is real and no window has gone by
\* for longer than the grace since, on whatever day (scheduler_status): those
\* of three days are looked at, and older ones were over before it.
THEOREM OkIsRecent == Spec => []OkMeansRecent
<1>1. IInv => OkMeansRecent
  <2>. SUFFICES ASSUME IInv, SchedulerOk
                PROVE  /\ proved # Never
                       /\ \A d \in DayOf(0)..DayOf(now) : \A w \in WindowsOf(d) :
                            Elapsed(w, proved, now) <= Grace
    BY DEF OkMeansRecent
  <2>. DEFINE latest == status.last_cycle_at
  <2>1. /\ status.kind = "status" /\ status.status = "complete"
        /\ latest <= now /\ now - latest <= MaxAge /\ ~MissedPoll
    BY DEF SchedulerOk
  <2>2. latest = proved
    BY <2>1 DEF IInv, Evidence, EvidenceIsReal
  <2>3. latest \in Times /\ now \in Times
    BY <2>1 DEF IInv, TypeInv, TypeOK, CycleStatus, NoFile
  <2>4. latest \in Nat /\ now \in Int /\ MaxAge \in Int /\ Grace \in Nat
    BY <2>3, SchedulerAssumption DEF Times, Grace
  <2>5. proved # Never
    BY <2>2, <2>4, SchedulerAssumption
  <2>6. ASSUME NEW d \in DayOf(0)..DayOf(now), NEW w \in WindowsOf(d)
        PROVE  Elapsed(w, latest, now) <= Grace
    <3>1. DayOf(now) \in Int /\ d \in Int /\ d <= DayOf(now) /\ d \in CalendarDays
      BY <2>3, CheckedDays, CalendarAssumption
    <3>2. CASE d < DayOf(now) - 2
      <4>1. w.end + MaxAge <= now
        BY <2>3, <3>1, <3>2, CalendarAssumption
      <4>2. Elapsed(w, latest, now) \in Int /\ Elapsed(w, latest, now) <= w.end - latest /\ w.end \in Int
        BY <2>4, <3>1, ElapsedIs, WindowTimes
      <4>. QED
        BY <2>1, <2>4, <4>1, <4>2
    <3>3. CASE ~(d < DayOf(now) - 2)
      <4>1. DayOf(now) - d \in 0..2 /\ d = DayOf(now) - (DayOf(now) - d)
        BY <3>1, <3>3
      <4>2. ~(Elapsed(w, latest, now) > Grace)
        BY <2>1, <4>1 DEF MissedPoll
      <4>3. Elapsed(w, latest, now) \in Int
        BY <2>4, <3>1, ElapsedIs
      <4>. QED
        BY <2>4, <4>2, <4>3
    <3>. QED
      BY <3>2, <3>3
  <2>. QED
    BY <2>2, <2>5, <2>6
<1>. QED
  BY <1>1, Inductive, PTL

-----------------------------------------------------------------------------
(* No false alarm *)

\* No window is open between s and t.
Quiet(s, t) ==
    \A d \in CalendarDays : \A w \in WindowsOf(d) :
        w.end <= s \/ t <= w.start \/ t <= s

\* Since the status: the interval was slept, then nothing but the time between
\* windows, and the cycle that followed is younger than the interval.
OnTime ==
    LET rested == status.last_cycle_at + Interval
    IN  /\ pc = "dead" => tardy
        /\ status.kind = "status" /\ ~tardy =>
             /\ pc = "resting" => now = status.last_cycle_at
             /\ pc = "sleeping" => /\ status.last_cycle_at <= now /\ now <= wake
                                   /\ rested <= wake /\ Quiet(rested, wake)
             /\ pc = "timing" => rested <= now /\ Quiet(rested, now)
             /\ pc \in {"running", "ended", "writing", "installing"} =>
                  /\ rested <= started /\ Quiet(rested, started)
                  /\ started <= now /\ now <= started + Interval

PollInv == IInv /\ OnTime

\* Until the loop wakes no window opens.
LEMMA SleepIsQuiet ==
    ASSUME NEW t \in Times, SecondsUntilNextPoll(t) > 0
    PROVE  Quiet(t, t + SecondsUntilNextPoll(t))
<1>. DEFINE day == DayOf(t)
            next == t + SecondsUntilNextPoll(t)
            S == {v.start : v \in Upcoming(t)}
<1>1. t \in Int /\ SecondsUntilNextPoll(t) \in Nat
  BY NextPollType, SchedulerAssumption DEF Times
<1>2. ~InWindow(t) /\ SecondsUntilNextPoll(t) = Min(S) - t
  BY <1>1 DEF SecondsUntilNextPoll
<1>3. PICK first \in Upcoming(t) :
        /\ first.start \in Int /\ t <= first.start
        /\ \A v \in Upcoming(t) : v.start \in Int /\ first.start <= v.start
  BY WindowsAssumption
<1>4. Min(S) = first.start
  <2>1. first.start \in S /\ \A y \in S : first.start <= y
    BY <1>3
  <2>2. \A x \in S : (\A y \in S : x <= y) => x = first.start
    BY <1>3, <2>1
  <2>. QED
    BY <2>1, <2>2 DEF Min
<1>5. next = first.start
  BY <1>1, <1>2, <1>3, <1>4
<1>6. day \in Int /\ day \in CalendarDays /\ day + 1 \in CalendarDays
  BY CheckedDays
<1>. HIDE DEF next
<1>7. ASSUME NEW d \in CalendarDays, NEW w \in WindowsOf(d)
      PROVE  w.end <= t \/ next <= w.start
  <2>1. w.start \in Int /\ w.end \in Int /\ d \in Int
    BY WindowTimes, CalendarAssumption DEF CalendarDays
  <2>2. CASE d < day
    BY <2>2, CalendarAssumption
  <2>3. CASE d = day
    <3>1. CASE t < w.start
      <4>1. w \in Upcoming(t)
        BY <2>3, <3>1 DEF Upcoming
      <4>. QED
        BY <1>3, <1>5, <4>1
    <3>2. CASE ~(t < w.start)
      BY <1>1, <1>2, <2>1, <2>3, <3>2 DEF InWindow
    <3>. QED
      BY <3>1, <3>2
  <2>4. CASE d > day
    <3>1. CASE first \in WindowsOf(day)
      <4>1. first.end <= w.start /\ first.start < first.end /\ first.end \in Int
        BY <1>6, <2>4, <3>1, CalendarAssumption
      <4>. QED
        BY <1>3, <1>5, <2>1, <4>1
    <3>2. CASE first \notin WindowsOf(day)
      <4>1. Upcoming(t) = WindowsOf(day + 1)
        BY <1>3, <3>2 DEF Upcoming
      <4>2. CASE d = day + 1
        BY <1>3, <1>5, <4>1, <4>2
      <4>3. CASE d # day + 1
        <5>1. first.end <= w.start /\ first.start < first.end /\ first.end \in Int
          <6>1. day + 1 < d
            BY <1>6, <2>1, <2>4, <4>3
          <6>2. first \in WindowsOf(day + 1)
            BY <1>3, <4>1
          <6>. QED
            BY <1>6, <6>1, <6>2, CalendarAssumption
        <5>. QED
          BY <1>3, <1>5, <2>1, <5>1
      <4>. QED
        BY <4>2, <4>3
    <3>. QED
      BY <3>1, <3>2
  <2>. QED
    BY <1>6, <2>1, <2>2, <2>3, <2>4
<1>. QED
  BY <1>7 DEF Quiet, next

LEMMA QuietTwice ==
    ASSUME NEW s \in Int, NEW t \in Int, NEW u \in Int, s <= t, t <= u, Quiet(s, t), Quiet(t, u)
    PROVE  Quiet(s, u)
<1>. SUFFICES ASSUME NEW d \in CalendarDays, NEW w \in WindowsOf(d)
              PROVE  w.end <= s \/ u <= w.start \/ u <= s
  BY DEF Quiet
<1>1. w.start \in Int /\ w.end \in Int /\ w.start < w.end
  BY WindowTimes
<1>2. w.end <= s \/ t <= w.start \/ t <= s
  BY DEF Quiet
<1>3. w.end <= t \/ u <= w.start \/ u <= t
  BY DEF Quiet
<1>. QED
  BY <1>1, <1>2, <1>3

\* The invariant rules an alarm out.
LEMMA OnTimeIsNoAlarm == PollInv => NoFalseAlarm
<1>. SUFFICES ASSUME PollInv, status.kind = "status", ~tardy PROVE ~MissedPoll
  BY DEF NoFalseAlarm
<1>. DEFINE latest == status.last_cycle_at
            rested == latest + Interval
<1>1. now \in Times /\ latest \in Times /\ wake \in Nat /\ started \in Times
  BY DEF PollInv, IInv, TypeInv, TypeOK, CycleStatus, NoFile
<1>2. now \in Int /\ latest \in Int /\ wake \in Int /\ started \in Int /\ Interval \in Nat
      /\ Grace = Interval + Interval /\ rested \in Int
  BY <1>1, SchedulerAssumption DEF Times, Grace
<1>3. pc \in {"timing", "sleeping", "running", "ended", "writing", "installing", "resting"}
  BY DEF PollInv, OnTime, IInv, TypeInv, TypeOK
<1>. SUFFICES ASSUME NEW k \in 0..2, NEW w \in WindowsOf(DayOf(now) - k)
              PROVE  ~(Elapsed(w, latest, now) > Grace)
  BY DEF MissedPoll
<1>4. DayOf(now) - k \in CalendarDays
  BY <1>1, CheckedDays
<1>5. /\ Elapsed(w, latest, now) \in Int /\ Elapsed(w, latest, now) <= now - latest
      /\ Elapsed(w, latest, now) <= w.end - latest /\ Elapsed(w, latest, now) <= now - w.start
      /\ w.start \in Int /\ w.end \in Int
  BY <1>2, <1>4, ElapsedIs, WindowTimes
<1>6. ASSUME NEW b \in Int, rested <= b, Quiet(rested, b), now <= b + Interval
      PROVE  Elapsed(w, latest, now) <= Grace
  <2>1. w.end <= rested \/ b <= w.start \/ b <= rested
    BY <1>4, <1>6 DEF Quiet
  <2>. QED
    BY <1>2, <1>5, <1>6, <2>1
<1>7. CASE pc = "resting"
  <2>1. now = latest
    BY <1>7 DEF PollInv, OnTime
  <2>. QED
    BY <1>2, <1>5, <2>1
<1>8. CASE pc = "sleeping"
  <2>1. rested <= wake /\ Quiet(rested, wake) /\ now <= wake
    BY <1>8 DEF PollInv, OnTime
  <2>. QED
    BY <1>2, <1>5, <1>6, <2>1
<1>9. CASE pc = "timing"
  <2>1. rested <= now /\ Quiet(rested, now)
    BY <1>9 DEF PollInv, OnTime
  <2>. QED
    BY <1>2, <1>5, <1>6, <2>1
<1>10. CASE pc \in {"running", "ended", "writing", "installing"}
  <2>1. rested <= started /\ Quiet(rested, started) /\ now <= started + Interval
    BY <1>10 DEF PollInv, OnTime
  <2>. QED
    BY <1>2, <1>5, <1>6, <2>1
<1>. QED
  BY <1>3, <1>7, <1>8, <1>9, <1>10

LEMMA OnTimeNext == PollInv /\ [Next]_vars => OnTime'
<1>. SUFFICES ASSUME PollInv, [Next]_vars PROVE OnTime'
  OBVIOUS
<1>0. /\ now \in Times /\ now \in Int /\ started \in Int /\ wake \in Int /\ Interval \in Nat
      /\ status.kind = "status" => status.last_cycle_at \in Int
  BY SchedulerAssumption DEF PollInv, IInv, TypeInv, TypeOK, CycleStatus, Times, NoFile
<1>. USE DEF PollInv
<1>1. CASE Tick
  <2>1. /\ now' = now + 1 /\ tardy' = (tardy \/ (pc = "running" /\ now' > started + Interval))
        /\ (pc = "sleeping" /\ now < wake) \/ pc \in {"running", "dead"}
        /\ UNCHANGED <<pc, wake, started, status>>
    BY <1>1 DEF Tick
  <2>2. CASE tardy
    BY <2>1, <2>2 DEF OnTime
  <2>3. CASE ~tardy /\ pc = "sleeping"
    BY <1>0, <2>1, <2>3 DEF OnTime
  <2>4. CASE ~tardy /\ pc = "running"
    <3>1. ~tardy' => now' <= started + Interval
      <4>1. now' > started + Interval => tardy'
        BY <2>1, <2>4, Zenon
      <4>2. now' > started + Interval \/ now' <= started + Interval
        BY <1>0, <2>1
      <4>. QED
        BY <4>1, <4>2
    <3>2. status.kind = "status" =>
             /\ status.last_cycle_at + Interval <= started
             /\ Quiet(status.last_cycle_at + Interval, started)
             /\ started <= now
      BY <2>4 DEF OnTime
    <3>3. started <= now => started <= now'
      BY <1>0, <2>1
    <3>4. pc' = "running" /\ UNCHANGED <<started, status>>
      BY <2>1, <2>4
    <3>. QED
      BY <3>1, <3>2, <3>3, <3>4 DEF OnTime
  <2>. QED
    BY <2>1, <2>2, <2>3, <2>4 DEF OnTime
<1>2. CASE SleepTillWindow
  <2>. DEFINE rested == status.last_cycle_at + Interval
              n == SecondsUntilNextPoll(now)
  <2>1. /\ pc = "timing" /\ pc' = "sleeping" /\ n > 0
        /\ wake' = now + n
        /\ UNCHANGED <<now, status, tardy>>
    BY <1>2 DEF SleepTillWindow
  <2>2. n \in Nat /\ Quiet(now, now + n)
    BY <1>0, <2>1, NextPollType, SleepIsQuiet
  <2>. HIDE DEF n
  <2>3. ASSUME status.kind = "status", ~tardy
        PROVE  status.last_cycle_at <= now /\ rested <= now /\ Quiet(rested, now + n)
    <3>1. rested <= now /\ Quiet(rested, now)
      BY <2>1, <2>3 DEF OnTime
    <3>2. rested \in Int /\ status.last_cycle_at \in Int /\ now + n \in Int /\ now <= now + n
      BY <1>0, <2>2, <2>3
    <3>3. Quiet(rested, now + n)
      <4>. HIDE DEF rested
      <4>. QED
        BY <1>0, <2>2, <3>1, <3>2, QuietTwice
    <3>. QED
      BY <1>0, <2>3, <3>1, <3>2, <3>3
  <2>. QED
    BY <1>0, <2>1, <2>2, <2>3 DEF OnTime
<1>3. CASE Wake
  <2>1. pc = "sleeping" /\ now = wake /\ pc' = "timing" /\ UNCHANGED <<now, status, tardy>>
    BY <1>3 DEF Wake
  <2>. QED
    BY <2>1 DEF OnTime
<1>4. CASE StartCycle
  <2>1. pc = "timing" /\ pc' = "running" /\ started' = now /\ UNCHANGED <<now, status, tardy>>
    BY <1>4 DEF StartCycle
  <2>. QED
    BY <1>0, <2>1 DEF OnTime
<1>5. CASE RunStep \/ PauseForStorage \/ PublishSummary \/ Exit \/ ChildDies \/ OpenPartial
           \/ WriteStatus \/ HelperFails
  <2>1. /\ pc \in {"running", "ended", "writing"} /\ pc' \in {"running", "ended", "writing", "installing"}
        /\ UNCHANGED <<now, started, status, tardy>>
    BY <1>5 DEF RunStep, PauseForStorage, PublishSummary, Publishes, Exit, ChildDies, OpenPartial,
                WriteStatus, HelperFails, Writes
  <2>. QED
    BY <2>1 DEF OnTime
<1>6. CASE InstallStatus
  <2>1. /\ pc = "installing" /\ pc' = "resting" /\ status' = partial /\ now' = now
        /\ partial.last_cycle_at = now
    BY <1>6 DEF InstallStatus, IInv, Evidence, PartialFits
  <2>. QED
    BY <2>1 DEF OnTime
<1>7. CASE Rest
  <2>1. pc = "resting" /\ pc' = "sleeping" /\ wake' = now + Interval /\ UNCHANGED <<now, status, tardy>>
    BY <1>7 DEF Rest
  <2>2. ASSUME NEW t \in Int PROVE Quiet(t, t)
    BY <2>2 DEF Quiet
  <2>. QED
    BY <1>0, <2>1, <2>2 DEF OnTime
<1>8. CASE Die
  BY <1>8 DEF Die, OnTime
<1>9. CASE Restart
  <2>1. pc = "dead" /\ pc' = "timing" /\ UNCHANGED <<now, status, tardy>>
    BY <1>9 DEF Restart
  <2>. QED
    BY <2>1 DEF OnTime
<1>10. CASE UNCHANGED vars
  BY <1>10 DEF vars, OnTime
<1>. QED
  BY <1>1, <1>2, <1>3, <1>4, <1>5, <1>6, <1>7, <1>8, <1>9, <1>10 DEF Next

\* A loop that has not died since the last status, and whose cycles keep within
\* the interval, is never reported to have missed a poll (scheduler_status).
THEOREM AlarmsAreTrue == Spec => []NoFalseAlarm
<1>1. Init => OnTime
  BY DEF Init, OnTime, NoFile
<1>. QED
  BY <1>1, OnTimeNext, OnTimeIsNoAlarm, Inductive, PTL DEF Spec, PollInv

-----------------------------------------------------------------------------
(* The days of the checkpoint *)

Entry == [ok : BOOLEAN, attempts : Nat, pending : BOOLEAN]

DatesType ==
    /\ today \in FirstDay..LastDay
    /\ runDay \in FirstDay..today
    /\ complete \in Int
    /\ begun \subseteq Int
    /\ todo \subseteq Int
    /\ days \in [DOMAIN days -> Entry]

\* A day since the first one polled.
Since(d) == \E first \in begun : first <= d

Covered(d) == d \in answered \/ (d \in DOMAIN days /\ ~days[d].ok)

Floor(end) == end - (HistoryDays - 1)

CheckpointFits ==
    /\ DOMAIN days \subseteq begun
    /\ \A d \in begun : FilingDay(d) /\ d <= runDay

RunFits ==
    /\ today <= complete + HistoryDays
    /\ todo # {} => runDay = today
    /\ \A d \in todo : FilingDay(d) /\ d <= runDay

\* Nothing before the look back of the first run is ever polled.
FirstRunFits ==
    /\ begun = {} => /\ complete = FirstDay - HistoryDays
                     /\ todo # {} => todo = FilingDays(Floor(runDay), runDay)
    /\ begun # {} => /\ \A d \in todo : Since(d)
                     /\ \A d \in Int : FilingDay(d) /\ Floor(runDay) <= d => Since(d)

\* A complete run leaves no day behind.
CompleteCovers ==
    \A d \in Int : FilingDay(d) /\ Since(d) /\ d <= complete => Covered(d)

\* Nor does a run that goes on.
RunCovers ==
    todo # {} =>
        \A d \in Int : FilingDay(d) /\ Since(d) /\ d <= runDay => Covered(d) \/ d \in todo

NoDayPassedOver ==
    \A d \in Int : FilingDay(d) /\ Since(d) /\ (\E latest \in begun : d <= latest) => Covered(d)

DatesInv ==
    DatesType /\ CheckpointFits /\ RunFits /\ FirstRunFits
    /\ CompleteCovers /\ RunCovers /\ NoDayPassedOver

-----------------------------------------------------------------------------
(* Greatest elements *)

\* A set of integers with an upper bound has a greatest element.
LEMMA MaxOf ==
    ASSUME NEW S \in SUBSET Int, S # {}, NEW top \in Int, \A x \in S : x <= top
    PROVE  Max(S) \in S /\ \A y \in S : y <= Max(S)
<1>. DEFINE T == {top - x : x \in S}
            R == OpToRel(<, Nat)
<1>1. T \in SUBSET Nat /\ T # {}
  <2>1. \A x \in S : top - x \in Nat
    OBVIOUS
  <2>. QED
    BY <2>1
<1>2. IsWellFoundedOn(R, Nat)
  BY NatLessThanWellFounded
<1>3. \A x, y \in Nat : y < x => <<y, x>> \in R
  BY DEF OpToRel
<1>. HIDE DEF R
<1>4. PICK t \in T : \A u \in T : ~ (<<u, t>> \in R)
  BY <1>1, <1>2, WFMin
<1>5. ASSUME NEW u \in T PROVE t <= u
  <2>1. ~ (<<u, t>> \in R)
    BY <1>4
  <2>2. ~ (u < t)
    BY <1>1, <1>3, <2>1
  <2>. QED
    BY <1>1, <2>2
<1>6. PICK x \in S : t = top - x
  BY <1>4
<1>7. \A y \in S : x >= y
  BY <1>5, <1>6
<1>8. \E z \in S : \A y \in S : z >= y
  BY <1>7
<1>9. Max(S) \in S /\ \A y \in S : Max(S) >= y
  BY <1>8 DEF Max
<1>. QED
  BY <1>9

LEMMA MaxOfTwo ==
    ASSUME NEW a \in Int, NEW b \in Int
    PROVE  /\ Max({a, b}) \in {a, b} /\ a <= Max({a, b}) /\ b <= Max({a, b})
           /\ Min({a, b}) \in {a, b} /\ Min({a, b}) <= a /\ Min({a, b}) <= b
<1>1. \E x \in {a, b} : \A y \in {a, b} : x >= y
  BY a >= b \/ b >= a
<1>2. \E x \in {a, b} : \A y \in {a, b} : x <= y
  BY a >= b \/ b >= a
<1>3. Max({a, b}) \in {a, b} /\ \A y \in {a, b} : Max({a, b}) >= y
  BY <1>1 DEF Max
<1>4. Min({a, b}) \in {a, b} /\ \A y \in {a, b} : Min({a, b}) <= y
  BY <1>2 DEF Min
<1>. QED
  BY <1>3, <1>4

\* The window of a run begins at its look back or at most at a polled day.
LEMMA WindowStart ==
    ASSUME DatesInv
    PROVE  /\ FirstNormal(today) \in Int
           /\ Floor(today) <= FirstNormal(today)
           /\ FirstNormal(today) = Floor(today) \/ \E latest \in begun : FirstNormal(today) <= latest
           /\ begun = {} => FirstNormal(today) = Floor(today)
<1>. DEFINE floor == Floor(today)
            newest == IF DOMAIN days = {} THEN floor ELSE Max(DOMAIN days)
            start == OverlapStart(today)
<1>1. floor \in Int /\ today \in FirstDay..LastDay /\ today \in Int
  BY DatesAssumption DEF DatesInv, DatesType, Floor
<1>2. start \in Int
  <2>1. OverlapStarts(today) # {}
    BY <1>1, FilingDaysRecur
  <2>2. OverlapStarts(today) \in SUBSET Int /\ \A d \in OverlapStarts(today) : d <= today
    BY <1>1, DatesAssumption DEF OverlapStarts
  <2>. QED
    BY <1>1, <2>1, <2>2, MaxOf DEF OverlapStart
<1>3. DOMAIN days # {} => Max(DOMAIN days) \in DOMAIN days
  <2>. SUFFICES ASSUME DOMAIN days # {} PROVE Max(DOMAIN days) \in DOMAIN days
    OBVIOUS
  <2>1. DOMAIN days \in SUBSET Int /\ runDay \in Int /\ \A d \in DOMAIN days : d <= runDay
    BY DatesAssumption DEF DatesInv, DatesType, CheckpointFits
  <2>. QED
    BY <2>1, MaxOf
<1>4. newest \in Int /\ (newest = floor \/ newest \in begun)
  BY <1>1, <1>3 DEF DatesInv, DatesType, CheckpointFits
<1>5. begun = {} => newest = floor
  BY DEF DatesInv, CheckpointFits
<1>6. FirstNormal(today) = Max({floor, Min({start, newest})})
  BY DEF FirstNormal, Floor
<1>. HIDE DEF floor, newest, start
<1>7. Min({start, newest}) \in Int /\ Min({start, newest}) <= newest
  BY <1>2, <1>4, MaxOfTwo
<1>. DEFINE low == Min({start, newest})
<1>8. Max({floor, low}) \in {floor, low} /\ floor <= Max({floor, low})
  <2>. HIDE DEF low
  <2>1. low \in Int
    BY <1>7 DEF low
  <2>. QED
    BY <1>1, <2>1, MaxOfTwo
<1>9. FirstNormal(today) \in {floor, low} /\ floor <= FirstNormal(today) /\ low \in Int /\ low <= newest
  BY <1>6, <1>7, <1>8
<1>. HIDE DEF low
<1>10. FirstNormal(today) = floor \/ \E latest \in begun : FirstNormal(today) <= latest
  BY <1>1, <1>4, <1>9
<1>11. begun = {} => FirstNormal(today) = floor
  BY <1>1, <1>5, <1>9
<1>. QED
  BY <1>1, <1>9, <1>10, <1>11 DEF floor

-----------------------------------------------------------------------------
(* The checkpoint *)

\* What saving a poll keeps of the checkpoint.
LEMMA PollIsSaved ==
    ASSUME days \in [DOMAIN days -> Entry], NEW d, NEW good \in BOOLEAN, NEW found \in BOOLEAN,
           days' = Saved(Polled(d, good, found))
    PROVE  /\ days' \in [DOMAIN days' -> Entry]
           /\ DOMAIN days' \subseteq DOMAIN days \cup {d}
           /\ \A e \in DOMAIN days \ {d} :
                 ~days[e].ok \/ days[e].pending => e \in DOMAIN days' /\ days'[e] = days[e]
           /\ ~good => d \in DOMAIN days' /\ ~days'[d].ok
           /\ found \/ (d \in DOMAIN days /\ days[d].pending)
                 => d \in DOMAIN days' /\ days'[d].pending
<1>. DEFINE p == Polled(d, good, found)
            old == IF d \in DOMAIN days THEN days[d] ELSE NewEntry
            new == [ok |-> good, attempts |-> old.attempts + 1, pending |-> old.pending \/ found]
<1>1. old \in Entry /\ (d \in DOMAIN days => old = days[d])
  BY DEF Entry, NewEntry
<1>. HIDE DEF old
<1>2. new \in Entry /\ new.ok = good /\ new.pending = (old.pending \/ found)
  BY <1>1 DEF Entry
<1>3. p = [e \in DOMAIN days \cup {d} |-> IF e # d THEN days[e] ELSE new]
  BY DEF Polled, old
<1>. HIDE DEF new
<1>4. /\ DOMAIN p = DOMAIN days \cup {d} /\ p[d] = new
      /\ \A e \in DOMAIN days \ {d} : p[e] = days[e]
      /\ \A e \in DOMAIN p : p[e] \in Entry
  BY <1>2, <1>3
<1>. DEFINE kept == {e \in DOMAIN p : e >= runDay - HistoryDays \/ ~p[e].ok \/ p[e].pending}
<1>5. days' = [e \in kept |-> p[e]]
  BY DEF Saved
<1>. HIDE DEF p
<1>6. DOMAIN days' = kept /\ \A e \in kept : days'[e] = p[e]
  BY <1>5
<1>7. days' \in [kept -> Entry]
  BY <1>4, <1>5
<1>8. \A e \in DOMAIN days \ {d} :
         ~days[e].ok \/ days[e].pending => e \in kept /\ p[e] = days[e]
  BY <1>4
<1>9. ~good => d \in kept /\ ~p[d].ok
  BY <1>2, <1>4
<1>10. found \/ (d \in DOMAIN days /\ days[d].pending) => d \in kept /\ p[d].pending
  BY <1>1, <1>2, <1>4
<1>. HIDE DEF kept
<1>11. kept \subseteq DOMAIN days \cup {d}
  BY <1>4 DEF kept
<1>. QED
  BY <1>6, <1>7, <1>8, <1>9, <1>10, <1>11

\* What settling a day keeps.
LEMMA SettleIsSaved ==
    ASSUME days \in [DOMAIN days -> Entry], NEW d \in DOMAIN days,
           days' = Saved([days EXCEPT ![d].pending = FALSE])
    PROVE  /\ days' \in [DOMAIN days' -> Entry]
           /\ DOMAIN days' \subseteq DOMAIN days
           /\ \A e \in DOMAIN days : ~days[e].ok => e \in DOMAIN days' /\ ~days'[e].ok
           /\ \A e \in DOMAIN days \ {d} :
                 days[e].pending => e \in DOMAIN days' /\ days'[e].pending
<1>. DEFINE new == [days[d] EXCEPT !.pending = FALSE]
            p == [days EXCEPT ![d] = new]
<1>1. new \in Entry /\ new.ok = days[d].ok
  BY DEF Entry
<1>2. days' = Saved(p)
  OBVIOUS
<1>. HIDE DEF new
<1>3. /\ DOMAIN p = DOMAIN days /\ p[d] = new
      /\ \A e \in DOMAIN days \ {d} : p[e] = days[e]
      /\ \A e \in DOMAIN days : p[e] \in Entry
  BY <1>1
<1>. HIDE DEF p
<1>. DEFINE kept == {e \in DOMAIN p : e >= runDay - HistoryDays \/ ~p[e].ok \/ p[e].pending}
<1>4. days' = [e \in kept |-> p[e]]
  BY <1>2 DEF Saved
<1>5. days' \in [kept -> Entry]
  BY <1>3, <1>4
<1>6. \A e \in DOMAIN days : ~days[e].ok => e \in kept /\ ~p[e].ok
  BY <1>1, <1>3
<1>7. \A e \in DOMAIN days \ {d} : days[e].pending => e \in kept /\ p[e].pending
  BY <1>3
<1>8. kept \subseteq DOMAIN days
  BY <1>3
<1>. HIDE DEF kept
<1>. QED
  BY <1>4, <1>5, <1>6, <1>7, <1>8

-----------------------------------------------------------------------------
(* The steps *)

LEMMA InitFits == DatesInit => DatesInv
<1>. SUFFICES ASSUME DatesInit PROVE DatesInv
  OBVIOUS
<1>. USE DEF DatesInit
<1>1. DatesType
  BY DatesAssumption DEF DatesType, Entry
<1>2. CheckpointFits /\ RunFits /\ FirstRunFits
  BY DatesAssumption DEF CheckpointFits, RunFits, FirstRunFits
<1>3. CompleteCovers /\ RunCovers /\ NoDayPassedOver
  BY DEF CompleteCovers, RunCovers, NoDayPassedOver, Since
<1>. QED
  BY <1>1, <1>2, <1>3 DEF DatesInv

LEMMA DayPassesFits ==
    ASSUME DatesInv, DayPasses, MaxOutage <= HistoryDays PROVE DatesInv'
<1>1. /\ todo = {} /\ today < LastDay /\ today + 1 <= complete + MaxOutage /\ today' = today + 1
      /\ UNCHANGED <<days, todo, runDay, runs, complete, begun, answered, owed>>
  BY DEF DayPasses
<1>2. DatesType'
  BY <1>1, DatesAssumption DEF DatesInv, DatesType
<1>3. RunFits'
  BY <1>1, <1>2, DatesAssumption DEF DatesInv, DatesType, RunFits
<1>4. CheckpointFits' /\ FirstRunFits'
  BY <1>1 DEF DatesInv, CheckpointFits, FirstRunFits, Since, Floor
<1>5. CompleteCovers' /\ RunCovers' /\ NoDayPassedOver'
  BY <1>1 DEF DatesInv, CompleteCovers, RunCovers, NoDayPassedOver, Since, Covered
<1>. QED
  BY <1>2, <1>3, <1>4, <1>5 DEF DatesInv

LEMMA StartRunFits ==
    ASSUME DatesInv, StartRun PROVE DatesInv'
<1>. DEFINE first == FirstNormal(today)
<1>1. /\ todo = {} /\ runDay' = today /\ todo' = FilingDays(first, today) \cup Retries
      /\ UNCHANGED <<today, days, complete, begun, answered, owed>>
  BY DEF StartRun, Dates
<1>2. /\ first \in Int /\ Floor(today) <= first
      /\ first = Floor(today) \/ \E latest \in begun : first <= latest
      /\ begun = {} => first = Floor(today)
  BY WindowStart
<1>. HIDE DEF first
<1>3. /\ today \in Int /\ runDay \in Int /\ runDay <= today /\ today \in FirstDay..LastDay
      /\ complete \in Int /\ begun \subseteq Int
  BY DatesAssumption DEF DatesInv, DatesType
<1>4. Retries \subseteq begun /\ \A d \in begun : FilingDay(d) /\ d <= today
  BY <1>3 DEF Retries, Failed, DatesInv, CheckpointFits
<1>5. \A d \in todo' : d \in Int /\ FilingDay(d) /\ d <= today
  BY <1>1, <1>2, <1>3, <1>4 DEF FilingDays
<1>6. DatesType'
  BY <1>1, <1>3, <1>5, DatesAssumption DEF DatesInv, DatesType
<1>7. CheckpointFits' /\ RunFits'
  BY <1>1, <1>4, <1>5 DEF DatesInv, CheckpointFits, RunFits
<1>8. FirstRunFits'
  <2>1. begun = {} => todo' = FilingDays(Floor(today), today)
    BY <1>1, <1>2, <1>4
  <2>2. begun = {} => complete = FirstDay - HistoryDays
    BY DEF DatesInv, FirstRunFits
  <2>3. ASSUME begun # {}, NEW d \in Int, FilingDay(d), Floor(today) <= d PROVE Since(d)
    BY <1>3, <2>3, DatesAssumption DEF DatesInv, FirstRunFits, Floor
  <2>4. ASSUME begun # {}, NEW d \in todo' PROVE Since(d)
    <3>1. CASE d \in Retries
      BY <1>3, <1>4, <3>1 DEF Since
    <3>2. CASE d \in FilingDays(first, today)
      <4>1. d \in Int /\ FilingDay(d) /\ Floor(today) <= d
        BY <1>2, <1>3, <3>2, DatesAssumption DEF FilingDays, Floor
      <4>. QED
        BY <2>3, <2>4, <4>1
    <3>. QED
      BY <1>1, <3>1, <3>2
  <2>. QED
    BY <1>1, <2>1, <2>2, <2>3, <2>4 DEF FirstRunFits, Since
<1>9. RunCovers'
  <2>. SUFFICES ASSUME NEW d \in Int, FilingDay(d), Since(d), d <= today
                PROVE  Covered(d) \/ d \in todo'
    BY <1>1 DEF RunCovers, Since, Covered
  <2>1. CASE first <= d
    BY <1>1, <1>2, <1>3, <2>1 DEF FilingDays
  <2>2. CASE d < first /\ first = Floor(today)
    <3>1. d <= complete
      BY <1>3, <2>2, DatesAssumption DEF DatesInv, RunFits, Floor
    <3>. QED
      BY <3>1 DEF DatesInv, CompleteCovers
  <2>3. CASE d < first /\ \E latest \in begun : first <= latest
    <3>1. \E latest \in begun : d <= latest
      BY <1>2, <1>3, <2>3
    <3>. QED
      BY <3>1 DEF DatesInv, NoDayPassedOver
  <2>. QED
    BY <1>2, <2>1, <2>2, <2>3
<1>10. CompleteCovers' /\ NoDayPassedOver'
  BY <1>1 DEF DatesInv, CompleteCovers, NoDayPassedOver, Since, Covered
<1>. QED
  BY <1>6, <1>7, <1>8, <1>9, <1>10 DEF DatesInv

\* A poll, whether its answer comes or not, goes to the earliest day left.
LEMMA PollFits ==
    ASSUME DatesInv, NEW d \in Days, IsNext(d), todo' \subseteq todo \ {d},
           begun' = begun \cup {d}, answered \subseteq answered', UNCHANGED <<today, runDay>>,
           \/ complete' = complete
           \/ complete' = runDay /\ todo = {d},
           days' \in [DOMAIN days' -> Entry], DOMAIN days' \subseteq DOMAIN days \cup {d},
           \A e \in DOMAIN days \ {d} : ~days[e].ok => e \in DOMAIN days' /\ ~days'[e].ok,
           d \in answered' \/ (d \in DOMAIN days' /\ ~days'[d].ok),
           todo' # {} => todo' = todo \ {d}
    PROVE  DatesInv'
<1>1. /\ d \in todo /\ \A e \in todo : d <= e
  BY DEF IsNext
<1>2. /\ d \in Int /\ FilingDay(d) /\ d <= runDay /\ runDay = today
      /\ runDay \in Int /\ complete \in Int /\ begun \subseteq Int /\ todo \subseteq Int
      /\ FirstDay <= runDay /\ today \in Int
  BY <1>1, DatesAssumption DEF DatesInv, DatesType, RunFits
<1>3. \A e \in Int : Covered(e) => Covered(e)'
  BY DEF Covered
<1>4. Covered(d)'
  BY DEF Covered
<1>5. begun # {} => Since(d)
  BY <1>1 DEF DatesInv, FirstRunFits
<1>6. begun # {} => \A e \in Int : Since(e)' => Since(e)
  BY <1>2, <1>5 DEF Since
<1>7. begun = {} => \A e \in Int : Since(e)' => d <= e
  BY <1>2 DEF Since
<1>8. \A e \in Int : Since(e) => Since(e)'
  BY DEF Since
<1>9. begun = {} => /\ complete = FirstDay - HistoryDays
                    /\ todo = FilingDays(Floor(runDay), runDay)
  BY <1>1 DEF DatesInv, FirstRunFits
<1>10. \* The days since the first poll that are not covered are yet to be polled.
       \A e \in Int : FilingDay(e) /\ Since(e)' /\ e <= runDay => Covered(e)' \/ e \in todo \ {d}
  <2>1. CASE begun # {}
    BY <1>1, <1>3, <1>4, <1>6, <2>1 DEF DatesInv, RunCovers
  <2>2. CASE begun = {}
    <3>. SUFFICES ASSUME NEW e \in Int, FilingDay(e), d <= e, e <= runDay
                  PROVE  Covered(e)' \/ e \in todo \ {d}
      BY <1>7, <2>2
    <3>1. Floor(runDay) <= d /\ Floor(runDay) \in Int
      BY <1>1, <1>2, <1>9, <2>2, DatesAssumption DEF FilingDays, Floor
    <3>2. e \in todo
      BY <1>2, <1>9, <2>2, <3>1 DEF FilingDays
    <3>. QED
      BY <1>4, <3>2
  <2>. QED
    BY <2>1, <2>2
<1>11. DatesType'
  BY <1>2, DatesAssumption DEF DatesInv, DatesType
<1>12. CheckpointFits'
  BY <1>2 DEF DatesInv, CheckpointFits
<1>13. RunFits'
  BY <1>2, DatesAssumption DEF DatesInv, RunFits
<1>14. FirstRunFits'
  <2>1. begun' # {} /\ d \in begun'
    OBVIOUS
  <2>2. \A e \in todo' : Since(e)'
    BY <1>1, <2>1 DEF Since
  <2>3. ASSUME NEW e \in Int, FilingDay(e), Floor(runDay) <= e PROVE Since(e)'
    <3>1. CASE begun # {}
      BY <1>8, <2>3, <3>1 DEF DatesInv, FirstRunFits
    <3>2. CASE begun = {} /\ e <= runDay
      <4>1. e \in todo
        BY <1>2, <1>9, <2>3, <3>2, DatesAssumption DEF FilingDays, Floor
      <4>. QED
        BY <1>1, <2>1, <4>1 DEF Since
    <3>3. CASE runDay < e
      BY <1>2, <2>1, <3>3 DEF Since
    <3>. QED
      BY <1>2, <3>1, <3>2, <3>3
  <2>4. Floor(runDay)' = Floor(runDay)
    BY DEF Floor
  <2>. QED
    BY <2>1, <2>2, <2>3, <2>4 DEF FirstRunFits
<1>15. CompleteCovers'
  <2>. SUFFICES ASSUME NEW e \in Int, FilingDay(e), Since(e)', e <= complete' PROVE Covered(e)'
    BY DEF CompleteCovers
  <2>1. CASE complete' = runDay /\ todo = {d}
    BY <1>10, <2>1
  <2>2. CASE complete' = complete /\ begun # {}
    BY <1>3, <1>6, <2>2 DEF DatesInv, CompleteCovers
  <2>3. CASE complete' = complete /\ begun = {}
    <3>1. Floor(runDay) <= d
      BY <1>1, <1>2, <1>9, <2>3, DatesAssumption DEF FilingDays, Floor
    <3>2. d <= e /\ e <= FirstDay - HistoryDays
      BY <1>7, <1>9, <2>3
    <3>. QED
      BY <1>2, <3>1, <3>2, DatesAssumption DEF Floor
  <2>. QED
    BY <2>1, <2>2, <2>3
<1>16. RunCovers'
  BY <1>10 DEF RunCovers
<1>17. NoDayPassedOver'
  <2>. SUFFICES ASSUME NEW e \in Int, FilingDay(e), Since(e)', NEW latest \in begun', e <= latest
                PROVE  Covered(e)'
    BY DEF NoDayPassedOver
  <2>1. CASE latest = d
    <3>1. e <= runDay /\ e \notin todo \ {d}
      BY <1>1, <1>2, <2>1
    <3>. QED
      BY <1>10, <3>1
  <2>2. CASE latest \in begun
    BY <1>3, <1>6, <2>2 DEF DatesInv, NoDayPassedOver
  <2>. QED
    BY <2>1, <2>2
<1>. QED
  BY <1>11, <1>12, <1>13, <1>14, <1>15, <1>16, <1>17 DEF DatesInv

LEMMA SettleFits ==
    ASSUME DatesInv, NEW d \in Days, SettleDay(d) PROVE DatesInv'
<1>1. /\ d \in DOMAIN days /\ days' = Saved([days EXCEPT ![d].pending = FALSE])
      /\ UNCHANGED <<today, todo, runDay, runs, complete, begun, answered>>
  BY DEF SettleDay
<1>2. days \in [DOMAIN days -> Entry]
  BY DEF DatesInv, DatesType
<1>3. /\ days' \in [DOMAIN days' -> Entry]
      /\ DOMAIN days' \subseteq DOMAIN days
      /\ \A e \in DOMAIN days : ~days[e].ok => e \in DOMAIN days' /\ ~days'[e].ok
  BY <1>1, <1>2, SettleIsSaved
<1>4. \A e \in Int : Covered(e) => Covered(e)'
  BY <1>1, <1>3 DEF Covered
<1>5. DatesType' /\ CheckpointFits' /\ RunFits'
  BY <1>1, <1>3 DEF DatesInv, DatesType, CheckpointFits, RunFits
<1>6. FirstRunFits'
  BY <1>1 DEF DatesInv, FirstRunFits, Since, Floor
<1>7. CompleteCovers' /\ RunCovers' /\ NoDayPassedOver'
  BY <1>1, <1>4 DEF DatesInv, CompleteCovers, RunCovers, NoDayPassedOver, Since
<1>. QED
  BY <1>5, <1>6, <1>7 DEF DatesInv

LEMMA NextFits ==
    ASSUME DatesInv, [DatesNext]_dateVars, MaxOutage <= HistoryDays PROVE DatesInv'
<1>0. days \in [DOMAIN days -> Entry]
  BY DEF DatesInv, DatesType
<1>1. CASE UNCHANGED dateVars
  BY <1>1 DEF dateVars, DatesInv, DatesType, CheckpointFits, RunFits, FirstRunFits, CompleteCovers,
              RunCovers, NoDayPassedOver, Since, Covered, Floor
<1>2. CASE DayPasses
  BY <1>2, DayPassesFits
<1>3. CASE StartRun
  BY <1>3, StartRunFits
<1>4. ASSUME NEW d \in Days, NEW good \in BOOLEAN, NEW found \in BOOLEAN, PollDay(d, good, found)
      PROVE  DatesInv'
  <2>1. /\ IsNext(d) /\ days' = Saved(Polled(d, good, found)) /\ todo' = todo \ {d}
        /\ complete' = IF todo = {d} THEN runDay ELSE complete
        /\ begun' = begun \cup {d}
        /\ answered' = IF good THEN answered \cup {d} ELSE answered
        /\ UNCHANGED <<today, runDay>>
    BY <1>4 DEF PollDay
  <2>2. /\ days' \in [DOMAIN days' -> Entry] /\ DOMAIN days' \subseteq DOMAIN days \cup {d}
        /\ \A e \in DOMAIN days \ {d} : ~days[e].ok => e \in DOMAIN days' /\ ~days'[e].ok
        /\ ~good => d \in DOMAIN days' /\ ~days'[d].ok
    BY <1>0, <2>1, PollIsSaved
  <2>3. /\ d \in answered' \/ (d \in DOMAIN days' /\ ~days'[d].ok)
        /\ answered \subseteq answered'
    BY <2>1, <2>2
  <2>. QED
    BY <2>1, <2>2, <2>3, PollFits
<1>5. ASSUME NEW d \in Days, DieInPoll(d) PROVE DatesInv'
  <2>1. /\ IsNext(d) /\ days' = Saved(Polled(d, FALSE, FALSE)) /\ todo' = {}
        /\ begun' = begun \cup {d}
        /\ UNCHANGED <<today, runDay, complete, answered>>
    BY <1>5 DEF DieInPoll
  <2>2. /\ days' \in [DOMAIN days' -> Entry] /\ DOMAIN days' \subseteq DOMAIN days \cup {d}
        /\ \A e \in DOMAIN days \ {d} : ~days[e].ok => e \in DOMAIN days' /\ ~days'[e].ok
        /\ d \in DOMAIN days' /\ ~days'[d].ok
    BY <1>0, <2>1, PollIsSaved
  <2>. QED
    BY <2>1, <2>2, PollFits
<1>6. ASSUME NEW d \in Days, SettleDay(d) PROVE DatesInv'
  BY <1>6, SettleFits
<1>. QED
  BY <1>1, <1>2, <1>3, <1>4, <1>5, <1>6 DEF DatesNext

\* As long as complete runs are not further apart than the look back, the
\* checkpoint accounts for every filing day since the first one polled
\* (DiscoveryState.dates and save), wherever runs die and polls fail.
THEOREM CheckpointHasNoGap == MaxOutage <= HistoryDays => (DatesSpec => []NoGap)
<1>. SUFFICES ASSUME MaxOutage <= HistoryDays PROVE DatesSpec => []NoGap
  OBVIOUS
<1>1. DatesInv /\ [DatesNext]_dateVars => DatesInv'
  BY NextFits
<1>2. DatesInv => NoGap
  <2>1. Days \subseteq Int
    BY DatesAssumption DEF Days
  <2>. SUFFICES ASSUME DatesInv, NEW d \in Days, FilingDay(d),
                       NEW first \in begun, NEW latest \in begun, first <= d, d <= latest
                PROVE  Covered(d)
    BY DEF NoGap, Covered
  <2>. QED
    BY <2>1 DEF DatesInv, NoDayPassedOver, Since
<1>. QED
  BY <1>1, <1>2, InitFits, PTL DEF DatesSpec

-----------------------------------------------------------------------------
(* Days with work *)

OwedInv == days \in [DOMAIN days -> Entry] /\ OwedDaysKept

\* Whatever its age, a day with filings not yet stored stays in the checkpoint
\* (DiscoveryState.save), whether its later polls succeed or not.
THEOREM CheckpointKeepsOwedDays == DatesSpec => []OwedDaysKept
<1>1. DatesInit => OwedInv
  BY DEF DatesInit, OwedInv, OwedDaysKept
<1>2. OwedInv /\ [DatesNext]_dateVars => OwedInv'
  <2>. SUFFICES ASSUME OwedInv, [DatesNext]_dateVars PROVE OwedInv'
    OBVIOUS
  <2>. USE DEF OwedInv
  <2>1. CASE UNCHANGED dateVars \/ DayPasses \/ StartRun
    <3>1. UNCHANGED <<days, owed>>
      BY <2>1 DEF dateVars, DayPasses, StartRun
    <3>. QED
      BY <3>1 DEF OwedDaysKept
  <2>2. ASSUME NEW d \in Days, NEW good \in BOOLEAN, NEW found \in BOOLEAN,
               days' = Saved(Polled(d, good, found)),
               owed' = IF found THEN owed \cup {d} ELSE owed
        PROVE  OwedInv'
    <3>1. /\ days' \in [DOMAIN days' -> Entry]
          /\ \A e \in DOMAIN days \ {d} : days[e].pending => e \in DOMAIN days' /\ days'[e] = days[e]
          /\ found \/ (d \in DOMAIN days /\ days[d].pending)
               => d \in DOMAIN days' /\ days'[d].pending
      BY <2>2, PollIsSaved
    <3>. QED
      BY <2>2, <3>1 DEF OwedDaysKept
  <2>3. ASSUME NEW d \in Days, SettleDay(d) PROVE OwedInv'
    <3>1. /\ d \in DOMAIN days /\ days' = Saved([days EXCEPT ![d].pending = FALSE])
          /\ owed' = owed \ {d}
      BY <2>3 DEF SettleDay
    <3>2. /\ days' \in [DOMAIN days' -> Entry]
          /\ \A e \in DOMAIN days \ {d} : days[e].pending => e \in DOMAIN days' /\ days'[e].pending
      BY <3>1, SettleIsSaved
    <3>. QED
      BY <3>1, <3>2 DEF OwedDaysKept
  <2>4. ASSUME NEW d \in Days, DieInPoll(d) PROVE OwedInv'
    <3>1. days' = Saved(Polled(d, FALSE, FALSE)) /\ owed' = owed
      BY <2>4 DEF DieInPoll
    <3>. QED
      BY <2>2, <3>1
  <2>5. ASSUME NEW d \in Days, NEW good \in BOOLEAN, NEW found \in BOOLEAN, PollDay(d, good, found)
        PROVE  OwedInv'
    BY <2>2, <2>5 DEF PollDay
  <2>. QED
    BY <2>1, <2>3, <2>4, <2>5 DEF DatesNext
<1>3. OwedInv => OwedDaysKept
  BY DEF OwedInv
<1>. QED
  BY <1>1, <1>2, <1>3, PTL DEF DatesSpec

-----------------------------------------------------------------------------
(* SecClient: the requests of one client *)

Places == {"rest", "limit", "sleep", "send", "backoff"}

Errands == {"data", "tickers"}

Results == {"none", "ok", "error", "retryable error"}

CallerType ==
    [at : Places, calls : Int, attempt : Int, due : Int, wants : Errands, result : Results]

SecTypeInv ==
    /\ clock \in Int
    /\ last \in [Clients -> Int]
    /\ permitted \in [Clients -> Int]
    /\ lock \in [Clients -> Callers \cup {Nobody}]
    /\ caller \in [Callers -> CallerType]

\* A thread that sleeps has the lock of its client, and wakes an interval
\* after the last request that was let through.
SleeperHoldsLock ==
    \A t \in Callers : caller[t].at = "sleep" =>
        /\ lock[ClientOf[t]] = t
        /\ caller[t].due = last[ClientOf[t]] + SendInterval

SecInv == SecTypeInv /\ permitted = last /\ SleeperHoldsLock

-----------------------------------------------------------------------------
\* The updates of a thread's record that set a number, under names of their own:
\* the provers read a record of strings and numbers better when it is folded.
Asked(r, p, n, k, w) == [r EXCEPT !.at = p, !.calls = n, !.attempt = k, !.wants = w]

Timed(r, p, n) == [r EXCEPT !.at = p, !.due = n]

Retried(r, p, n) == [r EXCEPT !.at = p, !.attempt = n]

\* What an update of a thread's record keeps and what it sets.
LEMMA AskedType ==
    ASSUME NEW r \in CallerType, NEW p \in Places, NEW w \in Errands, NEW n \in Int, NEW k \in Int
    PROVE  /\ Asked(r, p, n, k, w) \in CallerType
           /\ Asked(r, p, n, k, w).at = p
BY DEF CallerType, Asked

LEMMA TimedType ==
    ASSUME NEW r \in CallerType, NEW p \in Places, NEW n \in Int
    PROVE  /\ Timed(r, p, n) \in CallerType
           /\ Timed(r, p, n).at = p
           /\ Timed(r, p, n).due = n
BY DEF CallerType, Timed

LEMMA ToLimit ==
    ASSUME NEW r \in CallerType, NEW w \in Errands, NEW n \in Int
    PROVE  Asked(r, "limit", n, 1, w) \in CallerType /\ Asked(r, "limit", n, 1, w).at = "limit"
<1>1. "limit" \in Places /\ 1 \in Int
  BY DEF Places
<1>. QED
  BY <1>1, AskedType

LEMMA ToSleep ==
    ASSUME NEW r \in CallerType, NEW n \in Int
    PROVE  /\ Timed(r, "sleep", n) \in CallerType
           /\ Timed(r, "sleep", n).at = "sleep"
           /\ Timed(r, "sleep", n).due = n
<1>1. "sleep" \in Places
  BY DEF Places
<1>. QED
  BY <1>1, TimedType

LEMMA ToBackOff ==
    ASSUME NEW r \in CallerType, NEW n \in Int
    PROVE  Timed(r, "backoff", n) \in CallerType /\ Timed(r, "backoff", n).at = "backoff"
<1>1. "backoff" \in Places
  BY DEF Places
<1>. QED
  BY <1>1, TimedType

LEMMA RetriedType ==
    ASSUME NEW r \in CallerType, NEW p \in Places, NEW n \in Int
    PROVE  /\ Retried(r, p, n) \in CallerType
           /\ Retried(r, p, n).at = p
BY DEF CallerType, Retried

LEMMA AnsweredType ==
    ASSUME NEW r \in CallerType, NEW p \in Places, NEW q \in Results
    PROVE  /\ [r EXCEPT !.at = p, !.result = q] \in CallerType
           /\ [r EXCEPT !.at = p, !.result = q].at = p
BY DEF CallerType

LEMMA PlacedType ==
    ASSUME NEW r \in CallerType, NEW p \in Places
    PROVE  /\ [r EXCEPT !.at = p] \in CallerType
           /\ [r EXCEPT !.at = p].at = p
BY DEF CallerType

LEMMA NumbersType == ASSUME NEW r \in CallerType
                 PROVE  r.calls \in Int /\ r.attempt \in Int /\ r.due \in Int
BY DEF CallerType

-----------------------------------------------------------------------------
LEMMA InitSec == SecInit => SecInv
<1>. SUFFICES ASSUME SecInit PROVE SecInv
  OBVIOUS
<1>1. Resting \in CallerType /\ Resting.at = "rest"
  BY DEF Resting, CallerType, Places, Errands, Results
<1>. QED
  BY <1>1, SecAssumption DEF SecInit, SecInv, SecTypeInv, SleeperHoldsLock

LEMMA BackoffType == ASSUME NEW a \in Int PROVE Backoff(a) \in Int
BY SecAssumption DEF Backoff

\* A thread that goes anywhere but to sleep leaves the sleepers' locks alone,
\* unless it held one.
LEMMA Moves ==
    ASSUME SecInv, NEW t \in Callers, NEW r \in CallerType, r.at # "sleep",
           caller' = [caller EXCEPT ![t] = r], UNCHANGED <<clock, last, lock, permitted>>
    PROVE  SecInv'
<1>1. SecTypeInv' /\ (permitted = last)'
  BY DEF SecInv, SecTypeInv
<1>2. SleeperHoldsLock'
  BY DEF SecInv, SecTypeInv, SleeperHoldsLock
<1>. QED
  BY <1>1, <1>2 DEF SecInv

LEMMA StepSec == SecInv /\ [SecNext]_secVars => SecInv'
<1>. SUFFICES ASSUME SecInv, [SecNext]_secVars PROVE SecInv'
  OBVIOUS
<1>. USE SecAssumption
<1>t. ASSUME NEW t \in Callers
      PROVE  /\ caller[t] \in CallerType /\ ClientOf[t] \in Clients
             /\ last[ClientOf[t]] + SendInterval \in Int
  BY DEF SecInv, SecTypeInv
<1>p. /\ "rest" \in Places /\ "limit" \in Places /\ "sleep" \in Places
      /\ "send" \in Places /\ "backoff" \in Places
      /\ "error" \in Results /\ "retryable error" \in Results /\ "ok" \in Results
  BY DEF Places, Results
<1>1. CASE SecTick
  BY <1>1 DEF SecTick, SecInv, SecTypeInv, SleeperHoldsLock
<1>2. ASSUME NEW t \in Callers, Call(t) PROVE SecInv'
  <2>1. PICK w \in Errands :
          caller' = [caller EXCEPT ![t].at = "limit", ![t].calls = @ + 1, ![t].attempt = 1, ![t].wants = w]
    BY <1>2 DEF Call, Errands
  <2>. DEFINE n == caller[t].calls + 1
              r == Asked(caller[t], "limit", n, 1, w)
  <2>2. caller' = [caller EXCEPT ![t] = r]
    BY <2>1 DEF Asked
  <2>3. n \in Int /\ 1 \in Int
    BY <1>t, NumbersType
  <2>4. UNCHANGED <<clock, last, lock, permitted>>
    BY <1>2 DEF Call
  <2>. HIDE DEF n
  <2>5. r \in CallerType /\ r.at = "limit"
    BY <1>t, <2>3, ToLimit
  <2>. QED
    BY <2>2, <2>4, <2>5, Moves
<1>3. ASSUME NEW t \in Callers, TakeTurn(t) PROVE SecInv'
  <2>. DEFINE c == ClientOf[t]
              n == last[c] + SendInterval
              r == Timed(caller[t], "sleep", n)
  <2>1. caller' = [caller EXCEPT ![t] = r]
    BY <1>3 DEF TakeTurn, Timed
  <2>2. r \in CallerType /\ r.at = "sleep" /\ r.due = n
    <3>1. n \in Int
      BY <1>t
    <3>. HIDE DEF n
    <3>. QED
      BY <1>t, <3>1, ToSleep
  <2>3. /\ lock[c] = Nobody /\ lock' = [lock EXCEPT ![c] = t]
        /\ UNCHANGED <<clock, last, permitted>>
    BY <1>3 DEF TakeTurn
  <2>4. SecTypeInv' /\ (permitted = last)'
    BY <2>1, <2>2, <2>3, <1>t DEF SecInv, SecTypeInv
  <2>5. ASSUME NEW u \in Callers, caller'[u].at = "sleep"
        PROVE  lock'[ClientOf[u]] = u /\ caller'[u].due = last'[ClientOf[u]] + SendInterval
    <3>1. CASE u = t
      BY <3>1, <2>1, <2>2, <2>3, <1>t DEF SecInv, SecTypeInv
    <3>2. CASE u # t
      <4>1. caller'[u] = caller[u]
        BY <3>2, <2>1 DEF SecInv, SecTypeInv
      <4>2. lock[ClientOf[u]] = u /\ caller[u].due = last[ClientOf[u]] + SendInterval
        BY <4>1, <2>5 DEF SecInv, SleeperHoldsLock
      <4>3. ClientOf[u] # c
        BY <4>2, <2>3
      <4>. QED
        BY <4>1, <4>2, <4>3, <2>3, <1>t DEF SecInv, SecTypeInv
    <3>. QED
      BY <3>1, <3>2
  <2>. QED
    BY <2>4, <2>5 DEF SecInv, SleeperHoldsLock
<1>4. ASSUME NEW t \in Callers, Permit(t) PROVE SecInv'
  <2>. DEFINE c == ClientOf[t]
              r == [caller[t] EXCEPT !.at = "send"]
  <2>1. caller' = [caller EXCEPT ![t] = r]
    BY <1>4 DEF Permit
  <2>2. r \in CallerType /\ r.at = "send"
    BY <1>t, <1>p, PlacedType
  <2>3. /\ last' = [last EXCEPT ![c] = clock] /\ permitted' = [permitted EXCEPT ![c] = clock]
        /\ lock' = [lock EXCEPT ![c] = Nobody] /\ caller[t].at = "sleep" /\ clock' = clock
    BY <1>4 DEF Permit
  <2>4. SecTypeInv' /\ (permitted = last)'
    BY <2>1, <2>2, <2>3, <1>t DEF SecInv, SecTypeInv
  <2>5. ASSUME NEW u \in Callers, caller'[u].at = "sleep"
        PROVE  lock'[ClientOf[u]] = u /\ caller'[u].due = last'[ClientOf[u]] + SendInterval
    <3>1. u # t /\ caller'[u] = caller[u]
      BY <2>1, <2>2, <2>5 DEF SecInv, SecTypeInv
    <3>2. /\ lock[ClientOf[u]] = u /\ lock[c] = t
          /\ caller[u].due = last[ClientOf[u]] + SendInterval
      BY <3>1, <2>3, <2>5 DEF SecInv, SleeperHoldsLock
    <3>3. ClientOf[u] # c
      BY <3>1, <3>2
    <3>. QED
      BY <3>1, <3>2, <3>3, <2>3, <1>t DEF SecInv, SecTypeInv
  <2>. QED
    BY <2>4, <2>5 DEF SecInv, SleeperHoldsLock
<1>5. ASSUME NEW t \in Callers, BackOff(t) PROVE SecInv'
  <2>. DEFINE n == caller[t].attempt + 1
              r == Retried(caller[t], "limit", n)
  <2>1. caller' = [caller EXCEPT ![t] = r] /\ UNCHANGED <<clock, last, lock, permitted>>
    BY <1>5 DEF BackOff, Retried
  <2>2. n \in Int
    BY <1>t, NumbersType
  <2>3. r \in CallerType /\ r.at = "limit"
    BY <1>t, <1>p, <2>2, RetriedType
  <2>. QED
    BY <2>1, <2>3, Moves
<1>6. ASSUME NEW t \in Callers, AnswerRetryable(t) PROVE SecInv'
  <2>1. UNCHANGED <<clock, last, lock, permitted>>
    BY <1>6 DEF AnswerRetryable
  <2>2. CASE caller[t].attempt < Attempts
    <3>. DEFINE n == clock + Backoff(caller[t].attempt)
                r == Timed(caller[t], "backoff", n)
    <3>1. caller' = [caller EXCEPT ![t] = r]
      BY <1>6, <2>2 DEF AnswerRetryable, Timed
    <3>2. n \in Int
      BY <1>t, NumbersType, BackoffType DEF SecInv, SecTypeInv
    <3>. HIDE DEF n
    <3>3. r \in CallerType /\ r.at = "backoff"
      BY <1>t, <3>2, ToBackOff
    <3>. QED
      BY <2>1, <3>1, <3>3, Moves
  <2>3. CASE ~(caller[t].attempt < Attempts)
    <3>. DEFINE r == [caller[t] EXCEPT !.at = "rest", !.result = "retryable error"]
    <3>1. caller' = [caller EXCEPT ![t] = r]
      BY <1>6, <2>3 DEF AnswerRetryable
    <3>2. r \in CallerType /\ r.at = "rest"
      BY <1>t, <1>p, AnsweredType
    <3>. QED
      BY <2>1, <3>1, <3>2, Moves
  <2>. QED
    BY <2>2, <2>3
<1>7. ASSUME NEW t \in Callers, AnswerUseless(t) PROVE SecInv'
  <2>. DEFINE r == [caller[t] EXCEPT !.at = "rest", !.result = "error"]
  <2>1. caller' = [caller EXCEPT ![t] = r] /\ UNCHANGED <<clock, last, lock, permitted>>
    BY <1>7 DEF AnswerUseless
  <2>2. r \in CallerType /\ r.at = "rest"
    BY <1>t, <1>p, AnsweredType
  <2>. QED
    BY <2>1, <2>2, Moves
<1>8. ASSUME NEW t \in Callers, AnswerUsable(t) PROVE SecInv'
  <2>. DEFINE r == [caller[t] EXCEPT !.at = "rest", !.result = "ok"]
  <2>1. caller' = [caller EXCEPT ![t] = r] /\ UNCHANGED <<clock, last, lock, permitted>>
    BY <1>8 DEF AnswerUsable
  <2>2. r \in CallerType /\ r.at = "rest"
    BY <1>t, <1>p, AnsweredType
  <2>. QED
    BY <2>1, <2>2, Moves
<1>9. CASE UNCHANGED secVars
  BY <1>9 DEF secVars, SecInv, SecTypeInv, SleeperHoldsLock
<1>. QED
  BY <1>1, <1>2, <1>3, <1>4, <1>5, <1>6, <1>7, <1>8, <1>9 DEF SecNext

\* Only Permit takes a thread from its sleep to its request.
LEMMA SpacedStep ==
    ASSUME SecInv, [SecNext]_secVars, NEW t \in Callers, caller[t].at = "sleep", caller'[t].at = "send"
    PROVE  clock - permitted[ClientOf[t]] >= SendInterval
<1>. USE SecAssumption
<1>t. \A u \in Callers : caller[u] \in CallerType /\ caller \in [Callers -> CallerType]
  BY DEF SecInv, SecTypeInv
<1>1. \E u \in Callers : caller[u].at = "sleep" /\ Permit(u) /\ u = t
  <2>1. CASE SecTick \/ UNCHANGED secVars
    BY <2>1 DEF SecTick, secVars
  <2>2. ASSUME NEW u \in Callers,
               \/ Call(u) \/ TakeTurn(u) \/ BackOff(u)
               \/ AnswerRetryable(u) \/ AnswerUseless(u) \/ AnswerUsable(u)
        PROVE  FALSE
    <3>1. caller[u].at # "sleep"
      BY <2>2 DEF Call, TakeTurn, BackOff, AnswerRetryable, AnswerUseless, AnswerUsable
    <3>2. \A v \in Callers \ {u} : caller'[v] = caller[v]
      BY <2>2, <1>t DEF Call, TakeTurn, BackOff, AnswerRetryable, AnswerUseless, AnswerUsable
    <3>. QED
      BY <3>1, <3>2
  <2>3. ASSUME NEW u \in Callers, Permit(u) PROVE u = t /\ caller[u].at = "sleep"
    BY <2>3, <1>t DEF Permit
  <2>. QED
    BY <2>1, <2>2, <2>3 DEF SecNext
<1>2. clock >= caller[t].due
  BY <1>1 DEF Permit
<1>3. /\ caller[t].due = last[ClientOf[t]] + SendInterval /\ permitted = last
      /\ clock \in Int /\ last[ClientOf[t]] \in Int
  BY DEF SecInv, SecTypeInv, SleeperHoldsLock
<1>. QED
  BY <1>2, <1>3

-----------------------------------------------------------------------------
\* Two requests of one client are at least an interval apart, whichever and
\* however many threads share it, retries included (sec/rate_limit.py 10-24).
THEOREM ClientKeepsInterval == SecSpec => RequestsSpaced
<1>1. SecInv /\ [SecNext]_secVars =>
        [\A t \in Callers : caller[t].at = "sleep" /\ caller'[t].at = "send" =>
            clock - permitted[ClientOf[t]] >= SendInterval]_secVars
  BY SpacedStep
<1>. QED
  BY InitSec, StepSec, <1>1, PTL DEF SecSpec, RequestsSpaced

=============================================================================
