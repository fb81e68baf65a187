------------------------- MODULE StaleReportsProofs -------------------------
(***************************************************************************)
(* The storage gate of refresh_stale_core_reports keeps both budgets, and  *)
(* a run without errors refreshes what it was asked to, for any companies, *)
(* filings, threads, budgets and faults.                                   *)
(***************************************************************************)
EXTENDS StaleReports, FiniteSetTheorems, WellFoundedInduction, TLAPS

-----------------------------------------------------------------------------
(* Type correctness *)

LEMMA CardFilingType ==
    ASSUME NEW c
    PROVE  CardFiling(c) \subseteq filed
BY DEF CardFiling

\* Max of two numbers, one of them 0.
LEMMA MaxWithZero ==
    ASSUME NEW n \in Int
    PROVE  Max({0, n}) = IF n >= 0 THEN n ELSE 0
<1>1. CASE n >= 0
  <2>1. n \in {0, n} /\ \A y \in {0, n} : n >= y
    BY <1>1
  <2>2. \A x \in {0, n} : (\A y \in {0, n} : x >= y) => x = n
    BY <1>1
  <2>. QED
    BY <1>1, <2>1, <2>2 DEF Max
<1>2. CASE ~(n >= 0)
  <2>1. 0 \in {0, n} /\ \A y \in {0, n} : 0 >= y
    BY <1>2
  <2>2. \A x \in {0, n} : (\A y \in {0, n} : x >= y) => x = 0
    BY <1>2
  <2>. QED
    BY <1>2, <2>1, <2>2 DEF Max
<1>. QED
  BY <1>1, <1>2

Jobs == [step: Steps, company: Companies \cup {0}, grown: 0..Reserve]

LEMMA IdleType == Idle \in Jobs
BY StaleAssumption DEF Idle, Jobs, Steps

LEMMA ReleaseType ==
    ASSUME TypeOK, Release
    PROVE  reserved' \in Nat
<1>1. reserved \in Nat /\ reserved - Reserve \in Int
  BY StaleAssumption DEF TypeOK
<1>. QED
  BY <1>1, MaxWithZero DEF Release

LEMMA CommitType ==
    ASSUME TypeOK, NEW w \in Workers, NEW n \in 0..Reserve,
           NEW next \in Steps, Commit(w, n, next)
    PROVE  size' \in Nat /\ worker' \in [Workers -> Jobs]
<1>1. worker[w].grown + n \in 0..Reserve
  BY StaleAssumption DEF TypeOK, Commit
<1>2. worker[w] \in Jobs
  BY DEF TypeOK, Jobs
<1>3. [worker[w] EXCEPT !.step = next, !.grown = @ + n] \in Jobs
  BY <1>1, <1>2 DEF Jobs
<1>. QED
  BY <1>1, <1>3, StaleAssumption DEF TypeOK, Commit, Jobs

LEMMA TypeStep == TypeOK /\ [Next]_vars => TypeOK'
<1>. SUFFICES ASSUME TypeOK, [Next]_vars PROVE TypeOK'
  OBVIOUS
<1>. USE IdleType
<1>0. worker \in [Workers -> Jobs] /\ Reserve \in Nat
  BY StaleAssumption DEF TypeOK, Jobs
<1>1. ASSUME NEW f \in Filings, Import(f) PROVE TypeOK'
  BY <1>1 DEF TypeOK, Import, gate
<1>2. CASE StartRun
  <2>1. DOMAIN StaleJobs \subseteq Companies
    BY StaleAssumption DEF StaleJobs
  <2>2. worker' \in [Workers -> Jobs]
    BY <1>0, <1>2 DEF StartRun
  <2>3. start' \in Nat /\ reserved' \in Nat /\ size' \in Nat
    BY <1>2 DEF StartRun, TypeOK
  <2>. QED
    BY <1>2, <2>1, <2>2, <2>3 DEF TypeOK, StartRun, Jobs
<1>3. CASE Finish
  <2>1. worker' \in [Workers -> Jobs] /\ DOMAIN queue' \subseteq Companies
    BY <1>3 DEF Finish, NoJobs
  <2>. QED
    BY <1>3, <2>1 DEF TypeOK, Finish, gate, Jobs
<1>4. CASE Crash
  <2>1. worker' \in [Workers -> Jobs] /\ DOMAIN queue' \subseteq Companies
    BY <1>4 DEF Crash, NoJobs
  <2>2. faults' \in 0..MaxFaults
    BY <1>4, StaleAssumption DEF Crash, Fault, TypeOK
  <2>3. {size', start', reserved'} \subseteq Nat
    BY <1>4 DEF Crash, TypeOK
  <2>. QED
    BY <1>4, <2>1, <2>2, <2>3 DEF TypeOK, Crash, Jobs
<1>5. ASSUME NEW w \in Workers, NEW c \in Companies, Take(w, c) \/ DiesClaimed(w, c) PROVE TypeOK'
  <2>0. PICK next \in {"facts", "leaked"} : PopJob(w, c, next)
    BY <1>5 DEF Take, DiesClaimed
  <2>1. [step |-> next, company |-> c, grown |-> 0] \in Jobs
    BY <1>0 DEF Jobs, Steps
  <2>2. worker' \in [Workers -> Jobs]
    BY <1>0, <2>0, <2>1 DEF PopJob
  <2>3. DOMAIN queue' \subseteq Companies
    BY <2>0 DEF PopJob, TypeOK
  <2>4. reserved' \in Nat /\ limited' = limited
    BY <2>0, StaleAssumption DEF PopJob, Claim, TypeOK
  <2>5. faults' \in 0..MaxFaults
    BY <1>5, StaleAssumption DEF Take, DiesClaimed, Fault, TypeOK
  <2>. QED
    BY <2>0, <2>2, <2>3, <2>4, <2>5 DEF TypeOK, PopJob, others, Jobs
<1>6. ASSUME NEW w \in Workers, Leave(w) PROVE TypeOK'
  <2>1. worker' \in [Workers -> Jobs]
    BY <1>0, <1>6 DEF Leave, Jobs, Steps
  <2>2. reserved' = reserved /\ limited' \in BOOLEAN
    BY <1>6 DEF Leave, ClaimRefused, TypeOK
  <2>. QED
    BY <1>6, <2>1, <2>2 DEF TypeOK, Leave, others, Jobs
<1>7. ASSUME NEW w \in Workers, NoFacts(w) PROVE TypeOK'
  <2>1. worker' \in [Workers -> Jobs]
    BY <1>0, <1>7 DEF NoFacts, Jobs, Steps
  <2>. QED
    BY <1>7, <2>1 DEF TypeOK, NoFacts, others, Jobs
<1>8. ASSUME NEW w \in Workers, NEW n \in 0..Reserve, NEW next \in Steps,
             Commit(w, n, next), cards' \subseteq filed
      PROVE  TypeOK'
  BY <1>8, CommitType DEF TypeOK, Commit, others, Jobs
<1>9. ASSUME NEW w \in Workers, NEW n \in 0..Reserve, StageFails(w, n) \/ RollbackFails(w, n)
      PROVE  TypeOK'
  <2>0. LeaveBehind(w, n) /\ errors' \in BOOLEAN
    BY <1>9 DEF StageFails, RollbackFails, TypeOK
  <2>1. worker[w].grown + n \in 0..Reserve /\ size + n \in Nat
    BY <2>0, StaleAssumption DEF LeaveBehind, TypeOK
  <2>2. worker' \in [Workers -> Jobs]
    BY <1>0, <1>9, <2>1 DEF StageFails, RollbackFails, Jobs, Steps
  <2>. QED
    BY <2>0, <2>1, <2>2, StaleAssumption
    DEF TypeOK, LeaveBehind, Fault, others, Jobs
<1>10. ASSUME NEW w \in Workers, EndJob(w) PROVE TypeOK'
  <2>1. worker' \in [Workers -> Jobs]
    BY <1>0, <1>10 DEF EndJob
  <2>2. reserved' \in Nat
    BY <1>10, ReleaseType DEF EndJob
  <2>. QED
    BY <1>10, <2>1, <2>2 DEF TypeOK, EndJob, others, Jobs
<1>11. CASE UNCHANGED vars
  BY <1>11 DEF TypeOK, vars, gate
<1>13. ASSUME NEW w \in Workers, Dies(w) \/ CloseFails(w) PROVE TypeOK'
  <2>1. worker' \in [Workers -> Jobs]
    BY <1>0, <1>13 DEF Dies, CloseFails, Jobs, Steps
  <2>2. faults' \in 0..MaxFaults
    BY <1>13, StaleAssumption DEF Dies, CloseFails, Fault, TypeOK
  <2>3. /\ filed' = filed /\ start' = start /\ running' = running /\ asked' = asked
        /\ cards' = cards /\ size' = size /\ queue' = queue /\ reserved' = reserved
        /\ limited' = limited /\ errors' = errors
    <3>1. CASE Dies(w)
      BY <3>1 DEF Dies, others
    <3>2. CASE CloseFails(w)
      BY <3>2 DEF CloseFails, others
    <3>. QED
      BY <1>13, <3>1, <3>2
  <2>. QED
    BY <2>1, <2>2, <2>3 DEF TypeOK, Jobs
<1>14. ASSUME NEW w \in Workers, Unwind(w) PROVE TypeOK'
  <2>0. 0 \in 0..Reserve
    BY <1>0
  <2>1. worker' \in [Workers -> Jobs]
    BY <1>0, <1>14, <2>0 DEF Unwind, Jobs, Steps
  <2>2. reserved' \in Nat
    BY <1>14, ReleaseType DEF Unwind
  <2>. QED
    BY <1>14, <2>1, <2>2 DEF TypeOK, Unwind, others, Jobs
<1>12. ASSUME NEW w \in Workers, NEW n \in 0..Reserve,
              \/ RefreshFacts(w, n) \/ Normalize(w, n)
              \/ BuildStatements(w, n) \/ BuildReport(w, n)
       PROVE  TypeOK'
  <2>1. PICK next \in Steps : Commit(w, n, next)
    BY <1>12 DEF RefreshFacts, Normalize, BuildStatements, BuildReport, Steps
  <2>2. cards' \subseteq filed
    BY <1>12, CardFilingType
    DEF RefreshFacts, Normalize, BuildStatements, BuildReport, TypeOK
  <2>. QED
    BY <1>8, <2>1, <2>2
<1>. QED
  BY <1>1, <1>2, <1>3, <1>4, <1>5, <1>6, <1>7, <1>9, <1>10, <1>11, <1>12, <1>13, <1>14
  DEF Next, WorkerProgress, ThreadDies

LEMMA TypeInit == Init => TypeOK
<1>. SUFFICES ASSUME Init PROVE TypeOK
  OBVIOUS
<1>1. worker \in [Workers -> Jobs] /\ faults \in 0..MaxFaults
  BY IdleType, StaleAssumption DEF Init
<1>2. DOMAIN queue \subseteq Companies /\ DOMAIN asked \subseteq Companies
  BY DEF Init, NoJobs
<1>3. {size, start, reserved} \subseteq Nat
  BY DEF Init
<1>4. filed \subseteq Filings /\ cards \subseteq filed
  BY DEF Init
<1>5. running \in BOOLEAN /\ limited \in BOOLEAN /\ errors \in BOOLEAN
  BY DEF Init
<1>. QED
  BY <1>1, <1>2, <1>3, <1>4, <1>5 DEF TypeOK, Jobs

\* Every variable of the refresh keeps its type.
THEOREM TypeCorrect == Spec => []TypeOK
BY TypeInit, TypeStep, PTL DEF Spec

-----------------------------------------------------------------------------
(* The reserves match the jobs *)

\* Between two runs every thread is idle.
Resting == ~running => worker = [w \in Workers |-> Idle]

LEMMA BusyFinite ==
    ASSUME NEW S \in SUBSET Workers
    PROVE  IsFiniteSet(S) /\ Cardinality(S) \in Nat
BY StaleAssumption, FS_Subset, FS_CardinalityType

\* A reserve more for an element more.
LEMMA ReserveOfOneMore ==
    ASSUME NEW S \in SUBSET Workers, NEW w \in Workers \ S
    PROVE  Reserve * Cardinality(S \cup {w}) = Reserve * Cardinality(S) + Reserve
<1>1. Cardinality(S) \in Nat /\ Cardinality(S \cup {w}) = Cardinality(S) + 1
  BY BusyFinite, FS_AddElement
<1>2. \A k \in Nat : Reserve * (k + 1) = Reserve * k + Reserve
  BY StaleAssumption
<1>. QED
  BY <1>1, <1>2

\* A thread that keeps a job, and one that takes or gives one up.
LEMMA BusySame ==
    ASSUME TypeOK, NEW w \in Workers, w \in Busy, NEW j,
           worker' = [worker EXCEPT ![w] = j], j.step \notin {"idle", "gone", "died"}
    PROVE  Busy' = Busy
BY DEF Busy, TypeOK

LEMMA BusyMore ==
    ASSUME TypeOK, NEW w \in Workers, w \notin Busy, NEW j,
           worker' = [worker EXCEPT ![w] = j], j.step \notin {"idle", "gone", "died"}
    PROVE  Busy' = Busy \cup {w}
BY DEF Busy, TypeOK

LEMMA BusyLess ==
    ASSUME TypeOK, NEW w \in Workers, NEW j,
           worker' = [worker EXCEPT ![w] = j], j.step \in {"idle", "gone", "died"}
    PROVE  Busy' = Busy \ {w}
BY DEF Busy, TypeOK

LEMMA NobodyBusy ==
    ASSUME worker = [w \in Workers |-> Idle]
    PROVE  Busy = {}
BY DEF Busy, Idle

\* A step of a thread that has a job and keeps it.
KeepsJob(w) ==
    /\ w \in Busy
    /\ \E j \in Jobs : /\ worker' = [worker EXCEPT ![w] = j]
                       /\ j.step \notin {"idle", "gone", "died"}
                       /\ size' = size + (j.grown - worker[w].grown)
                       /\ j.grown >= worker[w].grown
    /\ UNCHANGED <<running, start, reserved>>

LEMMA CommitKeepsJob ==
    ASSUME TypeOK, NEW w \in Workers, NEW n \in 0..Reserve,
           NEW next \in Steps \ {"idle", "gone", "died"}, w \in Busy,
           Commit(w, n, next)
    PROVE  KeepsJob(w)
<1>. DEFINE j == [worker[w] EXCEPT !.step = next, !.grown = @ + n]
<1>1. worker[w] \in Jobs /\ worker[w].grown + n \in 0..Reserve
  BY StaleAssumption DEF TypeOK, Jobs, Commit
<1>2. j \in Jobs /\ j.step = next /\ j.grown = worker[w].grown + n
  BY <1>1 DEF Jobs
<1>3. worker' = [worker EXCEPT ![w] = j] /\ size' = size + n
  BY DEF Commit
<1>4. size' = size + (j.grown - worker[w].grown) /\ j.grown >= worker[w].grown
  BY <1>1, <1>2, <1>3, StaleAssumption DEF Jobs, TypeOK
<1>. HIDE DEF j
<1>. QED
  BY <1>2, <1>3, <1>4 DEF KeepsJob, Commit, others

LEMMA StageKeepsJob ==
    ASSUME TypeOK, NEW w \in Workers, NEW n \in 0..Reserve,
           \/ RefreshFacts(w, n) \/ Normalize(w, n)
           \/ BuildStatements(w, n) \/ BuildReport(w, n)
           \/ NoFacts(w) \/ StageFails(w, n) \/ RollbackFails(w, n)
           \/ CloseFails(w)
    PROVE  KeepsJob(w)
<1>1. w \in Busy
  BY DEF Busy, RefreshFacts, Normalize, BuildStatements, BuildReport, NoFacts,
         StageFails, RollbackFails, CloseFails, LeaveBehind, At
<1>2. CASE \/ RefreshFacts(w, n) \/ Normalize(w, n)
           \/ BuildStatements(w, n) \/ BuildReport(w, n)
  <2>1. PICK next \in Steps \ {"idle", "gone", "died"} : Commit(w, n, next)
    BY <1>2 DEF RefreshFacts, Normalize, BuildStatements, BuildReport, Steps
  <2>. QED
    BY <1>1, <2>1, CommitKeepsJob
<1>3. CASE NoFacts(w)
  <2>. DEFINE j == [worker[w] EXCEPT !.step = "normalize"]
  <2>1. worker[w] \in Jobs
    BY DEF TypeOK, Jobs
  <2>2. j \in Jobs /\ j.step = "normalize" /\ j.grown = worker[w].grown
    BY <2>1 DEF Jobs, Steps
  <2>3. worker' = [worker EXCEPT ![w] = j] /\ size' = size
    BY <1>3 DEF NoFacts
  <2>4. size' = size + (j.grown - worker[w].grown) /\ j.grown >= worker[w].grown
    BY <2>1, <2>2, <2>3, StaleAssumption DEF Jobs, TypeOK
  <2>. HIDE DEF j
  <2>. QED
    BY <1>1, <1>3, <2>2, <2>3, <2>4 DEF KeepsJob, NoFacts, others
<1>4. CASE StageFails(w, n) \/ RollbackFails(w, n)
  <2>0. PICK next \in {"release", "unwind"} :
           worker' = [worker EXCEPT ![w].step = next, ![w].grown = @ + n]
    BY <1>4 DEF StageFails, RollbackFails
  <2>. DEFINE j == [worker[w] EXCEPT !.step = next, !.grown = @ + n]
  <2>1. LeaveBehind(w, n)
    BY <1>4 DEF StageFails, RollbackFails
  <2>2. worker[w] \in Jobs /\ worker[w].grown + n \in 0..Reserve
    BY <2>1, StaleAssumption DEF TypeOK, Jobs, LeaveBehind
  <2>3. j \in Jobs /\ j.step = next /\ j.grown = worker[w].grown + n
    BY <2>2 DEF Jobs, Steps
  <2>4. worker' = [worker EXCEPT ![w] = j] /\ size' = size + n
    BY <2>0, <2>1 DEF LeaveBehind
  <2>5. size' = size + (j.grown - worker[w].grown) /\ j.grown >= worker[w].grown
    BY <2>2, <2>3, <2>4, StaleAssumption DEF Jobs, TypeOK
  <2>. HIDE DEF j
  <2>. QED
    BY <1>1, <2>1, <2>3, <2>4, <2>5 DEF KeepsJob, LeaveBehind, others
<1>5. CASE CloseFails(w)
  <2>. DEFINE j == [worker[w] EXCEPT !.step = "leaked"]
  <2>1. worker[w] \in Jobs
    BY DEF TypeOK, Jobs
  <2>2. j \in Jobs /\ j.step = "leaked" /\ j.grown = worker[w].grown
    BY <2>1 DEF Jobs, Steps
  <2>3. worker' = [worker EXCEPT ![w] = j] /\ size' = size
    BY <1>5 DEF CloseFails
  <2>4. size' = size + (j.grown - worker[w].grown) /\ j.grown >= worker[w].grown
    BY <2>1, <2>2, <2>3, StaleAssumption DEF Jobs, TypeOK
  <2>. HIDE DEF j
  <2>. QED
    BY <1>1, <1>5, <2>2, <2>3, <2>4 DEF KeepsJob, CloseFails, others
<1>. QED
  BY <1>2, <1>3, <1>4, <1>5

\* A thread is admitted; one without a job leaves, or dies; one gives its
\* reserve back.
GetsJob(w) ==
    \E c \in Companies, next \in {"facts", "leaked"} : PopJob(w, c, next)

Parts(w) ==
    /\ At(w, "idle")
    /\ \E next \in {"gone", "died"} : worker' = [worker EXCEPT ![w].step = next]
    /\ UNCHANGED <<size, start, running, reserved>>

Releases(w) ==
    /\ running
    /\ w \in Busy
    /\ Release
    /\ \E j \in Jobs : /\ worker' = [worker EXCEPT ![w] = j]
                       /\ j.step \in {"idle", "died"}
                       /\ j.grown = 0
    /\ UNCHANGED <<size, start, running>>

LEMMA ReleasingSteps ==
    ASSUME TypeOK, NEW w \in Workers, EndJob(w) \/ Unwind(w)
    PROVE  Releases(w)
<1>1. w \in Busy
  BY DEF Busy, EndJob, Unwind, At
<1>2. CASE EndJob(w)
  BY <1>1, <1>2, IdleType DEF EndJob, At, others, Releases, Idle
<1>3. CASE Unwind(w)
  <2>. DEFINE j == [worker[w] EXCEPT !.step = "died", !.grown = 0]
  <2>1. worker[w] \in Jobs
    BY DEF TypeOK, Jobs
  <2>5. 0 \in 0..Reserve
    BY StaleAssumption
  <2>2. j \in Jobs /\ j.step = "died" /\ j.grown = 0
    BY <2>1, <2>5 DEF Jobs, Steps
  <2>3. worker' = [worker EXCEPT ![w] = j]
    BY <1>3 DEF Unwind
  <2>. HIDE DEF j
  <2>. QED
    BY <1>1, <1>3, <2>2, <2>3 DEF Unwind, At, others, Releases
<1>. QED
  BY <1>2, <1>3

\* The steps there are, as far as the gate is concerned.
LEMMA GateSteps ==
    ASSUME TypeOK, [Next]_vars
    PROVE  \/ UNCHANGED <<size, start, reserved, running, worker>>
           \/ StartRun
           \/ Finish
           \/ Crash
           \/ \E w \in Workers : \/ GetsJob(w)
                                 \/ Parts(w)
                                 \/ KeepsJob(w)
                                 \/ Releases(w)
<1>1. CASE \E f \in Filings : Import(f)
  BY <1>1 DEF Import, gate
<1>2. CASE UNCHANGED vars
  BY <1>2 DEF vars, gate
<1>3. 0 \in 0..Reserve
  BY StaleAssumption
<1>4. ASSUME NEW w \in Workers, NEW c \in Companies, Take(w, c) \/ DiesClaimed(w, c)
      PROVE  GetsJob(w)
  BY <1>4 DEF Take, DiesClaimed, GetsJob
<1>5. ASSUME NEW w \in Workers, Leave(w) \/ Dies(w)
      PROVE  Parts(w)
  BY <1>5 DEF Leave, ClaimRefused, Dies, At, others, Parts
<1>6. ASSUME NEW w \in Workers, WorkerProgress(w)
      PROVE  GetsJob(w) \/ Parts(w) \/ KeepsJob(w) \/ Releases(w)
  BY <1>3, <1>4, <1>5, <1>6, StageKeepsJob, ReleasingSteps DEF WorkerProgress
<1>7. ASSUME NEW w \in Workers, ThreadDies(w)
      PROVE  GetsJob(w) \/ Parts(w) \/ KeepsJob(w)
  BY <1>3, <1>4, <1>5, <1>7, StageKeepsJob DEF ThreadDies
<1>. QED
  BY <1>1, <1>2, <1>6, <1>7, StageKeepsJob DEF Next

LEMMA RestingStep ==
    ASSUME TypeOK, Resting, [Next]_vars
    PROVE  Resting'
<1>1. CASE StartRun \/ Finish \/ Crash
  BY <1>1 DEF StartRun, Finish, Crash, Resting
<1>2. ASSUME NEW w \in Workers,
             GetsJob(w) \/ Parts(w) \/ KeepsJob(w) \/ Releases(w)
      PROVE  Resting'
  <2>1. running
    <3>1. CASE KeepsJob(w)
      BY <3>1 DEF KeepsJob, Resting, Busy, Idle
    <3>2. CASE GetsJob(w) \/ Parts(w) \/ Releases(w)
      BY <3>2 DEF GetsJob, PopJob, Parts, Releases, At
    <3>. QED
      BY <1>2, <3>1, <3>2
  <2>2. running' = running
    <3>1. CASE GetsJob(w)
      BY <3>1 DEF GetsJob, PopJob, others
    <3>2. CASE Parts(w)
      BY <3>2 DEF Parts
    <3>3. CASE KeepsJob(w)
      BY <3>3 DEF KeepsJob
    <3>4. CASE Releases(w)
      BY <3>4 DEF Releases
    <3>. QED
      BY <1>2, <3>1, <3>2, <3>3, <3>4
  <2>. QED
    BY <2>1, <2>2 DEF Resting
<1>. QED
  BY <1>1, <1>2, GateSteps DEF Resting

LEMMA ReserveStep ==
    ASSUME TypeOK, Resting, ReserveMatchesJobs, [Next]_vars
    PROVE  ReserveMatchesJobs'
<1>. SUFFICES ASSUME Enabled, running' PROVE reserved' = Reserve * Cardinality(Busy')
  BY DEF ReserveMatchesJobs, Enabled
<1>. USE DEF ReserveMatchesJobs
<1>1. CASE UNCHANGED <<size, start, reserved, running, worker>>
  BY <1>1 DEF Busy
<1>2. CASE StartRun
  <2>1. Busy' = {}
    BY <1>2, NobodyBusy DEF StartRun, Resting, Busy
  <2>. QED
    BY <1>2, <2>1, FS_EmptySet, StaleAssumption DEF StartRun
<1>3. CASE Finish \/ Crash
  BY <1>3 DEF Finish, Crash
<1>4. ASSUME NEW w \in Workers, GetsJob(w)
      PROVE  reserved' = Reserve * Cardinality(Busy')
  <2>0. PICK c \in Companies, next \in {"facts", "leaked"} : PopJob(w, c, next)
    BY <1>4 DEF GetsJob
  <2>1. w \notin Busy /\ running
    BY <2>0 DEF PopJob, At, Busy
  <2>2. Busy' = Busy \cup {w}
    BY <2>0, <2>1, BusyMore DEF PopJob
  <2>3. reserved' = reserved + Reserve
    BY <2>0 DEF PopJob, Claim
  <2>. QED
    BY <2>1, <2>2, <2>3, ReserveOfOneMore DEF Busy
<1>5. ASSUME NEW w \in Workers, Parts(w)
      PROVE  reserved' = Reserve * Cardinality(Busy')
  <2>1. w \notin Busy /\ running
    BY <1>5 DEF Parts, At, Busy
  <2>2. Busy' = Busy \ {w}
    <3>1. PICK next \in {"gone", "died"} :
             worker' = [worker EXCEPT ![w] = [worker[w] EXCEPT !.step = next]]
      BY <1>5 DEF Parts
    <3>2. [worker[w] EXCEPT !.step = next].step = next
      BY DEF TypeOK
    <3>. QED
      BY <3>1, <3>2, BusyLess
  <2>3. reserved' = reserved
    BY <1>5 DEF Parts
  <2>4. Busy' = Busy
    BY <2>1, <2>2
  <2>. QED
    BY <2>1, <2>3, <2>4
<1>6. ASSUME NEW w \in Workers, KeepsJob(w)
      PROVE  reserved' = Reserve * Cardinality(Busy')
  <2>1. Busy' = Busy
    BY <1>6, BusySame DEF KeepsJob
  <2>. QED
    BY <1>6, <2>1 DEF KeepsJob
<1>7. ASSUME NEW w \in Workers, Releases(w)
      PROVE  reserved' = Reserve * Cardinality(Busy')
  <2>1. w \in Busy /\ running
    BY <1>7 DEF Releases
  <2>2. Busy' = Busy \ {w}
    BY <1>7, BusyLess DEF Releases
  <2>3. Busy \ {w} \in SUBSET Workers /\ w \in Workers \ (Busy \ {w})
        /\ (Busy \ {w}) \cup {w} = Busy
    BY <2>1 DEF Busy
  <2>4. Reserve * Cardinality(Busy) = Reserve * Cardinality(Busy \ {w}) + Reserve
    BY <2>3, ReserveOfOneMore
  <2>5. Reserve * Cardinality(Busy \ {w}) \in Nat /\ Reserve \in Nat
    BY <2>3, BusyFinite, StaleAssumption
  <2>6. reserved - Reserve = Reserve * Cardinality(Busy \ {w})
    BY <2>1, <2>4, <2>5
  <2>7. reserved' = reserved - Reserve
    BY <1>7, <2>5, <2>6, MaxWithZero DEF Releases, Release
  <2>. QED
    BY <2>2, <2>6, <2>7
<1>. QED
  BY <1>1, <1>2, <1>3, <1>4, <1>5, <1>6, <1>7, GateSteps

ReserveInv == TypeOK /\ Resting /\ ReserveMatchesJobs

\* Wherever jobs fail, the gate holds one reserve for each job in progress and
\* for each thread that died with one.
THEOREM NoReserveLeaks == Spec => []ReserveMatchesJobs
<1>1. Init => ReserveInv
  BY TypeInit DEF Init, ReserveInv, Resting, ReserveMatchesJobs
<1>2. ReserveInv /\ [Next]_vars => ReserveInv'
  BY TypeStep, RestingStep, ReserveStep DEF ReserveInv
<1>. QED
  BY <1>1, <1>2, PTL DEF Spec, ReserveInv

-----------------------------------------------------------------------------
(* The budgets hold *)

\* What a job may still add, over sets of threads.  Totals(f, g) says that f
\* maps a set to the sum of Reserve - g[w] over its threads w.  An f is kept,
\* in place of a sum, because a step changes it by one thread's part.
Totals(f, g) ==
    /\ f \in [SUBSET Workers -> Nat]
    /\ \A S \in SUBSET Workers : f[S] <= Reserve * Cardinality(S)
    /\ \A S \in SUBSET Workers : \A w \in Workers \ S :
          f[S \cup {w}] = f[S] + (Reserve - g[w])

Grown == [w \in Workers |-> worker[w].grown]

\* With all that the jobs may still add, the budgets hold.
Headroom ==
    running =>
        \E f : /\ Totals(f, Grown)
               /\ MaxDatabase > 0 => size + f[Busy] <= MaxDatabase
               /\ MaxGrowth > 0 => (size - start) + f[Busy] <= MaxGrowth

\* A thread without a job has added nothing.
IdleIsEmpty == \A w \in Workers \ Busy : worker[w].grown = 0

LEMMA TotalsAtFirst ==
    Totals([S \in SUBSET Workers |-> Reserve * Cardinality(S)],
           [w \in Workers |-> 0])
<1>. DEFINE f == [S \in SUBSET Workers |-> Reserve * Cardinality(S)]
            g == [w \in Workers |-> 0]
<1>1. \A k \in Nat : Reserve * k \in Nat
  BY StaleAssumption
<1>2. f \in [SUBSET Workers -> Nat]
  BY <1>1, BusyFinite
<1>3. \A S \in SUBSET Workers : f[S] <= Reserve * Cardinality(S)
  BY <1>1, BusyFinite
<1>4. ASSUME NEW S \in SUBSET Workers, NEW w \in Workers \ S
      PROVE  f[S \cup {w}] = f[S] + (Reserve - g[w])
  <2>1. f[S \cup {w}] = f[S] + Reserve
    BY ReserveOfOneMore
  <2>. QED
    BY <2>1, StaleAssumption
<1>. HIDE DEF f, g
<1>5. Totals(f, g)
  BY <1>2, <1>3, <1>4 DEF Totals
<1>. QED
  BY <1>5 DEF f, g

LEMMA TotalsChange ==
    ASSUME NEW f, NEW g \in [Workers -> 0..Reserve], Totals(f, g),
           NEW w \in Workers, NEW m \in 0..Reserve
    PROVE  Totals([S \in SUBSET Workers |->
                      IF w \in S THEN f[S] + (g[w] - m) ELSE f[S]],
                  [g EXCEPT ![w] = m])
<1>. DEFINE h == [S \in SUBSET Workers |->
                     IF w \in S THEN f[S] + (g[w] - m) ELSE f[S]]
            k == [g EXCEPT ![w] = m]
<1>0. Reserve \in Nat /\ g[w] \in 0..Reserve
  BY StaleAssumption
<1>1. ASSUME NEW S \in SUBSET Workers, w \in S
      PROVE  /\ h[S] = f[S \ {w}] + (Reserve - m)
             /\ h[S] \in Nat
             /\ h[S] <= Reserve * Cardinality(S)
  <2>. DEFINE T == S \ {w}
  <2>1. T \in SUBSET Workers /\ w \in Workers \ T /\ T \cup {w} = S
    BY <1>1
  <2>. HIDE DEF T
  <2>2. f[S] = f[T] + (Reserve - g[w])
    BY <2>1 DEF Totals
  <2>3. f[T] \in Nat /\ f[S] \in Nat
    BY <2>1 DEF Totals
  <2>4. h[S] = f[S] + (g[w] - m)
    BY <1>1
  <2>5. h[S] = f[T] + (Reserve - m) /\ h[S] \in Nat
    BY <1>0, <2>2, <2>3, <2>4
  <2>6. f[T] <= Reserve * Cardinality(T)
    BY <2>1 DEF Totals
  <2>7. Reserve * Cardinality(S) = Reserve * Cardinality(T) + Reserve
    BY <2>1, ReserveOfOneMore
  <2>8. Reserve * Cardinality(T) \in Nat
    BY <1>0, <2>1, BusyFinite
  <2>9. h[S] <= Reserve * Cardinality(S)
    BY <1>0, <2>3, <2>5, <2>6, <2>7, <2>8
  <2>. QED
    BY <2>5, <2>9 DEF T
<1>2. ASSUME NEW S \in SUBSET Workers, w \notin S
      PROVE  h[S] = f[S]
  BY <1>2
<1>3. h \in [SUBSET Workers -> Nat]
  <2>1. \A S \in SUBSET Workers : h[S] \in Nat
    BY <1>1, <1>2 DEF Totals
  <2>. QED
    BY <2>1
<1>4. \A S \in SUBSET Workers : h[S] <= Reserve * Cardinality(S)
  BY <1>1, <1>2 DEF Totals
<1>5. ASSUME NEW S \in SUBSET Workers, NEW v \in Workers \ S
      PROVE  h[S \cup {v}] = h[S] + (Reserve - k[v])
  <2>1. S \cup {v} \in SUBSET Workers
    OBVIOUS
  <2>2. CASE v = w
    <3>1. (S \cup {v}) \ {w} = S
      BY <2>2
    <3>2. h[S \cup {v}] = f[S] + (Reserve - m)
      BY <1>1, <2>1, <2>2, <3>1
    <3>. QED
      BY <1>2, <2>2, <3>2
  <2>3. CASE v # w /\ w \in S
    <3>1. f[S \cup {v}] = f[S] + (Reserve - g[v])
      BY DEF Totals
    <3>2. h[S \cup {v}] = f[S \cup {v}] + (g[w] - m) /\ h[S] = f[S] + (g[w] - m)
      BY <2>1, <2>3
    <3>3. k[v] = g[v] /\ g[v] \in 0..Reserve /\ f[S] \in Nat
      BY <2>3 DEF Totals
    <3>. QED
      BY <1>0, <3>1, <3>2, <3>3
  <2>4. CASE v # w /\ w \notin S
    <3>1. f[S \cup {v}] = f[S] + (Reserve - g[v])
      BY DEF Totals
    <3>2. h[S \cup {v}] = f[S \cup {v}] /\ h[S] = f[S]
      BY <1>2, <2>1, <2>4
    <3>. QED
      BY <2>4, <3>1, <3>2
  <2>. QED
    BY <2>2, <2>3, <2>4
<1>. HIDE DEF h, k
<1>6. Totals(h, k)
  BY <1>3, <1>4, <1>5 DEF Totals
<1>. QED
  BY <1>6 DEF h, k

LEMMA GrownType ==
    ASSUME TypeOK
    PROVE  Grown \in [Workers -> 0..Reserve]
BY DEF TypeOK, Grown

\* How what a job has added changes with its thread.
LEMMA GrownChange ==
    ASSUME TypeOK, NEW w \in Workers, NEW j,
           worker' = [worker EXCEPT ![w] = j]
    PROVE  Grown' = [Grown EXCEPT ![w] = j.grown]
BY DEF TypeOK, Grown

LEMMA IdleIsEmptyStep ==
    ASSUME TypeOK, IdleIsEmpty, [Next]_vars
    PROVE  IdleIsEmpty'
<1>1. CASE UNCHANGED <<size, start, reserved, running, worker>>
  BY <1>1 DEF IdleIsEmpty, Busy
<1>2. CASE StartRun
  BY <1>2 DEF StartRun, IdleIsEmpty, Busy
<1>3. CASE Finish \/ Crash
  BY <1>3 DEF Finish, Crash, IdleIsEmpty, Busy, Idle
<1>4. ASSUME NEW w \in Workers, GetsJob(w)
      PROVE  IdleIsEmpty'
  BY <1>4 DEF GetsJob, PopJob, At, IdleIsEmpty, Busy, TypeOK
<1>5. ASSUME NEW w \in Workers, Parts(w)
      PROVE  IdleIsEmpty'
  BY <1>5 DEF Parts, At, IdleIsEmpty, Busy, TypeOK
<1>6. ASSUME NEW w \in Workers, KeepsJob(w)
      PROVE  IdleIsEmpty'
  BY <1>6 DEF KeepsJob, IdleIsEmpty, Busy, TypeOK
<1>7. ASSUME NEW w \in Workers, Releases(w)
      PROVE  IdleIsEmpty'
  BY <1>7 DEF Releases, IdleIsEmpty, Busy, TypeOK
<1>. QED
  BY <1>1, <1>2, <1>3, <1>4, <1>5, <1>6, <1>7, GateSteps

\* The claim of a job that was admitted leaves headroom for all of it.
LEMMA HeadroomTake ==
    ASSUME TypeOK, IdleIsEmpty, ReserveMatchesJobs, Headroom,
           NEW w \in Workers, GetsJob(w)
    PROVE  Headroom'
<1>0. PICK c \in Companies, next \in {"facts", "leaked"} : PopJob(w, c, next)
  BY DEF GetsJob
<1>1. running /\ w \notin Busy /\ Busy \in SUBSET Workers
  BY <1>0 DEF PopJob, At, Busy
<1>2. PICK f : Totals(f, Grown)
  BY <1>1 DEF Headroom
<1>3. Busy' = Busy \cup {w}
  BY <1>0, <1>1, BusyMore DEF PopJob
<1>4. Grown' = Grown
  <2>1. Grown' = [Grown EXCEPT ![w] = 0]
    BY <1>0 DEF PopJob, Grown, TypeOK
  <2>2. Grown[w] = 0
    BY <1>1 DEF Grown, IdleIsEmpty
  <2>. QED
    BY <2>1, <2>2, GrownType
<1>5. f[Busy'] <= Reserve * Cardinality(Busy) + Reserve /\ f[Busy'] \in Nat
  <2>1. Busy \cup {w} \in SUBSET Workers
    BY <1>1
  <2>. QED
    BY <1>1, <1>2, <1>3, <2>1, ReserveOfOneMore DEF Totals
<1>6. size' = size /\ start' = start /\ running'
  BY <1>0 DEF PopJob, others, At
<1>7. CASE Enabled
  <2>1. Allowed(reserved + Reserve) /\ reserved = Reserve * Cardinality(Busy)
    BY <1>0, <1>1, <1>7 DEF PopJob, Claim, ReserveMatchesJobs
  <2>2. /\ MaxDatabase > 0 => size + f[Busy'] <= MaxDatabase
        /\ MaxGrowth > 0 => (size - start) + f[Busy'] <= MaxGrowth
    BY <1>5, <2>1, StaleAssumption DEF Allowed, TypeOK
  <2>. QED
    BY <1>2, <1>4, <1>6, <2>2 DEF Headroom
<1>8. CASE ~Enabled
  BY <1>2, <1>4, <1>6, <1>8 DEF Headroom, Enabled
<1>. QED
  BY <1>7, <1>8

\* A commit moves bytes from the headroom to the database.
LEMMA HeadroomKeep ==
    ASSUME TypeOK, Resting, Headroom, NEW w \in Workers, KeepsJob(w)
    PROVE  Headroom'
<1>1. running /\ w \in Busy /\ Busy \in SUBSET Workers
  BY DEF KeepsJob, Resting, Busy, Idle
<1>2. PICK j \in Jobs : /\ worker' = [worker EXCEPT ![w] = j]
                        /\ j.step \notin {"idle", "gone", "died"}
                        /\ size' = size + (j.grown - worker[w].grown)
                        /\ j.grown >= worker[w].grown
  BY DEF KeepsJob
<1>3. PICK f : /\ Totals(f, Grown)
               /\ MaxDatabase > 0 => size + f[Busy] <= MaxDatabase
               /\ MaxGrowth > 0 => (size - start) + f[Busy] <= MaxGrowth
  BY <1>1 DEF Headroom
<1>. DEFINE h == [S \in SUBSET Workers |->
                     IF w \in S THEN f[S] + (Grown[w] - j.grown) ELSE f[S]]
<1>4. Totals(h, Grown')
  <2>1. Grown' = [Grown EXCEPT ![w] = j.grown]
    BY <1>2, GrownChange
  <2>2. j.grown \in 0..Reserve
    BY DEF Jobs
  <2>. QED
    BY <1>3, <2>1, <2>2, GrownType, TotalsChange
<1>5. Busy' = Busy
  BY <1>1, <1>2, BusySame
<1>6. h[Busy] = f[Busy] - (j.grown - worker[w].grown) /\ f[Busy] \in Nat
  <2>1. f[Busy] \in Nat
    BY <1>1, <1>3 DEF Totals
  <2>2. worker[w].grown \in Int /\ j.grown \in Int /\ Grown[w] = worker[w].grown
    BY <1>2, StaleAssumption DEF TypeOK, Jobs, Grown
  <2>. QED
    BY <1>1, <2>1, <2>2
<1>7. size' \in Int /\ size \in Nat /\ start \in Nat
  BY <1>2, StaleAssumption DEF TypeOK, Jobs
<1>8. /\ MaxDatabase > 0 => size' + h[Busy] <= MaxDatabase
      /\ MaxGrowth > 0 => (size' - start) + h[Busy] <= MaxGrowth
  <2>1. worker[w].grown \in Int /\ j.grown \in Int
    BY StaleAssumption DEF TypeOK, Jobs
  <2>. DEFINE d == j.grown - worker[w].grown
  <2>2. d \in Int /\ size' = size + d /\ h[Busy] = f[Busy] - d
    BY <1>2, <1>6, <2>1
  <2>. HIDE DEF d, h
  <2>3. size' + h[Busy] = size + f[Busy]
        /\ (size' - start) + h[Busy] = (size - start) + f[Busy]
    BY <1>6, <1>7, <2>2
  <2>. QED
    BY <1>3, <2>3
<1>9. start' = start
  BY DEF KeepsJob
<1>. HIDE DEF h
<1>. QED
  BY <1>4, <1>5, <1>8, <1>9 DEF Headroom

LEMMA HeadroomEnd ==
    ASSUME TypeOK, Headroom, NEW w \in Workers, Releases(w)
    PROVE  Headroom'
<1>1. running /\ w \in Busy /\ Busy \in SUBSET Workers
  BY DEF Releases, Busy
<1>2. PICK f : /\ Totals(f, Grown)
               /\ MaxDatabase > 0 => size + f[Busy] <= MaxDatabase
               /\ MaxGrowth > 0 => (size - start) + f[Busy] <= MaxGrowth
  BY <1>1 DEF Headroom
<1>. DEFINE h == [S \in SUBSET Workers |->
                     IF w \in S THEN f[S] + (Grown[w] - 0) ELSE f[S]]
<1>3. Totals(h, Grown')
  <2>1. Grown' = [Grown EXCEPT ![w] = 0]
    BY DEF Releases, Grown, TypeOK
  <2>2. 0 \in 0..Reserve
    BY StaleAssumption
  <2>. QED
    BY <1>2, <2>1, <2>2, GrownType, TotalsChange
<1>4. Busy' = Busy \ {w}
  BY BusyLess DEF Releases
<1>5. h[Busy'] <= f[Busy] /\ h[Busy'] \in Nat /\ f[Busy] \in Nat
  <2>1. h[Busy \ {w}] = f[Busy \ {w}]
    BY <1>1
  <2>2. (Busy \ {w}) \cup {w} = Busy /\ w \in Workers \ (Busy \ {w})
        /\ Busy \ {w} \in SUBSET Workers
    BY <1>1
  <2>3. f[Busy] = f[Busy \ {w}] + (Reserve - Grown[w])
    BY <1>2, <2>2 DEF Totals
  <2>4. Grown[w] \in 0..Reserve /\ f[Busy \ {w}] \in Nat
    BY <1>2, <2>2, GrownType DEF Totals
  <2>. QED
    BY <1>4, <2>1, <2>3, <2>4, StaleAssumption
<1>6. size' = size /\ start' = start
  BY DEF Releases
<1>. HIDE DEF h
<1>7. /\ MaxDatabase > 0 => size' + h[Busy'] <= MaxDatabase
      /\ MaxGrowth > 0 => (size' - start') + h[Busy'] <= MaxGrowth
  BY <1>2, <1>5, <1>6, StaleAssumption DEF TypeOK
<1>. QED
  BY <1>3, <1>7 DEF Headroom

LEMMA HeadroomStep ==
    ASSUME TypeOK, Resting, IdleIsEmpty, ReserveMatchesJobs, WithinBudget,
           Headroom, [Next]_vars
    PROVE  Headroom'
<1>1. CASE UNCHANGED <<size, start, reserved, running, worker>>
  <2>1. Busy' = Busy /\ Grown' = Grown
    BY <1>1 DEF Busy, Grown
  <2>. QED
    BY <1>1, <2>1 DEF Headroom
<1>2. CASE StartRun
  <2>. DEFINE f == [S \in SUBSET Workers |-> Reserve * Cardinality(S)]
  <2>1. worker' = [w \in Workers |-> Idle] /\ worker' = worker
    BY <1>2 DEF StartRun, Resting
  <2>2. Grown' = [w \in Workers |-> 0] /\ Busy' = {}
    BY <2>1 DEF Grown, Busy, Idle
  <2>3. f[{}] = 0
    BY FS_EmptySet, StaleAssumption
  <2>4. Totals(f, Grown')
    BY <2>2, TotalsAtFirst
  <2>. HIDE DEF f
  <2>5. size' = size /\ start' = size /\ size \in Nat
    BY <1>2 DEF StartRun, TypeOK
  <2>6. /\ MaxDatabase > 0 => size' + f[Busy'] <= MaxDatabase
        /\ MaxGrowth > 0 => (size' - start') + f[Busy'] <= MaxGrowth
    BY <2>2, <2>3, <2>5, StaleAssumption DEF WithinBudget
  <2>. QED
    BY <2>4, <2>6 DEF Headroom
<1>3. CASE Finish \/ Crash
  BY <1>3 DEF Finish, Crash, Headroom
<1>4. ASSUME NEW w \in Workers, GetsJob(w)
      PROVE  Headroom'
  BY <1>4, HeadroomTake
<1>5. ASSUME NEW w \in Workers, Parts(w)
      PROVE  Headroom'
  <2>1. running /\ w \notin Busy
    BY <1>5 DEF Parts, At, Busy
  <2>2. Busy' = Busy /\ Grown' = Grown
    BY <1>5, <2>1 DEF Parts, Busy, Grown, TypeOK
  <2>3. size' = size /\ start' = start
    BY <1>5 DEF Parts
  <2>. QED
    BY <2>1, <2>2, <2>3 DEF Headroom
<1>6. ASSUME NEW w \in Workers, KeepsJob(w)
      PROVE  Headroom'
  BY <1>6, HeadroomKeep
<1>7. ASSUME NEW w \in Workers, Releases(w)
      PROVE  Headroom'
  BY <1>7, HeadroomEnd
<1>. QED
  BY <1>1, <1>2, <1>3, <1>4, <1>5, <1>6, <1>7, GateSteps

\* The headroom keeps the budgets while a run is in progress; nothing is
\* written between runs.
LEMMA BudgetStep ==
    ASSUME TypeOK, Resting, WithinBudget, [Next]_vars, TypeOK', Headroom'
    PROVE  WithinBudget'
<1>1. CASE running'
  <2>1. PICK f : /\ Totals(f, Grown')
                 /\ MaxDatabase > 0 => size' + f[Busy'] <= MaxDatabase
                 /\ MaxGrowth > 0 => (size' - start') + f[Busy'] <= MaxGrowth
    BY <1>1 DEF Headroom
  <2>2. f[Busy'] \in Nat
    BY <2>1 DEF Totals, Busy
  <2>. QED
    BY <2>1, <2>2, StaleAssumption DEF WithinBudget, TypeOK
<1>2. CASE ~running'
  <2>1. size' = size
    <3>1. ASSUME NEW w \in Workers,
                 GetsJob(w) \/ Parts(w) \/ KeepsJob(w) \/ Releases(w)
          PROVE  running'
      <4>1. CASE KeepsJob(w)
        BY <4>1 DEF KeepsJob, Resting, Busy, Idle
      <4>2. CASE GetsJob(w)
        BY <4>2 DEF GetsJob, PopJob, At, others
      <4>3. CASE Parts(w) \/ Releases(w)
        BY <4>3 DEF Parts, Releases, At
      <4>. QED
        BY <3>1, <4>1, <4>2, <4>3
    <3>. QED
      BY <1>2, <3>1, GateSteps DEF StartRun, Finish, Crash
  <2>. QED
    BY <1>2, <2>1 DEF WithinBudget
<1>. QED
  BY <1>1, <1>2

BudgetInv ==
    TypeOK /\ Resting /\ IdleIsEmpty /\ ReserveMatchesJobs /\ Headroom
           /\ WithinBudget

LEMMA BudgetInit == Init => BudgetInv
<1>. SUFFICES ASSUME Init PROVE BudgetInv
  OBVIOUS
<1>1. IdleIsEmpty
  BY DEF Init, IdleIsEmpty, Idle
<1>2. WithinBudget
  BY StaleAssumption DEF Init, WithinBudget
<1>. QED
  BY <1>1, <1>2, TypeInit
  DEF Init, BudgetInv, Resting, ReserveMatchesJobs, Headroom

\* However many jobs overlap, neither the database nor the growth of a run
\* passes its budget.
THEOREM BudgetsHold == Spec => []WithinBudget
<1>1. Init => BudgetInv
  BY BudgetInit
<1>2. BudgetInv /\ [Next]_vars => BudgetInv'
  <2>. SUFFICES ASSUME BudgetInv, [Next]_vars PROVE BudgetInv'
    OBVIOUS
  <2>1. TypeOK' /\ Resting' /\ IdleIsEmpty' /\ ReserveMatchesJobs' /\ Headroom'
    BY TypeStep, RestingStep, IdleIsEmptyStep, ReserveStep, HeadroomStep
    DEF BudgetInv
  <2>. QED
    BY <2>1, BudgetStep DEF BudgetInv
<1>. QED
  BY <1>1, <1>2, PTL DEF Spec, BudgetInv

-----------------------------------------------------------------------------
(* A complete run refreshes what it was asked to *)

\* In each company the dates order the filings as their times do, and none is
\* an amendment that makes it stale and anchors no card.
NewestIsLatest ==
    /\ \A f \in Filings : f.form # "6-K/A"
    /\ \A f, g \in Filings :
          f.company = g.company /\ {f.form, g.form} \subseteq CardForms /\ Time(f) < Time(g)
            => NewerThan(g, f)

LEMMA LeastOf ==
    ASSUME NEW T \in SUBSET Nat, T # {}
    PROVE  \E x \in T : \A y \in T : x <= y
<1>. DEFINE R == OpToRel(<, Nat)
<1>1. IsWellFoundedOn(R, Nat)
  BY NatLessThanWellFounded
<1>2. \A x, y \in Nat : y < x => <<y, x>> \in R
  BY DEF OpToRel
<1>. HIDE DEF R
<1>3. PICK x \in T : \A y \in T : ~ (<<y, x>> \in R)
  BY <1>1, WFMin
<1>4. ASSUME NEW y \in T PROVE x <= y
  <2>1. ~ (y < x)
    BY <1>2, <1>3
  <2>. QED
    BY <2>1
<1>. QED
  BY <1>4

\* In a finite set an order has an element with none above it: the one with
\* the fewest.
LEMMA TopOf ==
    ASSUME NEW S, IsFiniteSet(S), S # {}, NEW R,
           \A x \in S : <<x, x>> \notin R,
           \A x, y, z \in S : <<x, y>> \in R /\ <<y, z>> \in R => <<x, z>> \in R
    PROVE  \E x \in S : \A y \in S : <<y, x>> \notin R
<1>. DEFINE Above(x) == {y \in S : <<y, x>> \in R}
            count == [x \in S |-> Cardinality(Above(x))]
<1>1. \A x \in S : IsFiniteSet(Above(x)) /\ Cardinality(Above(x)) \in Nat
  BY FS_Subset, FS_CardinalityType
<1>2. PICK x \in S : \A y \in S : Cardinality(Above(x)) <= Cardinality(Above(y))
  <2>. HIDE DEF Above
  <2>1. count \in [S -> Nat] /\ \A y \in S : count[y] = Cardinality(Above(y))
    BY <1>1
  <2>. HIDE DEF count
  <2>2. {count[y] : y \in S} \in SUBSET Nat /\ {count[y] : y \in S} # {}
    BY <2>1
  <2>3. PICK n \in {count[y] : y \in S} : \A m \in {count[y] : y \in S} : n <= m
    BY <2>2, LeastOf
  <2>4. PICK x \in S : n = count[x]
    BY <2>3
  <2>. QED
    BY <2>1, <2>3, <2>4
<1>3. ASSUME NEW y \in S, <<y, x>> \in R
      PROVE  FALSE
  <2>1. Above(y) \in SUBSET Above(x) /\ y \in Above(x) /\ y \notin Above(y)
    BY <1>3
  <2>. HIDE DEF Above
  <2>2. Cardinality(Above(y)) <= Cardinality(Above(x)) /\ Cardinality(Above(x)) # Cardinality(Above(y))
    BY <1>1, <2>1, FS_Subset
  <2>. QED
    BY <1>1, <1>2, <2>2
<1>. QED
  BY <1>3

LEMMA MaxOf ==
    ASSUME NEW S \in SUBSET Nat, IsFiniteSet(S), S # {}
    PROVE  Max(S) \in S /\ \A y \in S : y <= Max(S)
<1>. DEFINE R == {p \in Nat \X Nat : p[1] > p[2]}
<1>1. \A x, y \in Nat : <<x, y>> \in R <=> x > y
  OBVIOUS
<1>. HIDE DEF R
<1>2. \E x \in S : \A y \in S : <<y, x>> \notin R
  <2>1. /\ \A x \in S : <<x, x>> \notin R
        /\ \A x, y, z \in S : <<x, y>> \in R /\ <<y, z>> \in R => <<x, z>> \in R
    BY <1>1
  <2>. QED
    BY <2>1, TopOf
<1>3. \E x \in S : \A y \in S : x >= y
  <2>1. PICK x \in S : \A y \in S : <<y, x>> \notin R
    BY <1>2
  <2>2. \A y \in S : y \in Nat /\ ~(y > x)
    BY <1>1, <2>1
  <2>. QED
    BY <2>1, <2>2
<1>4. Max(S) \in S /\ \A y \in S : Max(S) >= y
  BY <1>3 DEF Max
<1>. QED
  BY <1>4

LEMMA TimeType ==
    ASSUME NEW f \in Filings
    PROVE  /\ Time(f) \in Nat
           /\ f.company \in Companies /\ f.date \in Nat /\ f.accepted \in Nat \cup {NotTimed}
           /\ f.form \in {"core", "event", "6-K/A", "other"}
BY StaleAssumption DEF Time, DayLength

LEMMA LatestIsOneOf ==
    ASSUME NEW fs \in SUBSET Filings, IsFiniteSet(fs)
    PROVE  /\ Latest(fs) \in Nat
           /\ \A f \in fs : Time(f) <= Latest(fs)
           /\ fs # {} => \E f \in fs : Latest(fs) = Time(f)
<1>1. CASE fs = {}
  BY <1>1 DEF Latest
<1>2. CASE fs # {}
  <2>. DEFINE times == {Time(f) : f \in fs}
  <2>1. times \in SUBSET Nat /\ times # {}
    BY <1>2, TimeType
  <2>2. IsFiniteSet(times)
    <3>. DEFINE t == [f \in fs |-> Time(f)]
    <3>1. t \in Surjection(fs, times)
      BY DEF Surjection
    <3>. HIDE DEF times, t
    <3>. QED
      BY <3>1, FS_Surjection DEF ExistsSurjection
  <2>3. \A f \in fs : Time(f) \in times
    OBVIOUS
  <2>4. \A t \in times : \E f \in fs : t = Time(f)
    OBVIOUS
  <2>5. Latest(fs) = Max(times)
    BY <1>2 DEF Latest
  <2>. HIDE DEF times
  <2>6. Max(times) \in times /\ \A t \in times : t <= Max(times)
    BY <2>1, <2>2, MaxOf
  <2>. QED
    BY <2>1, <2>3, <2>4, <2>5, <2>6
<1>. QED
  BY <1>1, <1>2

\* A card is no older than any filing of its company that could anchor it.
LEMMA CardIsLatest ==
    ASSUME NewestIsLatest, filed \subseteq Filings, IsFiniteSet(filed),
           NEW g \in filed, g.form \in CardForms
    PROVE  \E f \in CardFiling(g.company) : f.company = g.company /\ Time(f) >= Time(g)
<1>. DEFINE able == {f \in filed : f.company = g.company /\ f.form \in CardForms}
            R == {p \in Filings \X Filings : NewerThan(p[1], p[2])}
<1>1. \A f, h \in Filings : <<f, h>> \in R <=> NewerThan(f, h)
  OBVIOUS
<1>2. able \subseteq Filings /\ g \in able /\ IsFiniteSet(able)
  <2>1. able \in SUBSET filed /\ g \in able
    OBVIOUS
  <2>. HIDE DEF able
  <2>. QED
    BY <2>1, FS_Subset
<1>3. ASSUME NEW x \in Filings
      PROVE  ~NewerThan(x, x)
  <2>1. x.date \in Nat /\ (x.accepted \in Nat \/ x.accepted = NotTimed)
    BY TimeType
  <2>. QED
    BY <2>1 DEF NewerThan
<1>4. ASSUME NEW x \in Filings, NEW y \in Filings, NEW z \in Filings, NewerThan(x, y), NewerThan(y, z)
      PROVE  NewerThan(x, z)
  <2>1. x.date \in Nat /\ y.date \in Nat /\ z.date \in Nat
    BY TimeType
  <2>2. /\ x.accepted \in Nat \/ x.accepted = NotTimed
        /\ y.accepted \in Nat \/ y.accepted = NotTimed
        /\ z.accepted \in Nat \/ z.accepted = NotTimed
        /\ NotTimed \notin Nat
    BY TimeType, StaleAssumption
  <2>. QED
    BY <1>4, <2>1, <2>2 DEF NewerThan
<1>. HIDE DEF R
<1>5. \E f \in able : \A h \in able : <<h, f>> \notin R
  <2>. HIDE DEF able
  <2>1. /\ \A x \in able : <<x, x>> \notin R
        /\ \A x, y, z \in able : <<x, y>> \in R /\ <<y, z>> \in R => <<x, z>> \in R
        /\ able # {}
    BY <1>1, <1>2, <1>3, <1>4
  <2>. QED
    BY <1>2, <2>1, TopOf
<1>6. PICK f \in able : \A h \in able : ~NewerThan(h, f)
  BY <1>1, <1>2, <1>5
<1>7. f \in CardFiling(g.company) /\ f.company = g.company
  BY <1>6 DEF CardFiling
<1>8. Time(f) >= Time(g)
  BY <1>2, <1>6, TimeType DEF NewestIsLatest
<1>. QED
  BY <1>7, <1>8


\* What a run was asked for is a time of a filing it had.
AskedWereFiled ==
    \A c \in DOMAIN asked : \E g \in filed : /\ g.company = c
                                             /\ g.form \in CardForms
                                             /\ Time(g) = asked[c]

InHand(c) ==
    \E w \in Workers : /\ worker[w].company = c
                       /\ worker[w].step \in {"facts", "normalize", "statements", "report"}

Refreshed(c) == \E f \in cards : f.company = c /\ Time(f) >= asked[c]

\* Its thread died, or is about to.
Abandoned(c) ==
    \E w \in Workers : /\ worker[w].company = c
                       /\ worker[w].step \in {"unwind", "died", "leaked"}

AccountedFor(c) == c \in DOMAIN queue \/ InHand(c) \/ Refreshed(c) \/ Abandoned(c)

\* Unless a failure was counted, every job is queued, in hand, done, or its
\* thread died.
NoJobLost == running /\ ~errors => \A c \in DOMAIN asked : AccountedFor(c)

\* A thread leaves when there is nothing to do, or the gate refuses it.
NoneLeftEarly ==
    running /\ ~limited /\ (\E w \in Workers : worker[w].step = "gone") => DOMAIN queue = {}

RefreshInv ==
    TypeOK /\ Resting /\ IsFiniteSet(filed) /\ AskedWereFiled /\ NoJobLost /\ NoneLeftEarly

LEMMA RefreshInit == Init => RefreshInv
<1>. SUFFICES ASSUME Init PROVE RefreshInv
  OBVIOUS
<1>1. IsFiniteSet(filed)
  BY FS_EmptySet DEF Init
<1>2. DOMAIN asked = {}
  BY DEF Init, NoJobs
<1>. QED
  BY <1>1, <1>2, TypeInit DEF Init, RefreshInv, Resting, AskedWereFiled, NoJobLost, NoneLeftEarly

\* A run asks for the companies whose newest core filing is newer than their
\* newest card.
LEMMA RunAsks ==
    ASSUME NewestIsLatest, RefreshInv, StartRun
    PROVE  RefreshInv'
<1>1. TypeOK' /\ Resting' /\ filed' = filed
  BY TypeStep, RestingStep DEF RefreshInv, StartRun, Next
<1>2. filed \subseteq Filings /\ cards \subseteq filed /\ IsFiniteSet(filed)
  BY DEF RefreshInv, TypeOK
<1>3. ASSUME NEW c \in DOMAIN StaleJobs
      PROVE  \E g \in filed : g.company = c /\ g.form \in CardForms /\ Time(g) = StaleJobs[c]
  <2>. DEFINE newer == {f \in filed : f.company = c /\ f.form \in StaleForms}
              carded == {f \in cards : f.company = c}
  <2>1. StaleJobs[c] = Latest(newer) /\ Latest(newer) > Latest(carded)
    BY <1>3 DEF StaleJobs, Stale, LatestCore, LatestCard
  <2>2. newer \in SUBSET filed /\ carded \in SUBSET filed
    BY <1>2
  <2>3. \A f \in newer : f \in filed /\ f.company = c /\ f.form \in CardForms
    BY <1>2 DEF NewestIsLatest, StaleForms, CardForms
  <2>. HIDE DEF newer, carded
  <2>4. IsFiniteSet(newer) /\ IsFiniteSet(carded)
    BY <1>2, <2>2, FS_Subset
  <2>5. Latest(carded) \in Nat
    BY <1>2, <2>2, <2>4, LatestIsOneOf
  <2>6. newer # {}
    BY <2>1, <2>5 DEF Latest
  <2>7. PICK g \in newer : Latest(newer) = Time(g)
    BY <1>2, <2>2, <2>4, <2>6, LatestIsOneOf
  <2>. QED
    BY <2>1, <2>3, <2>7
<1>4. queue' = StaleJobs /\ asked' = StaleJobs
  BY DEF StartRun
<1>5. AskedWereFiled'
  BY <1>1, <1>3, <1>4 DEF AskedWereFiled
<1>6. NoJobLost'
  BY <1>4 DEF NoJobLost, AccountedFor
<1>7. NoneLeftEarly'
  <2>1. \A w \in Workers : worker'[w].step # "gone"
    BY DEF RefreshInv, Resting, StartRun, Idle
  <2>. QED
    BY <2>1 DEF NoneLeftEarly
<1>. QED
  BY <1>1, <1>2, <1>5, <1>6, <1>7 DEF RefreshInv

\* A step of a thread: the filings and what was asked for stay, and no card goes.
WorkerStep(w) ==
    /\ running
    /\ UNCHANGED <<filed, running, asked>>
    /\ cards \subseteq cards'
    /\ errors => errors'
    /\ limited => limited'
    /\ \E j : worker' = [worker EXCEPT ![w] = j]
    /\ DOMAIN queue' \subseteq DOMAIN queue

ThreadSteps(w) ==
    WorkerProgress(w) \/ (\E n \in 0..Reserve : StageFails(w, n)) \/ ThreadDies(w)

LEMMA WorkerSteps ==
    ASSUME TypeOK, NEW w \in Workers, ThreadSteps(w)
    PROVE  WorkerStep(w)
<1>1. ASSUME NEW c \in Companies, Take(w, c) \/ DiesClaimed(w, c) PROVE WorkerStep(w)
  BY <1>1 DEF Take, DiesClaimed, PopJob, At, Claim, others, WorkerStep
<1>2. CASE Leave(w)
  <2>1. worker' = [worker EXCEPT ![w] = [worker[w] EXCEPT !.step = "gone"]]
    BY <1>2 DEF Leave
  <2>2. limited => limited'
    BY <1>2 DEF Leave, ClaimRefused
  <2>. QED
    BY <1>2, <2>1, <2>2 DEF Leave, At, others, WorkerStep
<1>3. CASE NoFacts(w)
  <2>1. worker' = [worker EXCEPT ![w] = [worker[w] EXCEPT !.step = "normalize"]]
    BY <1>3 DEF NoFacts
  <2>. QED
    BY <1>3, <2>1 DEF NoFacts, At, others, WorkerStep
<1>4. ASSUME NEW n \in 0..Reserve, NEW next, running, Commit(w, n, next), cards \subseteq cards'
      PROVE  WorkerStep(w)
  <2>1. worker' = [worker EXCEPT ![w] = [worker[w] EXCEPT !.step = next, !.grown = @ + n]]
    BY <1>4 DEF Commit
  <2>. QED
    BY <1>4, <2>1 DEF Commit, others, WorkerStep
<1>5. ASSUME NEW n \in 0..Reserve,
             RefreshFacts(w, n) \/ Normalize(w, n) \/ BuildStatements(w, n) \/ BuildReport(w, n)
      PROVE  WorkerStep(w)
  BY <1>4, <1>5 DEF RefreshFacts, Normalize, BuildStatements, BuildReport, At
<1>6. CASE EndJob(w)
  BY <1>6 DEF EndJob, At, others, WorkerStep
<1>7. ASSUME NEW n \in 0..Reserve, StageFails(w, n) \/ RollbackFails(w, n) PROVE WorkerStep(w)
  <2>1. PICK next : worker' = [worker EXCEPT ![w] = [worker[w] EXCEPT !.step = next, !.grown = @ + n]]
    BY <1>7 DEF StageFails, RollbackFails
  <2>2. LeaveBehind(w, n) /\ (errors => errors')
    BY <1>7 DEF StageFails, RollbackFails
  <2>. QED
    BY <2>1, <2>2 DEF LeaveBehind, others, WorkerStep
<1>8. CASE Dies(w) \/ CloseFails(w) \/ Unwind(w)
  <2>1. PICK j : worker' = [worker EXCEPT ![w] = j]
    <3>1. CASE Dies(w) \/ CloseFails(w)
      <4>1. PICK next : worker' = [worker EXCEPT ![w] = [worker[w] EXCEPT !.step = next]]
        BY <3>1 DEF Dies, CloseFails
      <4>. QED
        BY <4>1
    <3>2. CASE Unwind(w)
      <4>1. worker' = [worker EXCEPT ![w] = [worker[w] EXCEPT !.step = "died", !.grown = 0]]
        BY <3>2 DEF Unwind
      <4>. QED
        BY <4>1
    <3>. QED
      BY <1>8, <3>1, <3>2
  <2>2. CASE Dies(w)
    BY <2>1, <2>2 DEF Dies, At, others, WorkerStep
  <2>3. CASE CloseFails(w)
    BY <2>1, <2>3 DEF CloseFails, At, others, WorkerStep
  <2>4. CASE Unwind(w)
    BY <2>1, <2>4 DEF Unwind, At, others, WorkerStep
  <2>. QED
    BY <1>8, <2>2, <2>3, <2>4
<1>. QED
  BY <1>1, <1>2, <1>3, <1>5, <1>6, <1>7, <1>8 DEF ThreadSteps, WorkerProgress, ThreadDies

\* The company of a thread that died stays with it.
LEMMA AbandonedStays ==
    ASSUME NEW w \in Workers, ThreadSteps(w), TypeOK, NEW c, Abandoned(c)
    PROVE  Abandoned(c)'
<1>1. PICK u \in Workers : /\ worker[u].company = c
                           /\ worker[u].step \in {"unwind", "died", "leaked"}
  BY DEF Abandoned
<1>2. CASE u # w
  <2>1. worker'[u] = worker[u]
    BY <1>2, WorkerSteps DEF WorkerStep, TypeOK
  <2>. QED
    BY <1>1, <2>1 DEF Abandoned
<1>3. CASE u = w
  <2>1. CloseFails(w) \/ Unwind(w)
    BY <1>1, <1>3
    DEF ThreadSteps, WorkerProgress, ThreadDies, Take, DiesClaimed, PopJob, Leave, NoFacts, RefreshFacts,
        Normalize, BuildStatements, BuildReport, EndJob, StageFails, RollbackFails, LeaveBehind, Dies, At
  <2>2. worker'[w].company = c /\ worker'[w].step \in {"died", "leaked"}
    BY <1>1, <1>3, <2>1 DEF CloseFails, Unwind, TypeOK
  <2>. QED
    BY <2>2 DEF Abandoned
<1>. QED
  BY <1>2, <1>3

\* The others keep what they have in hand.
LEMMA OthersKeepJobs ==
    ASSUME NEW w \in Workers, WorkerStep(w), TypeOK, NEW c, InHand(c),
           \/ worker[w].step \notin {"facts", "normalize", "statements", "report"}
           \/ worker[w].company # c
           \/ /\ worker'[w].company = worker[w].company
              /\ worker'[w].step \in {"facts", "normalize", "statements", "report"}
    PROVE  InHand(c)'
<1>1. PICK u \in Workers : /\ worker[u].company = c
                           /\ worker[u].step \in {"facts", "normalize", "statements", "report"}
  BY DEF InHand
<1>2. u # w => worker'[u] = worker[u]
  BY DEF WorkerStep, TypeOK
<1>. QED
  BY <1>1, <1>2 DEF InHand

\* A job moves from the queue into a thread's hand, and from there to a card.
LEMMA JobsMove ==
    ASSUME NewestIsLatest, RefreshInv, NEW w \in Workers, ThreadSteps(w),
           NEW c \in DOMAIN asked, ~errors', AccountedFor(c)
    PROVE  AccountedFor(c)'
<1>1. WorkerStep(w) /\ TypeOK
  BY WorkerSteps DEF RefreshInv
<1>2. (Refreshed(c) => Refreshed(c)') /\ (Abandoned(c) => Abandoned(c)')
  BY <1>1, AbandonedStays DEF Refreshed, WorkerStep
<1>. USE DEF AccountedFor
<1>3. ASSUME NEW d \in Companies, Take(w, d) \/ DiesClaimed(w, d)
      PROVE  AccountedFor(c)'
  <2>0. PICK next \in {"facts", "leaked"} : PopJob(w, d, next)
    BY <1>3 DEF Take, DiesClaimed
  <2>1. InHand(c) => InHand(c)'
    BY <1>1, <2>0, OthersKeepJobs DEF PopJob, At
  <2>2. DOMAIN queue' = DOMAIN queue \ {d}
    BY <2>0 DEF PopJob
  <2>3. worker'[w].company = d /\ worker'[w].step = next
    BY <1>1, <2>0 DEF PopJob, TypeOK
  <2>4. d = c => InHand(c)' \/ Abandoned(c)'
    BY <2>3 DEF InHand, Abandoned
  <2>. QED
    BY <1>2, <2>1, <2>2, <2>4
<1>4. CASE Leave(w)
  BY <1>1, <1>2, <1>4, OthersKeepJobs DEF Leave, At
<1>5. ASSUME NEW n \in 0..Reserve,
             NoFacts(w) \/ RefreshFacts(w, n) \/ Normalize(w, n) \/ BuildStatements(w, n)
      PROVE  AccountedFor(c)'
  <2>1. /\ worker'[w].company = worker[w].company
        /\ worker'[w].step \in {"facts", "normalize", "statements", "report"}
        /\ queue' = queue
    BY <1>1, <1>5 DEF NoFacts, RefreshFacts, Normalize, BuildStatements, Commit, TypeOK
  <2>. QED
    BY <1>1, <1>2, <2>1, OthersKeepJobs
<1>6. ASSUME NEW n \in 0..Reserve, BuildReport(w, n)
      PROVE  AccountedFor(c)'
  <2>1. queue' = queue
    BY <1>6 DEF BuildReport, Commit
  <2>2. CASE worker[w].company = c
    <3>1. PICK g \in filed : g.company = c /\ g.form \in CardForms /\ Time(g) = asked[c]
      BY DEF RefreshInv, AskedWereFiled
    <3>2. PICK f \in CardFiling(c) : f.company = c /\ Time(f) >= Time(g)
      BY <1>1, <3>1, CardIsLatest DEF RefreshInv, TypeOK
    <3>3. f \in cards' /\ asked' = asked
      BY <1>1, <1>6, <2>2, <3>2 DEF BuildReport, WorkerStep
    <3>. QED
      BY <3>1, <3>2, <3>3 DEF Refreshed
  <2>3. CASE worker[w].company # c
    BY <1>1, <1>2, <2>1, <2>3, OthersKeepJobs
  <2>. QED
    BY <2>2, <2>3
<1>7. CASE EndJob(w)
  BY <1>1, <1>2, <1>7, OthersKeepJobs DEF EndJob, At
<1>8. ASSUME NEW n \in 0..Reserve PROVE ~StageFails(w, n)
  BY DEF StageFails
<1>9. 0 \in 0..Reserve
  BY StaleAssumption
<1>10. ASSUME NEW n \in 0..Reserve, RollbackFails(w, n)
       PROVE  AccountedFor(c)'
  <2>1. queue' = queue
    BY <1>10 DEF RollbackFails, LeaveBehind
  <2>2. worker'[w].company = worker[w].company /\ worker'[w].step = "unwind"
    BY <1>1, <1>10 DEF RollbackFails, TypeOK
  <2>3. CASE worker[w].company = c
    BY <2>2, <2>3 DEF Abandoned
  <2>4. CASE worker[w].company # c
    BY <1>1, <1>2, <2>1, <2>4, OthersKeepJobs
  <2>. QED
    BY <2>3, <2>4
<1>11. CASE Dies(w) \/ CloseFails(w) \/ Unwind(w)
  <2>1. queue' = queue /\ worker[w].step \in {"idle", "release", "unwind"}
    BY <1>11 DEF Dies, CloseFails, Unwind, At
  <2>. QED
    BY <1>1, <1>2, <2>1, OthersKeepJobs
<1>. QED
  BY <1>3, <1>4, <1>5, <1>6, <1>7, <1>8, <1>9, <1>10, <1>11 DEF ThreadSteps, WorkerProgress, ThreadDies

LEMMA LeavingStep ==
    ASSUME RefreshInv, NEW w \in Workers, ThreadSteps(w)
    PROVE  NoneLeftEarly'
<1>1. WorkerStep(w) /\ TypeOK
  BY WorkerSteps DEF RefreshInv
<1>. SUFFICES ASSUME ~limited', NEW u \in Workers, worker'[u].step = "gone"
              PROVE  DOMAIN queue' = {}
  BY DEF NoneLeftEarly
<1>2. CASE worker[u].step = "gone"
  <2>1. DOMAIN queue = {}
    BY <1>1, <1>2 DEF RefreshInv, NoneLeftEarly, WorkerStep
  <2>. QED
    BY <1>1, <2>1 DEF WorkerStep
<1>3. CASE worker[u].step # "gone"
  <2>1. u = w
    BY <1>1, <1>3 DEF WorkerStep, TypeOK
  <2>2. ~Leave(w) => worker'[w].step # "gone"
    <3>1. ASSUME NEW c \in Companies, Take(w, c) \/ DiesClaimed(w, c) PROVE worker'[w].step # "gone"
      BY <1>1, <3>1 DEF Take, DiesClaimed, PopJob, TypeOK
    <3>2. ASSUME NEW n \in 0..Reserve,
                 \/ NoFacts(w) \/ RefreshFacts(w, n) \/ Normalize(w, n)
                 \/ BuildStatements(w, n) \/ BuildReport(w, n)
          PROVE  worker'[w].step # "gone"
      BY <1>1, <3>2 DEF NoFacts, RefreshFacts, Normalize, BuildStatements, BuildReport, Commit, TypeOK
    <3>3. CASE EndJob(w)
      BY <1>1, <3>3 DEF EndJob, Idle, TypeOK
    <3>4. ASSUME NEW n \in 0..Reserve, StageFails(w, n) \/ RollbackFails(w, n)
          PROVE  worker'[w].step # "gone"
      BY <1>1, <3>4 DEF StageFails, RollbackFails, TypeOK
    <3>5. 0 \in 0..Reserve
      BY StaleAssumption
    <3>6. CASE Dies(w) \/ CloseFails(w) \/ Unwind(w)
      BY <1>1, <3>6 DEF Dies, CloseFails, Unwind, TypeOK
    <3>. QED
      BY <3>1, <3>2, <3>3, <3>4, <3>5, <3>6 DEF ThreadSteps, WorkerProgress, ThreadDies
  <2>3. Leave(w)
    BY <2>1, <2>2
  <2>4. queue = NoJobs /\ queue' = queue
    BY <2>3 DEF Leave, ClaimRefused
  <2>. QED
    BY <2>4 DEF NoJobs
<1>. QED
  BY <1>2, <1>3

LEMMA RefreshStep ==
    ASSUME NewestIsLatest, RefreshInv, [Next]_vars
    PROVE  RefreshInv'
<1>1. TypeOK' /\ Resting'
  BY TypeStep, RestingStep DEF RefreshInv
<1>2. ASSUME NEW f \in Filings, Import(f) PROVE RefreshInv'
  <2>1. filed' = filed \cup {f} /\ IsFiniteSet(filed')
    BY <1>2, FS_AddElement DEF Import, RefreshInv
  <2>2. AskedWereFiled'
    BY <1>2, <2>1 DEF Import, RefreshInv, AskedWereFiled
  <2>3. NoJobLost' /\ NoneLeftEarly'
    BY <1>2 DEF Import, gate, RefreshInv, NoJobLost, NoneLeftEarly, AccountedFor, InHand, Refreshed, Abandoned
  <2>. QED
    BY <1>1, <2>1, <2>2, <2>3 DEF RefreshInv
<1>3. CASE StartRun
  BY <1>3, RunAsks
<1>4. CASE Finish \/ Crash
  BY <1>1, <1>4 DEF Finish, Crash, gate, RefreshInv, AskedWereFiled, NoJobLost, NoneLeftEarly
<1>5. ASSUME NEW w \in Workers, ThreadSteps(w) PROVE RefreshInv'
  <2>1. WorkerStep(w)
    BY <1>5, WorkerSteps DEF RefreshInv
  <2>2. IsFiniteSet(filed') /\ AskedWereFiled'
    BY <2>1 DEF RefreshInv, AskedWereFiled, WorkerStep
  <2>3. NoJobLost'
    <3>. SUFFICES ASSUME ~errors', NEW c \in DOMAIN asked'
                  PROVE  AccountedFor(c)'
      BY DEF NoJobLost
    <3>1. c \in DOMAIN asked /\ AccountedFor(c)
      BY <2>1 DEF RefreshInv, NoJobLost, WorkerStep
    <3>. QED
      BY <1>5, <3>1, JobsMove
  <2>. QED
    BY <1>1, <1>5, <2>2, <2>3, LeavingStep DEF RefreshInv
<1>6. CASE UNCHANGED vars
  BY <1>1, <1>6 DEF vars, gate, RefreshInv, AskedWereFiled, NoJobLost, NoneLeftEarly, AccountedFor, InHand, Refreshed, Abandoned
<1>. QED
  BY <1>2, <1>3, <1>4, <1>5, <1>6 DEF Next, ThreadSteps

\* A run that counted no error and met no budget leaves every company it was
\* asked to refresh with a card as late as the filing for which it asked, but
\* for those whose thread died with them, as long as one thread lived: no job is
\* lost between the queue, the threads and the card in another way.
\* (refresh_stale_core_reports.py 96-111, 126-186, 197-295, 380-410)
THEOREM CompleteRunsRefresh == NewestIsLatest => (Spec => CompleteRunRefreshes)
<1>. DEFINE Refreshes ==
        running /\ ~running' /\ faults' = faults /\ ~errors /\ ~limited
          => \/ \A w \in Workers : worker[w].step \in Dead
             \/ \A c \in DOMAIN asked : LatestCard(c) >= asked[c] \/ DiedWith(c)
<1>1. ASSUME NewestIsLatest, RefreshInv, [Next]_vars PROVE [Refreshes]_vars
  <2>. SUFFICES ASSUME running, ~running', faults' = faults, ~errors, ~limited, NEW c \in DOMAIN asked,
                       NEW alive \in Workers, worker[alive].step \notin Dead, ~DiedWith(c)
                PROVE  LatestCard(c) >= asked[c]
    OBVIOUS
  <2>1. Finish
    <3>1. \A w \in Workers : ~ThreadSteps(w)
      BY <1>1, WorkerSteps DEF RefreshInv, WorkerStep
    <3>2. ~Crash
      BY <1>1 DEF Crash, Fault, RefreshInv, TypeOK
    <3>. QED
      BY <1>1, <3>1, <3>2 DEF Next, ThreadSteps, Import, StartRun, vars
  <2>2. DOMAIN queue = {}
    BY <1>1, <2>1 DEF Finish, RefreshInv, NoneLeftEarly
  <2>3. ~InHand(c)
    BY <2>1 DEF Finish, InHand, Dead
  <2>10. ~Abandoned(c)
    BY <2>1 DEF Finish, Abandoned, DiedWith, Dead
  <2>4. PICK f \in cards : f.company = c /\ Time(f) >= asked[c]
    BY <1>1, <2>2, <2>3, <2>10 DEF RefreshInv, NoJobLost, AccountedFor, Refreshed
  <2>. DEFINE carded == {h \in cards : h.company = c}
  <2>5. f \in carded /\ carded \in SUBSET filed /\ filed \subseteq Filings /\ IsFiniteSet(filed)
    BY <1>1, <2>4 DEF RefreshInv, TypeOK
  <2>6. LatestCard(c) = Latest(carded)
    BY DEF LatestCard
  <2>7. PICK g \in filed : Time(g) = asked[c]
    BY <1>1 DEF RefreshInv, AskedWereFiled
  <2>. HIDE DEF carded
  <2>8. IsFiniteSet(carded)
    BY <2>5, FS_Subset
  <2>9. Time(f) <= Latest(carded) /\ Latest(carded) \in Nat
    BY <2>5, <2>8, LatestIsOneOf
  <2>. QED
    BY <2>4, <2>5, <2>6, <2>7, <2>9, TimeType
<1>2. SUFFICES ASSUME NewestIsLatest PROVE Spec => CompleteRunRefreshes
  OBVIOUS
<1>3. RefreshInv /\ [Next]_vars => RefreshInv'
  BY <1>2, RefreshStep
<1>4. RefreshInv /\ [Next]_vars => [Refreshes]_vars
  BY <1>1, <1>2
<1>. QED
  BY <1>3, <1>4, RefreshInit, PTL DEF Spec, CompleteRunRefreshes

=============================================================================
