---------------------------- MODULE BackupsProofs ----------------------------
(***************************************************************************)
(* A recovery copy that verifies is given up only for newer ones, and the  *)
(* success the status file reports is of an archive that is still covered, *)
(* for any number of runs of the script at the same time, copies to keep,  *)
(* retention and mishaps.                                                  *)
(***************************************************************************)
EXTENDS Backups, FiniteSetTheorems, TLAPS

RunPlaces ==
    {"off", "select", "expire", "headroom", "publish", "counts", "seal", "record", "report"}

ArchiveType ==
    [dump : {"none", "partial", "good", "rotten"}, counts : BOOLEAN, seal : BOOLEAN,
     drilled : BOOLEAN, made : Int]

SuccessType == [time : Int, of : Int]

RunType ==
    [at : RunPlaces, own : Int, success : SuccessType, kept : SUBSET Archives,
     listed : SUBSET Archives]

BackupsTypeInv ==
    /\ backupClock \in Nat
    /\ startedAt \in 0 .. MaxArchives
    /\ archive \in [Archives -> ArchiveType]
    /\ script \in [Runs -> RunType]
    /\ success \in SuccessType
    /\ backupStatus.success \in SuccessType
    /\ drill.at # "off" => drill.of \in Archives
    /\ rotted \subseteq Archives

Running(r) == script[r].at # "off"

\* The verified archives newer than a, and whether they are as many as to keep.
Above(a) == {b \in Archives : b > a /\ Verified(b)}

Covered(a) == Cardinality(Above(a)) >= Keep

\* Some archive numbered x or more verifies, or the disk damaged one.
Vouched(x) == \E a \in Archives : a >= x /\ (Verified(a) \/ a \in rotted)

Known(s) == s.time >= 0 => Vouched(s.of)

\* Every run makes an archive of its own, and what it has made of it is there.
\* While it publishes, no time passes that would let another run expire it.
RunsOwn ==
    \A r \in Runs : Running(r) =>
        /\ script[r].own \in 1 .. startedAt
        /\ \A q \in Runs : Running(q) /\ script[q].own = script[r].own => q = r

OwnOk(r) ==
    LET own == archive[script[r].own]
    IN  /\ script[r].at \in {"select", "expire", "headroom"} => own.dump = "none"
        /\ script[r].at = "publish" => own.dump = "partial"
        /\ script[r].at \in {"counts", "seal"} => own.dump \in {"good", "rotten"}
        /\ script[r].at = "seal" => own.counts
        /\ script[r].at \in {"publish", "counts", "seal"} => own.made = backupClock

OwnArchive == \A r \in Runs : OwnOk(r)

\* Nothing is there of an archive no run has begun, and damage is on record.
ArchivesKnown ==
    \A a \in Archives :
        /\ a > startedAt => archive[a].dump = "none"
        /\ archive[a].dump = "rotten" => a \in rotted

\* What a run may expire is covered by archives that verify now, though other
\* runs have expired some of those it chose to keep.
ExpiryIsSafe ==
    \A r \in Runs : script[r].at = "expire" =>
        \A a \in script[r].listed \ script[r].kept :
            Verified(a) /\ archive[a].made # backupClock => Covered(a)

\* Every success that is remembered, wherever, is of an archive still vouched for.
SuccessIsVouched ==
    /\ Known(success) /\ Known(backupStatus.success)
    /\ \A r \in Runs : Running(r) =>
          /\ Known(script[r].success)
          /\ script[r].at = "record" => Vouched(script[r].own)

BackupsInv ==
    /\ BackupsTypeInv
    /\ RunsOwn
    /\ OwnArchive
    /\ ArchivesKnown
    /\ ExpiryIsSafe
    /\ SuccessIsVouched

-----------------------------------------------------------------------------
(* Records *)

\* Reading back an update of an archive's or a run's record.
LEMMA DumpSet ==
    ASSUME NEW x \in ArchiveType, NEW d \in {"none", "partial", "good", "rotten"}
    PROVE  /\ [x EXCEPT !.dump = d] \in ArchiveType
           /\ [x EXCEPT !.dump = d].dump = d
           /\ [x EXCEPT !.dump = d].counts = x.counts
           /\ [x EXCEPT !.dump = d].seal = x.seal
           /\ [x EXCEPT !.dump = d].made = x.made
BY DEF ArchiveType

LEMMA FlagsSet ==
    ASSUME NEW x \in ArchiveType
    PROVE  /\ [x EXCEPT !.counts = TRUE] \in ArchiveType
           /\ [x EXCEPT !.counts = TRUE].dump = x.dump
           /\ [x EXCEPT !.counts = TRUE].counts
           /\ [x EXCEPT !.counts = TRUE].made = x.made
           /\ [x EXCEPT !.seal = TRUE] \in ArchiveType
           /\ [x EXCEPT !.seal = TRUE].dump = x.dump
           /\ [x EXCEPT !.seal = TRUE].counts = x.counts
           /\ [x EXCEPT !.seal = TRUE].seal
           /\ [x EXCEPT !.seal = TRUE].made = x.made
           /\ [x EXCEPT !.drilled = TRUE] \in ArchiveType
           /\ [x EXCEPT !.drilled = TRUE].dump = x.dump
           /\ [x EXCEPT !.drilled = TRUE].counts = x.counts
           /\ [x EXCEPT !.drilled = TRUE].seal = x.seal
           /\ [x EXCEPT !.drilled = TRUE].made = x.made
BY DEF ArchiveType

LEMMA NewArchive ==
    /\ NoArchive \in ArchiveType /\ NoArchive.dump = "none"
    /\ \A t \in Int :
          /\ [NoArchive EXCEPT !.dump = "partial", !.made = t] \in ArchiveType
          /\ [NoArchive EXCEPT !.dump = "partial", !.made = t].dump = "partial"
          /\ [NoArchive EXCEPT !.dump = "partial", !.made = t].made = t
<1>1. NoArchive \in ArchiveType /\ NoArchive.dump = "none"
  BY DEF ArchiveType, NoArchive
<1>2. ASSUME NEW x \in ArchiveType, NEW t \in Int
      PROVE  /\ [x EXCEPT !.dump = "partial", !.made = t] \in ArchiveType
             /\ [x EXCEPT !.dump = "partial", !.made = t].dump = "partial"
             /\ [x EXCEPT !.dump = "partial", !.made = t].made = t
  BY DEF ArchiveType
<1>. QED
  BY <1>1, <1>2

LEMMA RunMoved ==
    ASSUME NEW x \in RunType, NEW p \in RunPlaces
    PROVE  /\ [x EXCEPT !.at = p] \in RunType
           /\ [x EXCEPT !.at = p].at = p
           /\ [x EXCEPT !.at = p].own = x.own
           /\ [x EXCEPT !.at = p].success = x.success
           /\ [x EXCEPT !.at = p].kept = x.kept
           /\ [x EXCEPT !.at = p].listed = x.listed
BY DEF RunType

\* A run that ends, fails or is killed is as one that was never started.
LEMMA NoRunType == NoRun \in RunType /\ NoRun.at = "off"
<1>1. "off" \in RunPlaces /\ [time |-> -1, of |-> 0] \in SuccessType
  BY DEF RunPlaces, SuccessType
<1>. QED
  BY <1>1 DEF NoRun, RunType

LEMMA RunStarted ==
    ASSUME NEW n \in Int, NEW s \in SuccessType
    PROVE  /\ [NoRun EXCEPT !.at = "select", !.own = n, !.success = s] \in RunType
           /\ [NoRun EXCEPT !.at = "select", !.own = n, !.success = s].at = "select"
           /\ [NoRun EXCEPT !.at = "select", !.own = n, !.success = s].own = n
           /\ [NoRun EXCEPT !.at = "select", !.own = n, !.success = s].success = s
<1>1. "select" \in RunPlaces
  BY DEF RunPlaces
<1>. QED
  BY <1>1 DEF NoRun, RunType

Selecting(x, K, L) == [x EXCEPT !.at = "expire", !.kept = K, !.listed = L]

LEMMA RunSelected ==
    ASSUME NEW x \in RunType, NEW K \in SUBSET Archives, NEW L \in SUBSET Archives
    PROVE  /\ Selecting(x, K, L) \in RunType
           /\ Selecting(x, K, L).at = "expire"
           /\ Selecting(x, K, L).own = x.own
           /\ Selecting(x, K, L).success = x.success
           /\ Selecting(x, K, L).kept = K
<1>1. "expire" \in RunPlaces
  BY DEF RunPlaces
<1>. QED
  BY <1>1 DEF RunType, Selecting

LEMMA RunRecorded ==
    ASSUME NEW x \in RunType, NEW s \in SuccessType
    PROVE  /\ [x EXCEPT !.at = "report", !.success = s] \in RunType
           /\ [x EXCEPT !.at = "report", !.success = s].at = "report"
           /\ [x EXCEPT !.at = "report", !.success = s].own = x.own
           /\ [x EXCEPT !.at = "report", !.success = s].success = s
<1>1. "report" \in RunPlaces
  BY DEF RunPlaces
<1>. QED
  BY <1>1 DEF RunType

-----------------------------------------------------------------------------
(* Counting *)

LEMMA MoreCover ==
    ASSUME NEW S, NEW T \in SUBSET Archives, S \subseteq T, Cardinality(S) >= Keep
    PROVE  Cardinality(T) >= Keep
<1>1. IsFiniteSet(Archives)
  BY BackupsAssumption, FS_Interval DEF Archives
<1>2. IsFiniteSet(T)
  BY <1>1, FS_Subset
<1>3. IsFiniteSet(S) /\ Cardinality(S) <= Cardinality(T)
  BY <1>2, FS_Subset
<1>4. Cardinality(S) \in Nat /\ Cardinality(T) \in Nat
  BY <1>2, <1>3, FS_CardinalityType
<1>. QED
  BY <1>3, <1>4, BackupsAssumption

\* What is covered has at least one newer archive that verifies.
LEMMA CoverIsSome ==
    ASSUME NEW a \in Archives, Covered(a)
    PROVE  \E b \in Archives : b > a /\ Verified(b)
<1>1. Above(a) # {}
  BY FS_EmptySet, BackupsAssumption DEF Covered
<1>. QED
  BY <1>1 DEF Above

-----------------------------------------------------------------------------
(* What each action does *)

LEMMA ScriptSet ==
    ASSUME BackupsTypeInv, NEW r \in Runs, NEW x \in RunType, script' = [script EXCEPT ![r] = x]
    PROVE  /\ script' \in [Runs -> RunType]
           /\ script'[r] = x
           /\ \A q \in Runs \ {r} : script'[q] = script[q]
BY DEF BackupsTypeInv

LEMMA ArchiveSet ==
    ASSUME BackupsTypeInv, NEW a \in Archives, NEW x \in ArchiveType,
           archive' = [archive EXCEPT ![a] = x]
    PROVE  /\ archive' \in [Archives -> ArchiveType]
           /\ archive'[a] = x
           /\ \A b \in Archives \ {a} : archive'[b] = archive[b]
BY DEF BackupsTypeInv

\* A run goes on, and only its place changes.
Goes(r, from, to) ==
    /\ script[r].at = from
    /\ script' \in [Runs -> RunType]
    /\ script'[r].at = to
    /\ script'[r].own = script[r].own
    /\ script'[r].success = script[r].success
    /\ \A q \in Runs \ {r} : script'[q] = script[q]

LEMMA AtGoes ==
    ASSUME BackupsTypeInv, NEW r \in Runs, NEW f \in RunPlaces, NEW p \in RunPlaces, At(r, f, p)
    PROVE  Goes(r, f, p)
<1>. DEFINE x == [script[r] EXCEPT !.at = p]
<1>1. script[r] \in RunType
  BY DEF BackupsTypeInv
<1>2. /\ x \in RunType /\ x.at = p
      /\ x.own = script[r].own /\ x.success = script[r].success
  BY <1>1, RunMoved
<1>3. script' = [script EXCEPT ![r] = x] /\ script[r].at = f
  BY DEF At
<1>. HIDE DEF x
<1>4. /\ script' \in [Runs -> RunType]
      /\ script'[r] = x
      /\ \A q \in Runs \ {r} : script'[q] = script[q]
  BY <1>2, <1>3, ScriptSet
<1>. QED
  BY <1>2, <1>3, <1>4 DEF Goes

\* A run is over.
Ends(r) ==
    /\ script' \in [Runs -> RunType]
    /\ ~Running(r)'
    /\ \A q \in Runs \ {r} : script'[q] = script[q]

LEMMA NoRunEnds ==
    ASSUME BackupsTypeInv, NEW r \in Runs, script' = [script EXCEPT ![r] = NoRun]
    PROVE  Ends(r)
BY NoRunType, ScriptSet DEF Ends, Running

LEMMA StartEffect ==
    ASSUME BackupsTypeInv, NEW r \in Runs, StartBackup(r)
    PROVE  /\ BackupsTypeInv'
           /\ ~Running(r)
           /\ script'[r].at = "select"
           /\ script'[r].own = startedAt + 1
           /\ script'[r].success = success
           /\ \A q \in Runs \ {r} : script'[q] = script[q]
           /\ startedAt' = startedAt + 1
           /\ UNCHANGED <<archive, backupClock, rotted, success, backupStatus>>
<1>. DEFINE x == [NoRun EXCEPT !.at = "select", !.own = startedAt + 1, !.success = success]
<1>0. startedAt + 1 \in Int /\ success \in SuccessType
  BY BackupsAssumption DEF BackupsTypeInv
<1>1. /\ x \in RunType /\ x.at = "select"
      /\ x.own = startedAt + 1 /\ x.success = success
  BY <1>0, RunStarted
<1>2. script' = [script EXCEPT ![r] = x]
  BY DEF StartBackup
<1>. HIDE DEF x
<1>3. /\ script' \in [Runs -> RunType]
      /\ script'[r] = x
      /\ \A q \in Runs \ {r} : script'[q] = script[q]
  BY <1>1, <1>2, ScriptSet
<1>4. startedAt' \in 0 .. MaxArchives
  BY BackupsAssumption DEF BackupsTypeInv, StartBackup
<1>. QED
  BY <1>1, <1>3, <1>4 DEF BackupsTypeInv, StartBackup, Running

LEMMA SelectEffect ==
    ASSUME BackupsTypeInv, NEW r \in Runs, SelectProtected(r)
    PROVE  /\ BackupsTypeInv'
           /\ script[r].at = "select"
           /\ script'[r].at = "expire"
           /\ script'[r].own = script[r].own
           /\ script'[r].success = script[r].success
           /\ script'[r].kept = Protected
           /\ \A q \in Runs \ {r} : script'[q] = script[q]
           /\ UNCHANGED <<archive, backupClock, rotted, success, backupStatus, startedAt>>
<1>. DEFINE L == {a \in Archives : There(a)}
            x == Selecting(script[r], Protected, L)
<1>1. Protected \in SUBSET Archives /\ L \in SUBSET Archives
  BY DEF Protected, Newest
<1>2. script[r] \in RunType
  BY DEF BackupsTypeInv
<1>3. script' = [script EXCEPT ![r] = x]
  BY DEF SelectProtected, Selecting
<1>. HIDE DEF L
<1>4. /\ x \in RunType /\ x.at = "expire"
      /\ x.own = script[r].own /\ x.success = script[r].success /\ x.kept = Protected
  BY <1>1, <1>2, RunSelected
<1>. HIDE DEF x
<1>5. /\ script' \in [Runs -> RunType]
      /\ script'[r] = x
      /\ \A q \in Runs \ {r} : script'[q] = script[q]
  BY <1>3, <1>4, ScriptSet
<1>. QED
  BY <1>4, <1>5 DEF BackupsTypeInv, SelectProtected

\* An archive that goes was there, listed and not chosen to be kept, and old.
LEMMA ExpireEffect ==
    ASSUME BackupsTypeInv, NEW r \in Runs, Expire(r)
    PROVE  /\ BackupsTypeInv'
           /\ script[r].at = "expire"
           /\ \A q \in Runs \ {r} : script'[q] = script[q]
           /\ script'[r] = script[r] \/ ~Running(r)'
           /\ \E a \in script[r].listed \ script[r].kept :
                /\ a \in Archives
                /\ There(a) /\ archive[a].made # backupClock
                /\ archive'[a].dump = "none"
                /\ \A b \in Archives \ {a} : archive'[b] = archive[b]
           /\ UNCHANGED <<backupClock, rotted, success, backupStatus, startedAt>>
<1>1. PICK a \in Expirable(r) :
         \/ archive' = [archive EXCEPT ![a] = NoArchive] /\ UNCHANGED script
         \/ archive' = [archive EXCEPT ![a].dump = "none"] /\ script' = [script EXCEPT ![r] = NoRun]
  BY DEF Expire
<1>2. script[r].listed \subseteq Archives
  BY DEF BackupsTypeInv, RunType
<1>3. /\ a \in script[r].listed \ script[r].kept /\ a \in Archives
      /\ There(a) /\ AgeInDays(a) > Retention
  BY <1>1, <1>2 DEF Expirable
<1>4. archive[a].made # backupClock
  <2>1. backupClock \in Int /\ archive[a].made \in Int
    BY <1>3 DEF BackupsTypeInv, ArchiveType
  <2>. QED
    BY <1>3, <2>1, BackupsAssumption DEF AgeInDays
<1>5. archive[a] \in ArchiveType
  BY <1>3 DEF BackupsTypeInv
<1>6. /\ archive' \in [Archives -> ArchiveType]
      /\ archive'[a].dump = "none"
      /\ \A b \in Archives \ {a} : archive'[b] = archive[b]
  <2>1. CASE archive' = [archive EXCEPT ![a] = NoArchive]
    BY <1>3, <2>1, NewArchive, ArchiveSet
  <2>2. CASE archive' = [archive EXCEPT ![a].dump = "none"]
    <3>. DEFINE x == [archive[a] EXCEPT !.dump = "none"]
    <3>1. x \in ArchiveType /\ x.dump = "none"
      BY <1>5, DumpSet
    <3>2. archive' = [archive EXCEPT ![a] = x]
      BY <2>2
    <3>. HIDE DEF x
    <3>. QED
      BY <1>3, <3>1, <3>2, ArchiveSet
  <2>. QED
    BY <1>1, <2>1, <2>2
<1>7. /\ script' \in [Runs -> RunType]
      /\ \A q \in Runs \ {r} : script'[q] = script[q]
      /\ script'[r] = script[r] \/ ~Running(r)'
  <2>1. CASE UNCHANGED script
    BY <2>1 DEF BackupsTypeInv
  <2>2. CASE script' = [script EXCEPT ![r] = NoRun]
    BY <2>2, NoRunEnds DEF Ends
  <2>. QED
    BY <1>1, <2>1, <2>2
<1>8. UNCHANGED <<backupClock, rotted, success, backupStatus, startedAt, drill>> /\ script[r].at = "expire"
  BY DEF Expire
<1>9. BackupsTypeInv'
  BY <1>6, <1>7, <1>8 DEF BackupsTypeInv
<1>. QED
  BY <1>3, <1>4, <1>6, <1>7, <1>8, <1>9

LEMMA CollectEffect ==
    ASSUME BackupsTypeInv, NEW r \in Runs, CollectOrphans(r)
    PROVE  /\ BackupsTypeInv'
           /\ Goes(r, "expire", "headroom")
           /\ \A a \in Archives :
                IF archive[a].dump = "none" THEN archive'[a].dump = "none" ELSE archive'[a] = archive[a]
           /\ UNCHANGED <<backupClock, rotted, success, backupStatus, startedAt>>
<1>1. Goes(r, "expire", "headroom")
  BY AtGoes DEF CollectOrphans, RunPlaces
<1>2. archive' = [a \in Archives |->
                     IF There(a) \/ archive[a].dump = "partial" THEN archive[a] ELSE NoArchive]
  BY DEF CollectOrphans
<1>3. \A a \in Archives : archive[a] \in ArchiveType
  BY DEF BackupsTypeInv
<1>4. \A a \in Archives : archive[a].dump \in {"none", "partial", "good", "rotten"}
  BY <1>3 DEF ArchiveType
<1>5. /\ archive' \in [Archives -> ArchiveType]
      /\ \A a \in Archives :
           IF archive[a].dump = "none" THEN archive'[a].dump = "none" ELSE archive'[a] = archive[a]
  BY <1>2, <1>3, <1>4, NewArchive DEF There
<1>6. UNCHANGED <<backupClock, rotted, success, backupStatus, startedAt, drill>>
  BY DEF CollectOrphans
<1>. QED
  BY <1>1, <1>5, <1>6 DEF BackupsTypeInv, Goes
\* One archive of the running script's own changes, and its run goes on.
OwnChanges(r) == \A b \in Archives \ {script[r].own} : archive'[b] = archive[b]

LEMMA DumpEffect ==
    ASSUME BackupsTypeInv, NEW r \in Runs, script[r].own \in Archives, Dump(r)
    PROVE  /\ BackupsTypeInv'
           /\ Goes(r, "headroom", "publish")
           /\ archive'[script[r].own].dump = "partial"
           /\ archive'[script[r].own].made = backupClock
           /\ OwnChanges(r)
           /\ UNCHANGED <<backupClock, rotted, success, backupStatus, startedAt>>
<1>. DEFINE x == [NoArchive EXCEPT !.dump = "partial", !.made = backupClock]
<1>1. Goes(r, "headroom", "publish")
  BY AtGoes DEF Dump, RunPlaces
<1>2. backupClock \in Int
  BY DEF BackupsTypeInv
<1>3. x \in ArchiveType /\ x.dump = "partial" /\ x.made = backupClock
  BY <1>2, NewArchive
<1>4. archive' = [archive EXCEPT ![script[r].own] = x]
  BY DEF Dump
<1>. HIDE DEF x
<1>5. /\ archive' \in [Archives -> ArchiveType]
      /\ archive'[script[r].own] = x
      /\ \A b \in Archives \ {script[r].own} : archive'[b] = archive[b]
  BY <1>3, <1>4, ArchiveSet
<1>6. UNCHANGED <<backupClock, rotted, success, backupStatus, startedAt, drill>>
  BY DEF Dump
<1>. QED
  BY <1>1, <1>3, <1>5, <1>6 DEF BackupsTypeInv, Goes, OwnChanges

LEMMA PublishDumpEffect ==
    ASSUME BackupsTypeInv, NEW r \in Runs, script[r].own \in Archives, PublishDump(r)
    PROVE  /\ BackupsTypeInv'
           /\ Goes(r, "publish", "counts")
           /\ archive'[script[r].own].dump = "good"
           /\ archive'[script[r].own].made = archive[script[r].own].made
           /\ OwnChanges(r)
           /\ UNCHANGED <<backupClock, rotted, success, backupStatus, startedAt>>
<1>. DEFINE x == [archive[script[r].own] EXCEPT !.dump = "good"]
<1>1. Goes(r, "publish", "counts")
  BY AtGoes DEF PublishDump, RunPlaces
<1>2. archive[script[r].own] \in ArchiveType
  BY DEF BackupsTypeInv
<1>3. x \in ArchiveType /\ x.dump = "good" /\ x.made = archive[script[r].own].made
  BY <1>2, DumpSet
<1>4. archive' = [archive EXCEPT ![script[r].own] = x]
  BY DEF PublishDump
<1>. HIDE DEF x
<1>5. /\ archive' \in [Archives -> ArchiveType]
      /\ archive'[script[r].own] = x
      /\ \A b \in Archives \ {script[r].own} : archive'[b] = archive[b]
  BY <1>3, <1>4, ArchiveSet
<1>6. UNCHANGED <<backupClock, rotted, success, backupStatus, startedAt, drill>>
  BY DEF PublishDump
<1>. QED
  BY <1>1, <1>3, <1>5, <1>6 DEF BackupsTypeInv, Goes, OwnChanges

LEMMA PublishCountsEffect ==
    ASSUME BackupsTypeInv, NEW r \in Runs, script[r].own \in Archives, PublishCounts(r)
    PROVE  /\ BackupsTypeInv'
           /\ Goes(r, "counts", "seal")
           /\ archive'[script[r].own].dump = archive[script[r].own].dump
           /\ archive'[script[r].own].counts
           /\ archive'[script[r].own].made = archive[script[r].own].made
           /\ OwnChanges(r)
           /\ UNCHANGED <<backupClock, rotted, success, backupStatus, startedAt>>
<1>. DEFINE y == archive[script[r].own]
            x == [y EXCEPT !.counts = TRUE]
<1>1. Goes(r, "counts", "seal")
  BY AtGoes DEF PublishCounts, RunPlaces
<1>2. y \in ArchiveType
  BY DEF BackupsTypeInv
<1>3. archive' = [archive EXCEPT ![script[r].own] = x]
  BY DEF PublishCounts
<1>. HIDE DEF y
<1>4. x \in ArchiveType /\ x.dump = y.dump /\ x.counts /\ x.made = y.made
  BY <1>2, FlagsSet
<1>. HIDE DEF x
<1>5. /\ archive' \in [Archives -> ArchiveType]
      /\ archive'[script[r].own] = x
      /\ \A b \in Archives \ {script[r].own} : archive'[b] = archive[b]
  BY <1>3, <1>4, ArchiveSet
<1>6. UNCHANGED <<backupClock, rotted, success, backupStatus, startedAt, drill>>
  BY DEF PublishCounts
<1>. QED
  BY <1>1, <1>4, <1>5, <1>6 DEF BackupsTypeInv, Goes, OwnChanges, y

LEMMA SealEffect ==
    ASSUME BackupsTypeInv, NEW r \in Runs, script[r].own \in Archives, Seal(r)
    PROVE  /\ BackupsTypeInv'
           /\ Goes(r, "seal", "record")
           /\ archive'[script[r].own].dump = archive[script[r].own].dump
           /\ archive'[script[r].own].counts = archive[script[r].own].counts
           /\ archive'[script[r].own].seal
           /\ archive'[script[r].own].made = archive[script[r].own].made
           /\ OwnChanges(r)
           /\ UNCHANGED <<backupClock, rotted, success, backupStatus, startedAt>>
<1>. DEFINE y == archive[script[r].own]
            x == [y EXCEPT !.seal = TRUE]
<1>1. Goes(r, "seal", "record")
  BY AtGoes DEF Seal, RunPlaces
<1>2. y \in ArchiveType
  BY DEF BackupsTypeInv
<1>3. archive' = [archive EXCEPT ![script[r].own] = x]
  BY DEF Seal
<1>. HIDE DEF y
<1>4. x \in ArchiveType /\ x.dump = y.dump /\ x.counts = y.counts /\ x.seal /\ x.made = y.made
  BY <1>2, FlagsSet
<1>. HIDE DEF x
<1>5. /\ archive' \in [Archives -> ArchiveType]
      /\ archive'[script[r].own] = x
      /\ \A b \in Archives \ {script[r].own} : archive'[b] = archive[b]
  BY <1>3, <1>4, ArchiveSet
<1>6. UNCHANGED <<backupClock, rotted, success, backupStatus, startedAt, drill>>
  BY DEF Seal
<1>. QED
  BY <1>1, <1>4, <1>5, <1>6 DEF BackupsTypeInv, Goes, OwnChanges, y

LEMMA RecordEffect ==
    ASSUME BackupsTypeInv, NEW r \in Runs, RecordSuccess(r)
    PROVE  /\ BackupsTypeInv'
           /\ script[r].at = "record"
           /\ script'[r].at = "report"
           /\ script'[r].own = script[r].own
           /\ script'[r].success = success'
           /\ \A q \in Runs \ {r} : script'[q] = script[q]
           /\ success'.of = script[r].own
           /\ UNCHANGED <<archive, backupClock, rotted, backupStatus, startedAt>>
<1>. DEFINE s == [time |-> backupClock, of |-> script[r].own]
            x == [script[r] EXCEPT !.at = "report", !.success = s]
<1>1. script[r] \in RunType
  BY DEF BackupsTypeInv
<1>2. s \in SuccessType /\ s.of = script[r].own
  BY <1>1 DEF BackupsTypeInv, SuccessType, RunType
<1>3. /\ script' = [script EXCEPT ![r] = x]
      /\ success' = s
  BY DEF RecordSuccess
<1>. HIDE DEF s
<1>4. /\ x \in RunType /\ x.at = "report"
      /\ x.own = script[r].own /\ x.success = s
  BY <1>1, <1>2, RunRecorded
<1>. HIDE DEF x
<1>5. /\ script' \in [Runs -> RunType]
      /\ script'[r] = x
      /\ \A q \in Runs \ {r} : script'[q] = script[q]
  BY <1>3, <1>4, ScriptSet
<1>. QED
  BY <1>2, <1>3, <1>4, <1>5 DEF BackupsTypeInv, RecordSuccess

LEMMA ReportEffect ==
    ASSUME BackupsTypeInv, NEW r \in Runs, Report(r)
    PROVE  /\ BackupsTypeInv'
           /\ Running(r)
           /\ Ends(r)
           /\ backupStatus'.success = script[r].success
           /\ UNCHANGED <<archive, backupClock, rotted, success, startedAt>>
<1>1. Ends(r)
  BY NoRunEnds DEF Report
<1>2. backupStatus'.success = script[r].success
  BY DEF Report
<1>3. script[r].success \in SuccessType
  BY DEF BackupsTypeInv, RunType
<1>. QED
  BY <1>1, <1>2, <1>3 DEF BackupsTypeInv, Report, Ends, Running

\* The trap removes what the run has dumped, if it is partial.
LEMMA FailEffect ==
    ASSUME BackupsTypeInv, NEW r \in Runs, FailBackup(r)
    PROVE  /\ BackupsTypeInv'
           /\ Running(r)
           /\ Ends(r)
           /\ backupStatus'.success = script[r].success
           /\ \A a \in Archives :
                \/ archive'[a] = archive[a]
                \/ a = script[r].own /\ archive[a].dump = "partial" /\ archive'[a].dump = "none"
           /\ UNCHANGED <<backupClock, rotted, success, startedAt>>
<1>1. Ends(r)
  BY NoRunEnds DEF FailBackup
<1>2. backupStatus'.success = script[r].success
  BY DEF FailBackup
<1>3. script[r].success \in SuccessType
  BY DEF BackupsTypeInv, RunType
<1>4. archive' = [a \in Archives |->
                     IF a = script[r].own /\ archive[a].dump = "partial" THEN NoArchive ELSE archive[a]]
  BY DEF FailBackup
<1>5. \A a \in Archives :
        \/ archive'[a] = archive[a]
        \/ a = script[r].own /\ archive[a].dump = "partial" /\ archive'[a].dump = "none"
  BY <1>4, NewArchive
<1>6. archive' \in [Archives -> ArchiveType]
  BY <1>4, NewArchive DEF BackupsTypeInv
<1>7. UNCHANGED <<backupClock, rotted, success, startedAt, drill>> /\ Running(r)
  BY DEF FailBackup, Running
<1>. QED
  BY <1>1, <1>2, <1>3, <1>5, <1>6, <1>7 DEF BackupsTypeInv, Ends

LEMMA RotEffect ==
    ASSUME BackupsTypeInv, NEW a \in Archives, Rot(a)
    PROVE  /\ BackupsTypeInv'
           /\ archive[a].dump = "good"
           /\ archive'[a].dump = "rotten"
           /\ archive'[a].counts = archive[a].counts
           /\ archive'[a].made = archive[a].made
           /\ \A b \in Archives \ {a} : archive'[b] = archive[b]
           /\ rotted' = rotted \cup {a}
           /\ \A r \in Runs : script[r].at # "expire"
           /\ UNCHANGED <<backupClock, script, success, backupStatus, startedAt>>
<1>. DEFINE y == archive[a]
            x == [y EXCEPT !.dump = "rotten"]
<1>1. y \in ArchiveType
  BY DEF BackupsTypeInv
<1>2. archive' = [archive EXCEPT ![a] = x]
  BY DEF Rot
<1>. HIDE DEF y
<1>3. x \in ArchiveType /\ x.dump = "rotten" /\ x.counts = y.counts /\ x.made = y.made
  BY <1>1, DumpSet
<1>. HIDE DEF x
<1>4. /\ archive' \in [Archives -> ArchiveType]
      /\ archive'[a] = x
      /\ \A b \in Archives \ {a} : archive'[b] = archive[b]
  BY <1>2, <1>3, ArchiveSet
<1>5. /\ rotted' = rotted \cup {a} /\ archive[a].dump = "good"
      /\ \A r \in Runs : script[r].at # "expire"
      /\ UNCHANGED <<backupClock, script, success, backupStatus, startedAt, drill>>
  BY DEF Rot
<1>. QED
  BY <1>3, <1>4, <1>5 DEF BackupsTypeInv, y

LEMMA MarkEffect ==
    ASSUME BackupsTypeInv, MarkVerified
    PROVE  /\ BackupsTypeInv'
           /\ \A a \in Archives :
                /\ archive'[a].dump = archive[a].dump
                /\ archive'[a].counts = archive[a].counts
                /\ archive'[a].seal = archive[a].seal
                /\ archive'[a].made = archive[a].made
           /\ UNCHANGED <<backupClock, rotted, script, success, backupStatus, startedAt>>
<1>. DEFINE a == drill.of
            y == archive[a]
            x == [y EXCEPT !.drilled = TRUE]
<1>1. a \in Archives /\ y \in ArchiveType
  BY DEF BackupsTypeInv, MarkVerified
<1>2. archive' = [archive EXCEPT ![a] = x]
  BY DEF MarkVerified
<1>3. UNCHANGED <<backupClock, rotted, script, success, backupStatus, startedAt>>
  BY DEF MarkVerified
<1>4. drill'.at = "off" \/ drill' = drill
  BY DEF MarkVerified
<1>. HIDE DEF y
<1>5. /\ x \in ArchiveType /\ x.dump = y.dump /\ x.counts = y.counts
      /\ x.seal = y.seal /\ x.made = y.made
  BY <1>1, FlagsSet
<1>. HIDE DEF x, a
<1>6. /\ archive' \in [Archives -> ArchiveType]
      /\ archive'[a] = x
      /\ \A b \in Archives \ {a} : archive'[b] = archive[b]
  BY <1>1, <1>2, <1>5, ArchiveSet
<1>. QED
  BY <1>1, <1>3, <1>4, <1>5, <1>6 DEF BackupsTypeInv, y

\* The other actions change no archive.
Idle ==
    \/ BackupTick
    \/ \E r \in Runs : KillBackup(r)
    \/ \E a \in Archives : StartDrill(a)
    \/ RestoreAndCount

LEMMA IdleEffect ==
    ASSUME BackupsTypeInv, Idle
    PROVE  /\ BackupsTypeInv'
           /\ \/ script' = script
              \/ \E r \in Runs : Running(r) /\ Ends(r)
           /\ \/ backupClock' = backupClock
              \/ \A r \in Runs :
                    script'[r] = script[r] /\ script[r].at \notin {"expire", "publish", "counts", "seal"}
           /\ UNCHANGED <<archive, rotted, success, backupStatus, startedAt>>
<1>1. CASE BackupTick
  BY <1>1 DEF BackupTick, BackupsTypeInv
<1>2. ASSUME NEW r \in Runs, KillBackup(r)
      PROVE  BackupsTypeInv' /\ Running(r) /\ Ends(r) /\ backupClock' = backupClock
  <2>1. Ends(r)
    BY <1>2, NoRunEnds DEF KillBackup
  <2>. QED
    BY <1>2, <2>1 DEF KillBackup, BackupsTypeInv, Ends, Running
<1>3. ASSUME NEW a \in Archives, StartDrill(a)
      PROVE  BackupsTypeInv'
  BY <1>3 DEF StartDrill, BackupsTypeInv
<1>4. CASE RestoreAndCount
  BY <1>4 DEF RestoreAndCount, BackupsTypeInv
<1>. QED
  BY <1>1, <1>2, <1>3, <1>4 DEF Idle, BackupTick, KillBackup, StartDrill, RestoreAndCount

\* A step is one of these.
LEMMA StepCases ==
    ASSUME BackupsNext
    PROVE  \/ Idle
           \/ MarkVerified
           \/ \E a \in Archives : Rot(a)
           \/ \E r \in Runs :
                \/ StartBackup(r) \/ SelectProtected(r) \/ Expire(r) \/ CollectOrphans(r)
                \/ Dump(r) \/ PublishDump(r) \/ PublishCounts(r) \/ Seal(r)
                \/ RecordSuccess(r) \/ Report(r) \/ FailBackup(r)
BY Zenon DEF BackupsNext, Idle

-----------------------------------------------------------------------------
(* The archive of a run *)

LEMMA OwnIsArchive ==
    ASSUME BackupsTypeInv, RunsOwn, NEW r \in Runs, Running(r)
    PROVE  script[r].own \in Archives
BY BackupsAssumption DEF BackupsTypeInv, RunsOwn, Archives

\* Where only one run moves on, or ends, every run keeps an archive of its own.
LEMMA OwnsKept ==
    ASSUME RunsOwn, NEW r \in Runs, startedAt' = startedAt, Running(r),
           Running(r)' => script'[r].own = script[r].own,
           \A q \in Runs \ {r} : script'[q] = script[q]
    PROVE  RunsOwn'
BY DEF RunsOwn, Running

LEMMA OthersOwn ==
    ASSUME RunsOwn, NEW r \in Runs, NEW q \in Runs \ {r}, Running(r), Running(q)
    PROVE  script[q].own # script[r].own
BY DEF RunsOwn

\* A run that has not moved finds its archive as it was.
LEMMA OwnOkKept ==
    ASSUME NEW q \in Runs, OwnOk(q), script'[q] = script[q], backupClock' = backupClock,
           archive'[script[q].own] = archive[script[q].own]
    PROVE  OwnOk(q)'
BY DEF OwnOk

LEMMA OthersOk ==
    ASSUME BackupsTypeInv, RunsOwn, OwnArchive, NEW r \in Runs, Running(r),
           backupClock' = backupClock,
           \A q \in Runs \ {r} : script'[q] = script[q], OwnChanges(r)
    PROVE  \A q \in Runs \ {r} : OwnOk(q)'
<1>. SUFFICES ASSUME NEW q \in Runs \ {r}
              PROVE  OwnOk(q)'
  OBVIOUS
<1>1. CASE Running(q)
  <2>1. script[q].own \in Archives \ {script[r].own}
    BY <1>1, OwnIsArchive, OthersOwn
  <2>2. archive'[script[q].own] = archive[script[q].own]
    BY <2>1 DEF OwnChanges
  <2>. QED
    BY <2>2, OwnOkKept DEF OwnArchive
<1>2. CASE ~Running(q)
  BY <1>2 DEF OwnOk, Running
<1>. QED
  BY <1>1, <1>2

OwnInv == RunsOwn /\ OwnArchive /\ ArchivesKnown

\* What a step that changes the running script's archive must show.
LEMMA OwnStep ==
    ASSUME BackupsTypeInv, OwnInv, NEW r \in Runs, Running(r),
           UNCHANGED <<backupClock, rotted, startedAt>>,
           script'[r].own = script[r].own,
           \A q \in Runs \ {r} : script'[q] = script[q], OwnChanges(r),
           OwnOk(r)',
           archive'[script[r].own].dump = "rotten" => script[r].own \in rotted
    PROVE  OwnInv'
<1>1. RunsOwn' /\ script[r].own \in 1 .. startedAt
  BY OwnsKept DEF OwnInv, RunsOwn
<1>2. OwnArchive'
  BY OthersOk DEF OwnInv, OwnArchive
<1>3. ArchivesKnown'
  <2>. SUFFICES ASSUME NEW a \in Archives
                PROVE  /\ a > startedAt => archive'[a].dump = "none"
                       /\ archive'[a].dump = "rotten" => a \in rotted
    BY DEF ArchivesKnown
  <2>1. CASE a = script[r].own
    <3>1. ~(a > startedAt)
      BY <1>1, <2>1 DEF BackupsTypeInv
    <3>. QED
      BY <2>1, <3>1
  <2>2. CASE a # script[r].own
    BY <2>2 DEF OwnChanges, OwnInv, ArchivesKnown
  <2>. QED
    BY <2>1, <2>2
<1>. QED
  BY <1>1, <1>2, <1>3 DEF OwnInv

LEMMA OwnInvKept ==
    ASSUME BackupsTypeInv, OwnInv, BackupsNext
    PROVE  OwnInv'
<1>. USE DEF OwnInv
<1>1. CASE Idle
  <2>1. /\ \/ script' = script
           \/ \E r \in Runs : Running(r) /\ Ends(r)
        /\ \/ backupClock' = backupClock
           \/ \A r \in Runs :
                 script'[r] = script[r] /\ script[r].at \notin {"expire", "publish", "counts", "seal"}
        /\ UNCHANGED <<archive, rotted, startedAt>>
    BY <1>1, IdleEffect
  <2>2. ASSUME NEW q \in Runs
        PROVE  script'[q] = script[q] \/ ~Running(q)'
    BY <2>1 DEF Ends
  <2>3. RunsOwn'
    BY <2>1, <2>2 DEF RunsOwn, Running
  <2>4. OwnArchive'
    <3>. SUFFICES ASSUME NEW q \in Runs
                  PROVE  OwnOk(q)'
      BY DEF OwnArchive
    <3>1. CASE ~Running(q)'
      BY <3>1 DEF OwnOk, Running
    <3>2. CASE script'[q] = script[q]
      BY <2>1, <3>2 DEF OwnArchive, OwnOk
    <3>. QED
      BY <2>2, <3>1, <3>2
  <2>5. ArchivesKnown'
    BY <2>1 DEF ArchivesKnown
  <2>. QED
    BY <2>3, <2>4, <2>5
<1>2. CASE MarkVerified
  <2>1. /\ \A a \in Archives :
             /\ archive'[a].dump = archive[a].dump
             /\ archive'[a].counts = archive[a].counts
             /\ archive'[a].made = archive[a].made
        /\ UNCHANGED <<backupClock, rotted, script, startedAt>>
    BY <1>2, MarkEffect
  <2>2. RunsOwn'
    BY <2>1 DEF RunsOwn, Running
  <2>3. OwnArchive'
    BY <2>1, OwnIsArchive DEF OwnArchive, OwnOk, Running
  <2>4. ArchivesKnown'
    BY <2>1 DEF ArchivesKnown
  <2>. QED
    BY <2>2, <2>3, <2>4
<1>3. ASSUME NEW a \in Archives, Rot(a)
      PROVE  OwnInv'
  <2>1. /\ archive[a].dump = "good"
        /\ archive'[a].dump = "rotten"
        /\ archive'[a].counts = archive[a].counts
        /\ archive'[a].made = archive[a].made
        /\ \A b \in Archives \ {a} : archive'[b] = archive[b]
        /\ rotted' = rotted \cup {a}
        /\ UNCHANGED <<backupClock, script, startedAt>>
    BY <1>3, RotEffect
  <2>2. RunsOwn'
    BY <2>1 DEF RunsOwn, Running
  <2>3. ASSUME NEW q \in Runs
        PROVE  OwnOk(q)'
    <3>1. CASE ~Running(q)
      BY <2>1, <3>1 DEF OwnOk, Running
    <3>2. CASE Running(q) /\ script[q].own = a
      BY <2>1, <3>2 DEF OwnArchive, OwnOk
    <3>3. CASE Running(q) /\ script[q].own # a
      BY <2>1, <3>3, OwnIsArchive DEF OwnArchive, OwnOk
    <3>. QED
      BY <3>1, <3>2, <3>3
  <2>4. ArchivesKnown'
    BY <2>1 DEF ArchivesKnown
  <2>. QED
    BY <2>2, <2>3, <2>4 DEF OwnArchive
<1>4. ASSUME NEW r \in Runs, StartBackup(r)
      PROVE  OwnInv'
  <2>1. /\ ~Running(r)
        /\ script'[r].at = "select"
        /\ script'[r].own = startedAt + 1
        /\ \A q \in Runs \ {r} : script'[q] = script[q]
        /\ startedAt' = startedAt + 1
        /\ UNCHANGED <<archive, backupClock, rotted>>
    BY <1>4, StartEffect
  <2>2. startedAt \in Nat /\ startedAt + 1 \in Archives
    BY <1>4, BackupsAssumption DEF BackupsTypeInv, StartBackup, Archives
  <2>3. ASSUME NEW q \in Runs \ {r}, Running(q)'
        PROVE  script'[q].own \in 1 .. startedAt /\ Running(q)
    BY <2>1, <2>3 DEF RunsOwn, Running
  <2>4. RunsOwn'
    <3>. SUFFICES ASSUME NEW p \in Runs, Running(p)'
                  PROVE  /\ script'[p].own \in 1 .. startedAt + 1
                         /\ \A q \in Runs : Running(q)' /\ script'[q].own = script'[p].own => q = p
      BY <2>1 DEF RunsOwn
    <3>1. script'[p].own \in 1 .. startedAt + 1
      BY <2>1, <2>2, <2>3
    <3>2. ASSUME NEW q \in Runs, Running(q)', script'[q].own = script'[p].own
          PROVE  q = p
      <4>1. CASE q = r \/ p = r
        BY <2>1, <2>2, <2>3, <3>2, <4>1
      <4>2. CASE q # r /\ p # r
        BY <2>1, <2>3, <3>2, <4>2 DEF RunsOwn
      <4>. QED
        BY <4>1, <4>2
    <3>. QED
      BY <3>1, <3>2
  <2>5. OwnArchive'
    <3>1. OwnOk(r)'
      BY <2>1, <2>2 DEF OwnOk, ArchivesKnown
    <3>2. ASSUME NEW q \in Runs \ {r}
          PROVE  OwnOk(q)'
      BY <2>1 DEF OwnArchive, OwnOk
    <3>. QED
      BY <3>1, <3>2 DEF OwnArchive
  <2>6. ArchivesKnown'
    BY <2>1, <2>2 DEF ArchivesKnown, Archives
  <2>. QED
    BY <2>4, <2>5, <2>6
<1>5. ASSUME NEW r \in Runs, SelectProtected(r)
      PROVE  OwnInv'
  <2>1. /\ script[r].at = "select" /\ script'[r].at = "expire" /\ script'[r].own = script[r].own
        /\ \A q \in Runs \ {r} : script'[q] = script[q]
        /\ UNCHANGED <<archive, backupClock, rotted, startedAt>>
    BY <1>5, SelectEffect
  <2>2. OwnOk(r)'
    BY <2>1 DEF OwnArchive, OwnOk
  <2>3. Running(r) /\ OwnChanges(r) /\ script[r].own \in Archives
    BY <2>1, OwnIsArchive DEF Running, OwnChanges
  <2>. QED
    BY <2>1, <2>2, <2>3, OwnStep DEF ArchivesKnown
<1>6. ASSUME NEW r \in Runs, Expire(r)
      PROVE  OwnInv'
  <2>1. /\ script[r].at = "expire"
        /\ \A q \in Runs \ {r} : script'[q] = script[q]
        /\ script'[r] = script[r] \/ ~Running(r)'
        /\ UNCHANGED <<backupClock, rotted, startedAt>>
    BY <1>6, ExpireEffect
  <2>2. PICK a \in Archives :
          /\ There(a) /\ archive[a].made # backupClock
          /\ archive'[a].dump = "none"
          /\ \A b \in Archives \ {a} : archive'[b] = archive[b]
    BY <1>6, ExpireEffect
  <2>3. RunsOwn'
    BY <2>1, OwnsKept DEF Running
  <2>4. ASSUME NEW q \in Runs
        PROVE  OwnOk(q)'
    <3>1. CASE ~Running(q)'
      BY <3>1 DEF OwnOk, Running
    <3>2. CASE Running(q)' /\ script[q].own # a
      BY <2>1, <2>2, <3>2, OwnIsArchive DEF OwnArchive, OwnOk, Running
    <3>3. CASE Running(q)' /\ script[q].own = a
      BY <2>1, <2>2, <3>3 DEF OwnArchive, OwnOk, Running, There
    <3>. QED
      BY <3>1, <3>2, <3>3
  <2>5. ArchivesKnown'
    BY <2>1, <2>2 DEF ArchivesKnown
  <2>. QED
    BY <2>3, <2>4, <2>5 DEF OwnArchive
<1>7. ASSUME NEW r \in Runs, CollectOrphans(r)
      PROVE  OwnInv'
  <2>1. /\ script[r].at = "expire" /\ script'[r].at = "headroom" /\ script'[r].own = script[r].own
        /\ \A q \in Runs \ {r} : script'[q] = script[q]
        /\ \A a \in Archives :
             IF archive[a].dump = "none" THEN archive'[a].dump = "none" ELSE archive'[a] = archive[a]
        /\ UNCHANGED <<backupClock, rotted, startedAt>>
    BY <1>7, CollectEffect DEF Goes
  <2>2. RunsOwn'
    BY <2>1, OwnsKept DEF Running
  <2>3. ASSUME NEW q \in Runs
        PROVE  OwnOk(q)'
    <3>1. CASE ~Running(q)
      BY <2>1, <3>1 DEF OwnOk, Running
    <3>2. CASE q = r
      BY <2>1, <3>2, OwnIsArchive DEF OwnArchive, OwnOk, Running
    <3>3. CASE q # r /\ Running(q)
      BY <2>1, <3>3, OwnIsArchive DEF OwnArchive, OwnOk, Running
    <3>. QED
      BY <3>1, <3>2, <3>3
  <2>4. ArchivesKnown'
    BY <2>1 DEF ArchivesKnown
  <2>. QED
    BY <2>2, <2>3, <2>4 DEF OwnArchive
<1>8. ASSUME NEW r \in Runs, Dump(r)
      PROVE  OwnInv'
  <2>1. Running(r) /\ script[r].own \in Archives
    BY <1>8, OwnIsArchive DEF Dump, At, Running
  <2>2. /\ Goes(r, "headroom", "publish")
        /\ archive'[script[r].own].dump = "partial"
        /\ archive'[script[r].own].made = backupClock
        /\ OwnChanges(r)
        /\ UNCHANGED <<backupClock, rotted, startedAt>>
    BY <1>8, <2>1, DumpEffect
  <2>3. OwnOk(r)'
    BY <2>2 DEF Goes, OwnOk
  <2>. QED
    BY <2>1, <2>2, <2>3, OwnStep DEF Goes
<1>9. ASSUME NEW r \in Runs, PublishDump(r)
      PROVE  OwnInv'
  <2>1. Running(r) /\ script[r].own \in Archives
    BY <1>9, OwnIsArchive DEF PublishDump, At, Running
  <2>2. /\ Goes(r, "publish", "counts")
        /\ archive'[script[r].own].dump = "good"
        /\ archive'[script[r].own].made = archive[script[r].own].made
        /\ OwnChanges(r)
        /\ UNCHANGED <<backupClock, rotted, startedAt>>
    BY <1>9, <2>1, PublishDumpEffect
  <2>3. OwnOk(r)'
    BY <2>2 DEF Goes, OwnArchive, OwnOk
  <2>. QED
    BY <2>1, <2>2, <2>3, OwnStep DEF Goes
<1>10. ASSUME NEW r \in Runs, PublishCounts(r)
       PROVE  OwnInv'
  <2>1. Running(r) /\ script[r].own \in Archives
    BY <1>10, OwnIsArchive DEF PublishCounts, At, Running
  <2>2. /\ Goes(r, "counts", "seal")
        /\ archive'[script[r].own].dump = archive[script[r].own].dump
        /\ archive'[script[r].own].counts
        /\ archive'[script[r].own].made = archive[script[r].own].made
        /\ OwnChanges(r)
        /\ UNCHANGED <<backupClock, rotted, startedAt>>
    BY <1>10, <2>1, PublishCountsEffect
  <2>3. OwnOk(r)'
    BY <2>2 DEF Goes, OwnArchive, OwnOk
  <2>. QED
    BY <2>1, <2>2, <2>3, OwnStep DEF Goes, ArchivesKnown
<1>11. ASSUME NEW r \in Runs, Seal(r)
       PROVE  OwnInv'
  <2>1. Running(r) /\ script[r].own \in Archives
    BY <1>11, OwnIsArchive DEF Seal, At, Running
  <2>2. /\ Goes(r, "seal", "record")
        /\ archive'[script[r].own].dump = archive[script[r].own].dump
        /\ OwnChanges(r)
        /\ UNCHANGED <<backupClock, rotted, startedAt>>
    BY <1>11, <2>1, SealEffect
  <2>3. OwnOk(r)'
    BY <2>2 DEF Goes, OwnOk
  <2>. QED
    BY <2>1, <2>2, <2>3, OwnStep DEF Goes, ArchivesKnown
<1>12. ASSUME NEW r \in Runs, RecordSuccess(r)
       PROVE  OwnInv'
  <2>1. /\ script[r].at = "record" /\ script'[r].at = "report" /\ script'[r].own = script[r].own
        /\ \A q \in Runs \ {r} : script'[q] = script[q]
        /\ UNCHANGED <<archive, backupClock, rotted, startedAt>>
    BY <1>12, RecordEffect
  <2>2. OwnOk(r)'
    BY <2>1 DEF OwnOk
  <2>3. Running(r) /\ OwnChanges(r) /\ script[r].own \in Archives
    BY <2>1, OwnIsArchive DEF Running, OwnChanges
  <2>. QED
    BY <2>1, <2>2, <2>3, OwnStep DEF ArchivesKnown
<1>13. ASSUME NEW r \in Runs, Report(r) \/ FailBackup(r)
       PROVE  OwnInv'
  <2>1. /\ Running(r) /\ ~Running(r)'
        /\ \A q \in Runs \ {r} : script'[q] = script[q]
        /\ \A a \in Archives :
             \/ archive'[a] = archive[a]
             \/ a = script[r].own /\ archive[a].dump = "partial" /\ archive'[a].dump = "none"
        /\ UNCHANGED <<backupClock, rotted, startedAt>>
    BY <1>13, ReportEffect, FailEffect DEF Ends
  <2>2. OwnChanges(r)
    BY <2>1 DEF OwnChanges
  <2>3. RunsOwn'
    BY <2>1, OwnsKept
  <2>4. OwnOk(r)'
    BY <2>1 DEF OwnOk, Running
  <2>5. \A q \in Runs \ {r} : OwnOk(q)'
    BY <2>1, <2>2, OthersOk
  <2>6. ArchivesKnown'
    BY <2>1 DEF ArchivesKnown
  <2>. QED
    BY <2>3, <2>4, <2>5, <2>6 DEF OwnArchive
<1>. HIDE DEF OwnInv
<1>. QED
  BY <1>1, <1>2, <1>3, <1>4, <1>5, <1>6, <1>7, <1>8, <1>9, <1>10, <1>11, <1>12, <1>13, StepCases

-----------------------------------------------------------------------------
(* What becomes of the archives that verify *)

Safe == BackupsTypeInv /\ OwnInv /\ ExpiryIsSafe

\* An archive that no longer verifies is covered, or the disk has damaged it,
\* which it does not while a run chooses what to expire.
LEMMA Lost ==
    ASSUME Safe, BackupsNext, NEW a \in Archives, Verified(a), ~Verified(a)'
    PROVE  Covered(a)' \/ (a \in rotted' /\ \A r \in Runs : script[r].at # "expire")
<1>. USE DEF Safe
<1>0. archive[a].dump = "good" /\ archive'[a] # archive[a]
  BY DEF Verified
<1>1. CASE Idle
  BY <1>0, <1>1, IdleEffect
<1>2. CASE MarkVerified
  BY <1>2, MarkEffect DEF Verified
<1>3. ASSUME NEW b \in Archives, Rot(b)
      PROVE  a \in rotted' /\ \A r \in Runs : script[r].at # "expire"
  BY <1>0, <1>3, RotEffect
<1>4. ASSUME NEW r \in Runs, StartBackup(r) \/ SelectProtected(r) \/ RecordSuccess(r) \/ Report(r)
      PROVE  FALSE
  BY <1>0, <1>4, StartEffect, SelectEffect, RecordEffect, ReportEffect
<1>5. ASSUME NEW r \in Runs, Expire(r)
      PROVE  Covered(a)'
  <2>1. script[r].at = "expire" /\ backupClock' = backupClock
    BY <1>5, ExpireEffect
  <2>2. PICK c \in script[r].listed \ script[r].kept :
          /\ c \in Archives
          /\ archive[c].made # backupClock
          /\ \A b \in Archives \ {c} : archive'[b] = archive[b]
    BY <1>5, ExpireEffect
  <2>3. a = c
    BY <1>0, <2>2
  <2>4. Covered(a)
    BY <2>1, <2>2, <2>3 DEF ExpiryIsSafe
  <2>5. \A b \in Archives : b > a => (Verified(b)' <=> Verified(b))
    <3>1. ASSUME NEW b \in Archives, b > a
          PROVE  archive'[b] = archive[b]
      BY <2>2, <2>3, <3>1 DEF Archives
    <3>. QED
      BY <3>1 DEF Verified
  <2>6. Above(a)' = Above(a)
    BY <2>5 DEF Above
  <2>. QED
    BY <2>4, <2>6 DEF Covered
<1>6. ASSUME NEW r \in Runs, CollectOrphans(r)
      PROVE  FALSE
  BY <1>0, <1>6, CollectEffect
<1>7. ASSUME NEW r \in Runs, Dump(r) \/ PublishDump(r)
      PROVE  FALSE
  <2>1. Running(r) /\ script[r].own \in Archives
    BY <1>7, OwnIsArchive DEF OwnInv, Dump, PublishDump, At, Running
  <2>2. OwnChanges(r) /\ script[r].at \in {"headroom", "publish"}
    BY <1>7, <2>1, DumpEffect, PublishDumpEffect DEF Goes
  <2>3. archive[script[r].own].dump \in {"none", "partial"}
    BY <2>2 DEF OwnInv, OwnArchive, OwnOk
  <2>. QED
    BY <1>0, <2>1, <2>2, <2>3 DEF OwnChanges
<1>8. ASSUME NEW r \in Runs, PublishCounts(r)
      PROVE  FALSE
  <2>1. Running(r) /\ script[r].own \in Archives
    BY <1>8, OwnIsArchive DEF OwnInv, PublishCounts, At, Running
  <2>2. a = script[r].own
    BY <1>0, <1>8, <2>1, PublishCountsEffect DEF OwnChanges
  <2>3. archive'[a] = [archive[a] EXCEPT !.counts = TRUE]
    BY <1>8, <2>2 DEF PublishCounts, BackupsTypeInv
  <2>4. archive[a] \in ArchiveType
    BY DEF BackupsTypeInv
  <2>5. archive'[a].seal = archive[a].seal
    BY <2>3, <2>4 DEF ArchiveType
  <2>6. archive'[a].dump = archive[a].dump /\ archive'[a].counts
    BY <1>8, <2>1, <2>2, PublishCountsEffect
  <2>. QED
    BY <2>5, <2>6 DEF Verified
<1>9. ASSUME NEW r \in Runs, Seal(r)
      PROVE  FALSE
  <2>1. Running(r) /\ script[r].own \in Archives
    BY <1>9, OwnIsArchive DEF OwnInv, Seal, At, Running
  <2>. QED
    BY <1>0, <1>9, <2>1, SealEffect DEF OwnChanges, Verified
<1>10. ASSUME NEW r \in Runs, FailBackup(r)
       PROVE  FALSE
  BY <1>0, <1>10, FailEffect
<1>. QED
  BY <1>1, <1>2, <1>3, <1>4, <1>5, <1>6, <1>7, <1>8, <1>9, <1>10, StepCases DEF Verified

\* An archive that begins to verify was made just now.
LEMMA Gained ==
    ASSUME Safe, BackupsNext, NEW a \in Archives, Verified(a)'
    PROVE  archive'[a].made = backupClock' \/ (Verified(a) /\ archive'[a].made = archive[a].made)
<1>. USE DEF Safe
<1>0. archive'[a].dump = "good"
  BY DEF Verified
<1>1. ASSUME archive'[a] = archive[a]
      PROVE  Verified(a) /\ archive'[a].made = archive[a].made
  BY <1>1 DEF Verified
<1>2. CASE Idle
  BY <1>1, <1>2, IdleEffect
<1>3. CASE MarkVerified
  BY <1>3, MarkEffect DEF Verified
<1>4. ASSUME NEW b \in Archives, Rot(b)
      PROVE  archive'[a] = archive[a]
  BY <1>0, <1>4, RotEffect
<1>5. ASSUME NEW r \in Runs, StartBackup(r) \/ SelectProtected(r) \/ RecordSuccess(r) \/ Report(r)
      PROVE  archive'[a] = archive[a]
  BY <1>5, StartEffect, SelectEffect, RecordEffect, ReportEffect
<1>6. ASSUME NEW r \in Runs, Expire(r) \/ CollectOrphans(r) \/ FailBackup(r)
      PROVE  archive'[a] = archive[a]
  BY <1>0, <1>6, ExpireEffect, CollectEffect, FailEffect
<1>7. ASSUME NEW r \in Runs, Dump(r) \/ PublishDump(r) \/ PublishCounts(r) \/ Seal(r)
      PROVE  archive'[a] = archive[a] \/ archive'[a].made = backupClock'
  <2>1. Running(r) /\ script[r].own \in Archives
    BY <1>7, OwnIsArchive DEF OwnInv, Dump, PublishDump, PublishCounts, Seal, At, Running
  <2>2. script[r].at \in {"publish", "counts", "seal"} => archive[script[r].own].made = backupClock
    BY DEF OwnInv, OwnArchive, OwnOk
  <2>3. /\ OwnChanges(r) /\ backupClock' = backupClock
        /\ archive'[script[r].own].made = backupClock
    BY <1>7, <2>1, <2>2, DumpEffect, PublishDumpEffect, PublishCountsEffect, SealEffect DEF Goes
  <2>. QED
    BY <2>3 DEF OwnChanges
<1>. QED
  BY <1>1, <1>2, <1>3, <1>4, <1>5, <1>6, <1>7, StepCases

\* While a run expires, what is covered stays covered: what has gone of the
\* newer archives was itself covered by newer ones.
LEMMA StaysCovered ==
    ASSUME Safe, BackupsNext, NEW a \in Archives, Covered(a),
           NEW r \in Runs, script[r].at = "expire"
    PROVE  Covered(a)'
<1>1. Above(a)' \in SUBSET Archives
  BY DEF Above
<1>2. CASE Above(a) \subseteq Above(a)'
  BY <1>1, <1>2, MoreCover DEF Covered
<1>3. CASE \E b \in Above(a) : b \notin Above(a)'
  <2>1. PICK b \in Archives : b > a /\ Verified(b) /\ ~Verified(b)'
    BY <1>3 DEF Above
  <2>2. Covered(b)'
    BY <2>1, Lost
  <2>3. Above(b)' \subseteq Above(a)'
    BY <2>1 DEF Above, Archives
  <2>. QED
    BY <1>1, <2>2, <2>3, MoreCover DEF Covered
<1>. QED
  BY <1>2, <1>3

\* Of what verifies, a run that begins to expire gives up what is covered.
LEMMA SelectionIsSafe ==
    ASSUME NEW a \in Archives, Verified(a), a \notin Protected
    PROVE  Covered(a)
<1>. DEFINE S == {b \in Archives : There(b) /\ Verified(b)}
            T == {b \in S : b > a}
<1>1. a \in S /\ T = Above(a)
  BY DEF Above, Verified, There
<1>2. ~(Cardinality(T) < Keep)
  BY <1>1 DEF Protected, Newest
<1>3. IsFiniteSet(Archives)
  BY BackupsAssumption, FS_Interval DEF Archives
<1>4. IsFiniteSet(Above(a)) /\ Cardinality(Above(a)) \in Nat
  BY <1>3, FS_Subset, FS_CardinalityType DEF Above
<1>. HIDE DEF T
<1>. QED
  BY <1>1, <1>2, <1>4, BackupsAssumption DEF Covered

LEMMA ExpiryKept ==
    ASSUME Safe, BackupsNext, BackupsTypeInv'
    PROVE  ExpiryIsSafe'
<1>. SUFFICES ASSUME NEW r \in Runs, script'[r].at = "expire",
                     NEW a \in script'[r].listed \ script'[r].kept,
                     Verified(a)', archive'[a].made # backupClock'
              PROVE  Covered(a)'
  BY DEF ExpiryIsSafe
<1>1. a \in Archives
  BY DEF BackupsTypeInv, RunType
<1>2. Verified(a) /\ archive'[a].made = archive[a].made
  BY <1>1, Gained
<1>3. \/ script'[r] = script[r]
      \/ SelectProtected(r)
  <2>1. CASE Idle
    BY <2>1, IdleEffect DEF Safe, Ends, Running
  <2>2. CASE MarkVerified \/ \E b \in Archives : Rot(b)
    BY <2>2, MarkEffect, RotEffect DEF Safe
  <2>3. ASSUME NEW q \in Runs,
               \/ StartBackup(q) \/ SelectProtected(q) \/ RecordSuccess(q)
               \/ Report(q) \/ FailBackup(q) \/ Expire(q)
        PROVE  script'[r] = script[r] \/ SelectProtected(r)
    BY <2>3, StartEffect, SelectEffect, RecordEffect, ReportEffect, FailEffect, ExpireEffect
       DEF Safe, Ends, Running
  <2>4. ASSUME NEW q \in Runs, CollectOrphans(q)
        PROVE  script'[r] = script[r]
    BY <2>4, CollectEffect DEF Safe, Goes
  <2>5. ASSUME NEW q \in Runs, Dump(q) \/ PublishDump(q) \/ PublishCounts(q) \/ Seal(q)
        PROVE  script'[r] = script[r]
    <3>1. Running(q) /\ script[q].own \in Archives
      BY <2>5, OwnIsArchive DEF Safe, OwnInv, Dump, PublishDump, PublishCounts, Seal, At, Running
    <3>. QED
      BY <2>5, <3>1, DumpEffect, PublishDumpEffect, PublishCountsEffect, SealEffect DEF Safe, Goes
  <2>. QED
    BY <2>1, <2>2, <2>3, <2>4, <2>5, StepCases
<1>4. CASE SelectProtected(r)
  <2>1. script'[r].kept = Protected /\ archive' = archive
    BY <1>4, SelectEffect DEF Safe
  <2>2. Covered(a)
    BY <1>1, <1>2, <2>1, SelectionIsSafe
  <2>3. Above(a)' = Above(a)
    BY <2>1 DEF Above, Verified
  <2>. QED
    BY <2>2, <2>3 DEF Covered
<1>5. CASE script'[r] = script[r] /\ ~SelectProtected(r)
  <2>1. script[r].at = "expire"
    BY <1>5
  <2>2. backupClock' = backupClock
    <3>1. CASE BackupTick
      BY <2>1, <3>1 DEF BackupTick
    <3>2. CASE ~BackupTick
      BY <3>2 DEF BackupsNext, StartBackup, SelectProtected, Expire, CollectOrphans, Dump, PublishDump,
         PublishCounts, Seal, RecordSuccess, Report, FailBackup, KillBackup, Rot, StartDrill, RestoreAndCount, MarkVerified
    <3>. QED
      BY <3>1, <3>2
  <2>3. Covered(a)
    BY <1>1, <1>2, <1>5, <2>1, <2>2 DEF Safe, ExpiryIsSafe
  <2>. QED
    BY <1>1, <2>1, <2>3, StaysCovered
<1>. QED
  BY <1>3, <1>4, <1>5

-----------------------------------------------------------------------------
(* What the successes are worth *)

\* What is vouched for stays so: the archive still verifies, a newer one does,
\* or the damage is on record.
LEMMA StaysVouched ==
    ASSUME Safe, BackupsNext, NEW x \in Int, Vouched(x)
    PROVE  Vouched(x)'
<1>1. PICK a \in Archives : a >= x /\ (Verified(a) \/ a \in rotted)
  BY DEF Vouched
<1>2. a \in Int
  BY DEF Archives
<1>3. rotted \subseteq rotted'
  BY DEF BackupsNext, BackupTick, StartBackup, SelectProtected, Expire, CollectOrphans, Dump, PublishDump,
     PublishCounts, Seal, RecordSuccess, Report, FailBackup, KillBackup, Rot, StartDrill, RestoreAndCount, MarkVerified
<1>4. CASE a \in rotted \/ Verified(a)'
  BY <1>1, <1>3, <1>4 DEF Vouched
<1>5. CASE Verified(a) /\ ~Verified(a)'
  <2>1. CASE a \in rotted'
    BY <1>1, <2>1 DEF Vouched
  <2>2. CASE Covered(a)'
    <3>1. Above(a)' # {}
      BY <2>2, FS_EmptySet, BackupsAssumption DEF Covered
    <3>2. \E b \in Archives : b > a /\ Verified(b)'
      BY <3>1 DEF Above
    <3>. QED
      BY <1>1, <1>2, <3>2 DEF Vouched, Archives
  <2>. QED
    BY <1>1, <1>5, <2>1, <2>2, Lost
<1>. QED
  BY <1>1, <1>4, <1>5

\* A run that has sealed its archive can vouch for it.
LEMMA SealedIsVouched ==
    ASSUME BackupsTypeInv, OwnInv, NEW r \in Runs, Seal(r), NEW own, own = script[r].own
    PROVE  Vouched(own)'
<1>1. own \in Archives /\ script[r].at = "seal"
  BY OwnIsArchive DEF OwnInv, Seal, At, Running
<1>2. archive[own].dump \in {"good", "rotten"} /\ archive[own].counts
  BY <1>1 DEF OwnInv, OwnArchive, OwnOk
<1>3. /\ archive'[own].dump = archive[own].dump
      /\ archive'[own].counts = archive[own].counts
      /\ archive'[own].seal
      /\ rotted' = rotted
  BY <1>1, SealEffect
<1>4. CASE archive[own].dump = "good"
  <2>1. Verified(own)'
    BY <1>2, <1>3, <1>4, Zenon DEF Verified
  <2>2. own >= own
    BY <1>1 DEF Archives
  <2>. QED
    BY <1>1, <2>1, <2>2 DEF Vouched
<1>5. CASE archive[own].dump = "rotten"
  <2>1. own \in rotted'
    BY <1>1, <1>3, <1>5 DEF OwnInv, ArchivesKnown
  <2>2. own >= own
    BY <1>1 DEF Archives
  <2>. QED
    BY <1>1, <2>1, <2>2 DEF Vouched
<1>. QED
  BY <1>2, <1>4, <1>5

\* A run starts with the success on the disk, which may become that of its own
\* archive; what it reports is the success it remembers.
LEMMA SuccessKept ==
    ASSUME Safe, SuccessIsVouched, BackupsNext
    PROVE  SuccessIsVouched'
<1>. DEFINE Vouch(s) == s.time >= 0 => \A x : x = s.of => Vouched(x)'
<1>1. /\ success \in SuccessType /\ backupStatus.success \in SuccessType
      /\ \A r \in Runs : script[r].success \in SuccessType /\ script[r].own \in Int
  BY DEF Safe, BackupsTypeInv, RunType
<1>2. /\ Vouch(success) /\ Vouch(backupStatus.success)
      /\ \A r \in Runs : Running(r) => Vouch(script[r].success)
  <2>1. ASSUME NEW s \in SuccessType, Known(s)
        PROVE  Vouch(s)
    <3>1. s.of \in Int
      BY DEF SuccessType
    <3>. QED
      BY <2>1, <3>1, StaysVouched DEF Known
  <2>. HIDE DEF Vouch
  <2>. QED
    BY <1>1, <2>1 DEF SuccessIsVouched
<1>3. \A r \in Runs : script[r].at = "record" => \A x : x = script[r].own => Vouched(x)'
  BY <1>1, StaysVouched DEF SuccessIsVouched, Running
<1>4. ASSUME /\ success' = success
             /\ \/ backupStatus'.success = backupStatus.success
                \/ \E q \in Runs : Running(q) /\ backupStatus'.success = script[q].success,
             \A q \in Runs :
                \/ script'[q] = script[q]
                \/ ~Running(q)'
                \/ /\ Running(q)
                   /\ script'[q].success = script[q].success
                   /\ script'[q].at # "record"
      PROVE  SuccessIsVouched'
  <2>1. Known(success)' /\ Known(backupStatus.success)'
    <3>1. Known(success)'
      BY <1>2, <1>4 DEF Known
    <3>2. CASE backupStatus'.success = backupStatus.success
      BY <1>2, <3>1, <3>2 DEF Known
    <3>3. ASSUME NEW q \in Runs, Running(q), backupStatus'.success = script[q].success
          PROVE  Known(backupStatus.success)'
      BY <1>2, <3>3 DEF Known
    <3>. QED
      BY <1>4, <3>1, <3>2, <3>3
  <2>2. ASSUME NEW q \in Runs, Running(q)'
        PROVE  /\ Known(script[q].success)'
               /\ script'[q].at = "record" => Vouched(script[q].own)'
    <3>1. CASE script'[q] = script[q]
      BY <1>2, <1>3, <2>2, <3>1 DEF Known, Running
    <3>2. CASE /\ Running(q)
               /\ script'[q].success = script[q].success
               /\ script'[q].at # "record"
      BY <1>2, <3>2 DEF Known
    <3>. QED
      BY <1>4, <2>2, <3>1, <3>2
  <2>. QED
    BY <2>1, <2>2 DEF SuccessIsVouched
<1>. HIDE DEF Vouch
<1>5. CASE Idle
  BY <1>4, <1>5, IdleEffect DEF Safe, Ends
<1>6. CASE MarkVerified \/ \E a \in Archives : Rot(a)
  BY <1>4, <1>6, MarkEffect, RotEffect DEF Safe
<1>7. ASSUME NEW r \in Runs,
             \/ SelectProtected(r) \/ Expire(r) \/ CollectOrphans(r)
             \/ Report(r) \/ FailBackup(r)
      PROVE  SuccessIsVouched'
  <2>1. CASE SelectProtected(r)
    BY <1>4, <2>1, SelectEffect DEF Safe, Running
  <2>2. CASE Expire(r)
    BY <1>4, <2>2, ExpireEffect DEF Safe
  <2>3. CASE CollectOrphans(r)
    BY <1>4, <2>3, CollectEffect DEF Safe, Goes, Running
  <2>4. CASE Report(r)
    BY <1>4, <2>4, ReportEffect DEF Safe, Ends
  <2>5. CASE FailBackup(r)
    BY <1>4, <2>5, FailEffect DEF Safe, Ends
  <2>. QED
    BY <1>7, <2>1, <2>2, <2>3, <2>4, <2>5
<1>8. ASSUME NEW r \in Runs, Dump(r) \/ PublishDump(r) \/ PublishCounts(r)
      PROVE  SuccessIsVouched'
  <2>1. Running(r) /\ script[r].own \in Archives
    BY <1>8, OwnIsArchive DEF Safe, OwnInv, Dump, PublishDump, PublishCounts, At, Running
  <2>2. /\ UNCHANGED <<success, backupStatus>>
        /\ script'[r].success = script[r].success
        /\ script'[r].at # "record"
        /\ \A q \in Runs \ {r} : script'[q] = script[q]
    BY <1>8, <2>1, DumpEffect, PublishDumpEffect, PublishCountsEffect DEF Safe, Goes
  <2>. QED
    BY <1>4, <2>1, <2>2
<1>9. ASSUME NEW r \in Runs, Seal(r)
      PROVE  SuccessIsVouched'
  <2>1. Running(r) /\ script[r].own \in Archives
    BY <1>9, OwnIsArchive DEF Safe, OwnInv, Seal, At, Running
  <2>2. /\ UNCHANGED <<success, backupStatus>>
        /\ script'[r].success = script[r].success
        /\ script'[r].own = script[r].own
        /\ \A q \in Runs \ {r} : script'[q] = script[q]
    BY <1>9, <2>1, SealEffect DEF Safe, Goes
  <2>3. Known(success)' /\ Known(backupStatus.success)'
    BY <1>2, <2>2 DEF Known, Vouch
  <2>4. Known(script[r].success)' /\ Vouched(script[r].own)'
    <3>1. \A x : x = script[r].own => Vouched(x)'
      BY <1>9, SealedIsVouched DEF Safe
    <3>. QED
      BY <1>2, <2>1, <2>2, <3>1 DEF Known, Vouch
  <2>5. ASSUME NEW q \in Runs \ {r}, Running(q)'
        PROVE  /\ Known(script[q].success)'
               /\ script'[q].at = "record" => Vouched(script[q].own)'
    BY <1>2, <1>3, <2>2, <2>5 DEF Known, Running, Vouch
  <2>. QED
    BY <2>3, <2>4, <2>5 DEF SuccessIsVouched
<1>10. ASSUME NEW r \in Runs, StartBackup(r)
       PROVE  SuccessIsVouched'
  <2>1. /\ UNCHANGED <<success, backupStatus>>
        /\ script'[r].success = success
        /\ script'[r].at # "record"
        /\ \A q \in Runs \ {r} : script'[q] = script[q]
    BY <1>10, StartEffect DEF Safe
  <2>2. Known(success)' /\ Known(backupStatus.success)' /\ Known(script[r].success)'
    BY <1>2, <2>1 DEF Known, Vouch
  <2>3. ASSUME NEW q \in Runs \ {r}, Running(q)'
        PROVE  /\ Known(script[q].success)'
               /\ script'[q].at = "record" => Vouched(script[q].own)'
    BY <1>2, <1>3, <2>1, <2>3 DEF Known, Running, Vouch
  <2>. QED
    BY <2>1, <2>2, <2>3 DEF SuccessIsVouched
<1>11. ASSUME NEW r \in Runs, RecordSuccess(r)
       PROVE  SuccessIsVouched'
  <2>1. /\ UNCHANGED backupStatus
        /\ script[r].at = "record"
        /\ success'.of = script[r].own
        /\ script'[r].success = success'
        /\ script'[r].at # "record"
        /\ \A q \in Runs \ {r} : script'[q] = script[q]
    BY <1>11, RecordEffect DEF Safe
  <2>2. Known(success)' /\ Known(backupStatus.success)' /\ Known(script[r].success)'
    BY <1>2, <1>3, <2>1 DEF Known, Vouch
  <2>3. ASSUME NEW q \in Runs \ {r}, Running(q)'
        PROVE  /\ Known(script[q].success)'
               /\ script'[q].at = "record" => Vouched(script[q].own)'
    BY <1>2, <1>3, <2>1, <2>3 DEF Known, Running, Vouch
  <2>. QED
    BY <2>1, <2>2, <2>3 DEF SuccessIsVouched
<1>. QED
  BY <1>5, <1>6, <1>7, <1>8, <1>9, <1>10, <1>11, StepCases

-----------------------------------------------------------------------------
(* Theorems *)

LEMMA BackupsInvInit == BackupsInit => BackupsInv
<1>. SUFFICES ASSUME BackupsInit
              PROVE  BackupsInv
  OBVIOUS
<1>. DEFINE bare == [NoArchive EXCEPT !.dump = "good"]
            sealed == [NoArchive EXCEPT !.dump = "good", !.counts = TRUE, !.seal = TRUE]
<1>1. PICK legacy \in SUBSET (1 .. OldArchives) :
        archive = [a \in Archives |->
            CASE a > OldArchives -> NoArchive [] a \in legacy -> bare [] OTHER -> sealed]
  BY DEF BackupsInit
<1>2. bare \in ArchiveType /\ bare.dump = "good" /\ sealed \in ArchiveType /\ sealed.dump = "good"
  <2>1. NoArchive \in ArchiveType
    BY NewArchive
  <2>2. ASSUME NEW x \in ArchiveType
        PROVE  /\ [x EXCEPT !.dump = "good"] \in ArchiveType
               /\ [x EXCEPT !.dump = "good"].dump = "good"
               /\ [x EXCEPT !.dump = "good", !.counts = TRUE, !.seal = TRUE] \in ArchiveType
               /\ [x EXCEPT !.dump = "good", !.counts = TRUE, !.seal = TRUE].dump = "good"
    BY DEF ArchiveType
  <2>. QED
    BY <2>1, <2>2
<1>. HIDE DEF bare, sealed
<1>3. /\ archive \in [Archives -> ArchiveType]
      /\ \A a \in Archives : a > OldArchives => archive[a] = NoArchive
      /\ \A a \in Archives : archive[a].dump \in {"none", "good"}
  <2>1. ASSUME NEW a \in Archives
        PROVE  /\ archive[a] \in ArchiveType
               /\ a > OldArchives => archive[a] = NoArchive
               /\ archive[a].dump \in {"none", "good"}
    <3>1. CASE a > OldArchives
      <4>1. archive[a] = NoArchive
        <5>1. a \notin legacy
          <6>1. OldArchives \in Int /\ a \in Int /\ \A b \in legacy : b <= OldArchives
            BY BackupsAssumption DEF Archives
          <6>. QED
            BY <3>1, <6>1
        <5>. QED
          BY <1>1, <3>1, <5>1
      <4>. QED
        BY <4>1, NewArchive
    <3>2. CASE ~(a > OldArchives) /\ a \in legacy
      BY <1>1, <1>2, <3>2
    <3>3. CASE ~(a > OldArchives) /\ a \notin legacy
      BY <1>1, <1>2, <3>3
    <3>. QED
      BY <3>1, <3>2, <3>3
  <2>2. archive = [a \in Archives |-> archive[a]]
    BY <1>1
  <2>. QED
    BY <2>1, <2>2
<1>4. BackupsTypeInv
  <2>1. [time |-> -1, of |-> 0] \in SuccessType
    BY DEF SuccessType
  <2>2. script \in [Runs -> RunType]
    BY NoRunType DEF BackupsInit
  <2>. QED
    BY <1>3, <2>1, <2>2, BackupsAssumption DEF BackupsInit, BackupsTypeInv
<1>5. \A r \in Runs : ~Running(r) /\ script[r].at = "off"
  BY NoRunType DEF BackupsInit, Running
<1>6. RunsOwn /\ OwnArchive /\ ExpiryIsSafe
  BY <1>5 DEF RunsOwn, OwnArchive, OwnOk, ExpiryIsSafe
<1>7. ArchivesKnown
  BY <1>3, NewArchive DEF ArchivesKnown, BackupsInit
<1>8. SuccessIsVouched
  <2>1. success.time = -1 /\ backupStatus.success = success
    BY DEF BackupsInit
  <2>2. Known(success)
    BY <2>1 DEF Known
  <2>. QED
    BY <1>5, <2>1, <2>2 DEF SuccessIsVouched
<1>. QED
  BY <1>4, <1>6, <1>7, <1>8 DEF BackupsInv

LEMMA TypeKept ==
    ASSUME BackupsTypeInv, OwnInv, BackupsNext
    PROVE  BackupsTypeInv'
<1>1. CASE Idle \/ MarkVerified \/ \E a \in Archives : Rot(a)
  BY <1>1, IdleEffect, MarkEffect, RotEffect
<1>2. ASSUME NEW r \in Runs,
             \/ StartBackup(r) \/ SelectProtected(r) \/ Expire(r) \/ CollectOrphans(r)
             \/ RecordSuccess(r) \/ Report(r) \/ FailBackup(r)
      PROVE  BackupsTypeInv'
  BY <1>2, StartEffect, SelectEffect, ExpireEffect, CollectEffect, RecordEffect, ReportEffect, FailEffect
<1>3. ASSUME NEW r \in Runs, Dump(r) \/ PublishDump(r) \/ PublishCounts(r) \/ Seal(r)
      PROVE  BackupsTypeInv'
  <2>1. script[r].own \in Archives
    BY <1>3, OwnIsArchive DEF OwnInv, Dump, PublishDump, PublishCounts, Seal, At, Running
  <2>. QED
    BY <1>3, <2>1, DumpEffect, PublishDumpEffect, PublishCountsEffect, SealEffect
<1>. QED
  BY <1>1, <1>2, <1>3, StepCases

LEMMA BackupsInvNext == BackupsInv /\ [BackupsNext]_backupVars => BackupsInv'
<1>. SUFFICES ASSUME BackupsInv, [BackupsNext]_backupVars
              PROVE  BackupsInv'
  OBVIOUS
<1>1. CASE BackupsNext
  <2>1. Safe /\ SuccessIsVouched
    BY DEF BackupsInv, Safe, OwnInv
  <2>2. BackupsTypeInv' /\ OwnInv'
    BY <1>1, <2>1, TypeKept, OwnInvKept DEF Safe
  <2>3. ExpiryIsSafe' /\ SuccessIsVouched'
    BY <1>1, <2>1, <2>2, ExpiryKept, SuccessKept
  <2>. QED
    BY <2>2, <2>3 DEF BackupsInv, OwnInv
<1>2. CASE UNCHANGED backupVars
  BY <1>2 DEF backupVars, BackupsInv, BackupsTypeInv, RunsOwn, OwnArchive, OwnOk, ArchivesKnown,
     ExpiryIsSafe, SuccessIsVouched, Known, Vouched, Covered, Above, Verified, Running
<1>. QED
  BY <1>1, <1>2

\* Whatever runs at the same time, fails or is killed between two commands of
\* backup_postgres.sh, each run knows its own archive and expires only what
\* newer verified archives cover.
THEOREM BackupsKeepInv == BackupsSpec => []BackupsInv
<1>1. BackupsInit => BackupsInv
  BY BackupsInvInit
<1>2. BackupsInv /\ [BackupsNext]_backupVars => BackupsInv'
  BY BackupsInvNext
<1>. QED
  BY <1>1, <1>2, PTL DEF BackupsSpec

\* An archive whose checksums verify goes only while as many newer ones as are
\* to be kept verify, though several runs expire archives at the same time.
\* (backup_postgres.sh 34-57)
THEOREM NewestAreKept == BackupsSpec => NewestKept
<1>1. BackupsInv /\ [BackupsNext]_backupVars =>
        [archive' # archive => \A a \in Archives :
            Verified(a) /\ ~There(a)' =>
                Cardinality({b \in Archives : b > a /\ Verified(b)'}) >= Keep]_backupVars
  <2>. SUFFICES ASSUME BackupsInv, BackupsNext, NEW a \in Archives, Verified(a), ~There(a)'
                PROVE  Cardinality({b \in Archives : b > a /\ Verified(b)'}) >= Keep
    BY DEF backupVars
  <2>1. Safe
    BY DEF BackupsInv, Safe, OwnInv
  <2>2. archive[a].dump = "good" /\ archive'[a].dump \notin {"good", "rotten"} /\ ~Verified(a)'
    BY DEF Verified, There
  <2>3. Covered(a)' \/ \A r \in Runs : script[r].at # "expire"
    BY <2>1, <2>2, Lost
  <2>4. ~(\A r \in Runs : script[r].at # "expire")
    <3>1. CASE Idle
      BY <2>1, <2>2, <3>1, IdleEffect DEF Safe
    <3>2. CASE MarkVerified
      BY <2>1, <2>2, <3>2, MarkEffect DEF Safe
    <3>3. ASSUME NEW b \in Archives, Rot(b)
          PROVE  FALSE
      BY <2>1, <2>2, <3>3, RotEffect DEF Safe
    <3>4. ASSUME NEW r \in Runs,
                 \/ StartBackup(r) \/ SelectProtected(r) \/ CollectOrphans(r)
                 \/ RecordSuccess(r) \/ Report(r) \/ FailBackup(r)
          PROVE  FALSE
      BY <2>1, <2>2, <3>4, StartEffect, SelectEffect, CollectEffect, RecordEffect, ReportEffect, FailEffect
         DEF Safe
    <3>5. ASSUME NEW r \in Runs, Expire(r)
          PROVE  script[r].at = "expire"
      BY <3>5 DEF Expire
    <3>6. ASSUME NEW r \in Runs, Dump(r) \/ PublishDump(r) \/ PublishCounts(r) \/ Seal(r)
          PROVE  FALSE
      <4>1. Running(r) /\ script[r].own \in Archives
        BY <3>6, OwnIsArchive DEF Safe, BackupsInv, Dump, PublishDump, PublishCounts, Seal, At, Running
      <4>2. a = script[r].own
        BY <2>1, <2>2, <3>6, <4>1, DumpEffect, PublishDumpEffect, PublishCountsEffect, SealEffect
           DEF Safe, OwnChanges
      <4>3. CASE Dump(r)
        BY <2>1, <2>2, <4>1, <4>2, <4>3, DumpEffect DEF Safe, OwnInv, OwnArchive, OwnOk, Goes
      <4>4. CASE PublishDump(r)
        BY <2>1, <2>2, <4>1, <4>2, <4>4, PublishDumpEffect DEF Safe
      <4>5. CASE PublishCounts(r) \/ Seal(r)
        BY <2>1, <2>2, <4>1, <4>2, <4>5, PublishCountsEffect, SealEffect DEF Safe
      <4>. QED
        BY <3>6, <4>3, <4>4, <4>5
    <3>. QED
      BY <3>1, <3>2, <3>3, <3>4, <3>5, <3>6, StepCases
  <2>. QED
    BY <2>3, <2>4 DEF Covered, Above
<1>. QED
  BY <1>1, BackupsKeepInv, PTL DEF BackupsSpec, NewestKept

\* While the readiness check is content with the backups there is a verified
\* archive not older than the one the reported success is of, but for those the
\* disk damaged: the status file is written after the archive it speaks of is
\* sealed, and what it speaks of is expired only for newer ones.
\* (backup_postgres.sh 85-92; vps_readiness_check.py 127-147)
THEOREM OkIsRecoverable == BackupsSpec => []OkMeansRecoverable
<1>1. BackupsInv => OkMeansRecoverable
  BY DEF BackupsInv, SuccessIsVouched, Known, Vouched, OkMeansRecoverable, BackupOk, BackupsTypeInv
<1>. QED
  BY <1>1, BackupsKeepInv, PTL

=============================================================================
