------------------------------- MODULE Backups -------------------------------
(***************************************************************************)
(* scripts/backup_postgres.sh, the loop that runs it once a day, a run of  *)
(* it by hand at the same time, the restore drill of                       *)
(* scripts/verify_backup_restore.sh, and what vps_readiness_check.py makes *)
(* of the status file.                                                     *)
(*                                                                         *)
(* An archive is known by the number of the run that made it; a tick       *)
(* is twelve hours.  Half-written archives are left where they are by a    *)
(* run that is killed: nothing ever collects a .partial file.              *)
(***************************************************************************)
EXTENDS Integers, FiniteSets

CONSTANTS
    Runs,          \* who runs the script: the loop, an operator
    Keep,          \* ACCOUNTANT_BACKUP_KEEP_VERIFIED
    Retention,     \* ACCOUNTANT_BACKUP_RETENTION_DAYS
    OldArchives,   \* how many archives the directory holds at first
    MaxArchives,   \* bound on archives
    MaxTicks,      \* bound on the ticks
    MaxMishaps     \* bound on failing steps, kills and rotting archives

\* The script refuses a number of copies to keep that is not positive.
ASSUME BackupsAssumption ==
    /\ Keep \in Nat \ {0}
    /\ Retention \in Nat
    /\ MaxArchives \in Nat
    /\ OldArchives \in 0 .. MaxArchives

Archives == 1 .. MaxArchives

VARIABLES
    backupClock,
    startedAt,    \* how many archives were begun
    archive,    \* the dump, its sidecars, and when it was last modified
    script,     \* a run: where it is, its archive, and what it read
    success,    \* the file last_success_at; "of", the archive it is about, is not in the file
    backupStatus,     \* status.json
    drill,      \* a restore drill: where it is, and of what
    rotted,     \* archives damaged on the disk
    mishaps

backupVars == <<backupClock, startedAt, archive, script, success, backupStatus, drill, rotted, mishaps>>

NoArchive == [dump |-> "none", counts |-> FALSE, seal |-> FALSE, drilled |-> FALSE, made |-> 0]
NoRun == [at |-> "off", own |-> 0, success |-> [time |-> -1, of |-> 0], kept |-> {}, listed |-> {}]

BackupsInit ==
    /\ backupClock = 0
    /\ startedAt = OldArchives
    /\ \E legacy \in SUBSET (1 .. OldArchives) :
          archive = [a \in Archives |->
              CASE a > OldArchives -> NoArchive
                [] a \in legacy    -> [NoArchive EXCEPT !.dump = "good"]
                [] OTHER           -> [NoArchive EXCEPT !.dump = "good", !.counts = TRUE, !.seal = TRUE]]
    /\ script = [r \in Runs |-> NoRun]
    /\ success = [time |-> -1, of |-> 0]
    /\ backupStatus = [success |-> success, error |-> "none yet"]
    /\ drill = [at |-> "off", of |-> 0, scratch |-> "empty"]
    /\ rotted = {}
    /\ mishaps = 0

There(a) == archive[a].dump \in {"good", "rotten"}

\* sha256sum --check
Verified(a) == archive[a].dump = "good" /\ archive[a].counts /\ archive[a].seal

\* The newest of S, at most Keep.
Newest(S) == {a \in S : Cardinality({b \in S : b > a}) < Keep}

\* Expiring takes seconds, and so does what follows pg_dump: a tick waits for it.
BackupTick ==
    /\ backupClock < MaxTicks
    /\ \A r \in Runs : script[r].at \notin {"expire", "publish", "counts", "seal"}
    /\ backupClock' = backupClock + 1
    /\ UNCHANGED <<startedAt, archive, script, success, backupStatus, drill, rotted, mishaps>>

At(r, from, to) ==
    /\ script[r].at = from
    /\ script' = [script EXCEPT ![r].at = to]

StartBackup(r) ==
    /\ script[r].at = "off"
    /\ startedAt < MaxArchives
    /\ startedAt' = startedAt + 1
    /\ script' = [script EXCEPT ![r] = [NoRun EXCEPT !.at = "select", !.own = startedAt + 1,
                                                     !.success = success]]
    /\ UNCHANGED <<backupClock, archive, success, backupStatus, drill, rotted, mishaps>>

\* Mutant of Protected: an archive needs no checksum to count as a recovery copy.
ProtectedUnchecked == Newest({a \in Archives : There(a)})

Protected == Newest({a \in Archives : There(a) /\ Verified(a)})

SelectProtected(r) ==
    /\ script[r].at = "select"
    /\ script' = [script EXCEPT ![r].at = "expire", ![r].kept = Protected,
                                ![r].listed = {a \in Archives : There(a)}]
    /\ UNCHANGED <<backupClock, startedAt, archive, success, backupStatus, drill, rotted, mishaps>>

\* Whole days since the archive was modified.
AgeInDays(a) == (backupClock - archive[a].made) \div 2

Expirable(r) ==
    {a \in script[r].listed \ script[r].kept :
        There(a) /\ AgeInDays(a) > Retention /\ Cardinality(script[r].kept) >= Keep}

\* The dump goes first: a run that is killed in between leaves the sidecars.
Expire(r) ==
    /\ script[r].at = "expire"
    /\ \E a \in Expirable(r) :
          /\ \A b \in Expirable(r) : b <= a
          /\ \/ /\ archive' = [archive EXCEPT ![a] = NoArchive]
                /\ UNCHANGED <<script, mishaps>>
             \/ /\ mishaps < MaxMishaps
                /\ mishaps' = mishaps + 1
                /\ archive' = [archive EXCEPT ![a].dump = "none"]
                /\ script' = [script EXCEPT ![r] = NoRun]
    /\ UNCHANGED <<backupClock, startedAt, success, backupStatus, drill, rotted>>

CollectOrphans(r) ==
    /\ At(r, "expire", "headroom")
    /\ Expirable(r) = {}
    /\ archive' = [a \in Archives |->
                      IF There(a) \/ archive[a].dump = "partial" THEN archive[a] ELSE NoArchive]
    /\ UNCHANGED <<backupClock, startedAt, success, backupStatus, drill, rotted, mishaps>>

\* pg_dump, the listing of the archive, and the counts of three tables.
Dump(r) ==
    /\ At(r, "headroom", "publish")
    /\ archive' = [archive EXCEPT ![script[r].own] = [NoArchive EXCEPT !.dump = "partial", !.made = backupClock]]
    /\ UNCHANGED <<backupClock, startedAt, success, backupStatus, drill, rotted, mishaps>>

PublishDump(r) ==
    /\ At(r, "publish", "counts")
    /\ archive' = [archive EXCEPT ![script[r].own].dump = "good"]
    /\ UNCHANGED <<backupClock, startedAt, success, backupStatus, drill, rotted, mishaps>>

PublishCounts(r) ==
    /\ At(r, "counts", "seal")
    /\ archive' = [archive EXCEPT ![script[r].own].counts = TRUE]
    /\ UNCHANGED <<backupClock, startedAt, success, backupStatus, drill, rotted, mishaps>>

\* Mutant of Seal: the checksums are left to be written later.
SealLater(r) ==
    /\ At(r, "seal", "record")
    /\ UNCHANGED <<backupClock, startedAt, archive, success, backupStatus, drill, rotted, mishaps>>

Seal(r) ==
    /\ At(r, "seal", "record")
    /\ archive' = [archive EXCEPT ![script[r].own].seal = TRUE]
    /\ UNCHANGED <<backupClock, startedAt, success, backupStatus, drill, rotted, mishaps>>

RecordSuccess(r) ==
    /\ script[r].at = "record"
    /\ success' = [time |-> backupClock, of |-> script[r].own]
    /\ script' = [script EXCEPT ![r].at = "report", ![r].success = success']
    /\ UNCHANGED <<backupClock, startedAt, archive, backupStatus, drill, rotted, mishaps>>

Report(r) ==
    /\ script[r].at = "report"
    /\ backupStatus' = [success |-> script[r].success, error |-> ""]
    /\ script' = [script EXCEPT ![r] = NoRun]
    /\ UNCHANGED <<backupClock, startedAt, archive, success, drill, rotted, mishaps>>

\* Any command may fail, and the check of the free space; the trap removes the
\* partial files and reports the last success as it was when the run started.
FailBackup(r) ==
    /\ script[r].at # "off"
    /\ mishaps < MaxMishaps
    /\ mishaps' = mishaps + 1
    /\ archive' = [a \in Archives |->
                      IF a = script[r].own /\ archive[a].dump = "partial" THEN NoArchive ELSE archive[a]]
    /\ \E code \in {"backup_failed", "insufficient_disk_headroom"} :
          /\ code = "insufficient_disk_headroom" => script[r].at = "headroom"
          /\ backupStatus' = [success |-> script[r].success, error |-> code]
    /\ script' = [script EXCEPT ![r] = NoRun]
    /\ UNCHANGED <<backupClock, startedAt, success, drill, rotted>>

\* The container is stopped: no trap runs.
KillBackup(r) ==
    /\ script[r].at # "off"
    /\ mishaps < MaxMishaps
    /\ mishaps' = mishaps + 1
    /\ script' = [script EXCEPT ![r] = NoRun]
    /\ UNCHANGED <<backupClock, startedAt, archive, success, backupStatus, drill, rotted>>

\* A disk damages an archive, though not after a running script has checked it.
Rot(a) ==
    /\ archive[a].dump = "good"
    /\ \A r \in Runs : script[r].at # "expire"
    /\ mishaps < MaxMishaps
    /\ mishaps' = mishaps + 1
    /\ archive' = [archive EXCEPT ![a].dump = "rotten"]
    /\ rotted' = rotted \cup {a}
    /\ UNCHANGED <<backupClock, startedAt, script, success, backupStatus, drill>>

\* The drill wants an empty scratch database, and reads the archive until the end.
StartDrill(a) ==
    /\ drill.at = "off" /\ drill.scratch = "empty"
    /\ Verified(a)
    /\ drill' = [at |-> "restore", of |-> a, scratch |-> "full"]
    /\ UNCHANGED <<backupClock, startedAt, archive, script, success, backupStatus, rotted, mishaps>>

RestoreAndCount ==
    /\ drill.at = "restore"
    /\ drill' = [drill EXCEPT !.at = IF archive[drill.of].dump = "good" THEN "mark" ELSE "off"]
    /\ UNCHANGED <<backupClock, startedAt, archive, script, success, backupStatus, rotted, mishaps>>

MarkVerified ==
    /\ drill.at = "mark"
    /\ archive' = [archive EXCEPT ![drill.of].drilled = TRUE]
    /\ drill' = [drill EXCEPT !.at = "off"]
    /\ UNCHANGED <<backupClock, startedAt, script, success, backupStatus, rotted, mishaps>>

BackupsNext ==
    \/ BackupTick
    \/ \E r \in Runs :
          \/ StartBackup(r) \/ SelectProtected(r) \/ Expire(r) \/ CollectOrphans(r)
          \/ Dump(r) \/ PublishDump(r) \/ PublishCounts(r) \/ Seal(r)
          \/ RecordSuccess(r) \/ Report(r) \/ FailBackup(r) \/ KillBackup(r)
    \/ \E a \in Archives : Rot(a) \/ StartDrill(a)
    \/ RestoreAndCount \/ MarkVerified

BackupsSpec == BackupsInit /\ [][BackupsNext]_backupVars

-----------------------------------------------------------------------------
\* backup_status: no error, and not older than 36 hours.  The status file names
\* no archive, so its recovery evidence is always "unverified", which passes.
BackupOk ==
    /\ backupStatus.error = ""
    /\ backupStatus.success.time >= 0
    /\ backupClock - backupStatus.success.time <= 3

\* The newest Keep archives whose checksums verify are kept whatever their age
\* (docs/vps_readiness.md): a verified archive only goes while Keep newer ones
\* are there, with a second run of the script expiring at the same time.
NewestKept ==
    [][archive' # archive => \A a \in Archives :
          Verified(a) /\ ~There(a)' =>
              Cardinality({b \in Archives : b > a /\ Verified(b)'}) >= Keep]_backupVars

\* While the readiness check passes there is a verified archive not older than
\* the one the status is about, if the disk damaged none of those.
OkMeansRecoverable ==
    BackupOk => \/ \E a \in Archives : a >= backupStatus.success.of /\ Verified(a)
                \/ \E a \in rotted : a >= backupStatus.success.of

=============================================================================
