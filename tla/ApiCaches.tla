------------------------------ MODULE ApiCaches ------------------------------
(***************************************************************************)
(* The three caches of api/app.py: the fact totals, the dashboard's        *)
(* metrics and the company list.  A request that finds a cache old starts  *)
(* a thread that counts, puts the result into memory and then into a file, *)
(* by a temporary file of one name; a new process loads the file.          *)
(*                                                                         *)
(* What is counted is a version of the database.                           *)
(***************************************************************************)
EXTENDS Naturals, FiniteSets

CONSTANTS
    Caches,      \* the refreshed ones, of {"facts", "metrics", "companies"}
    MaxVersion,  \* bound on changes of the database
    MaxBad,      \* bound on failing counts and failing writes of a file
    MaxReloads   \* bound on restarts of the process

Threads == {1, 2}  \* at most two threads of a cache at once
Torn == [torn |-> TRUE]
Absent == [absent |-> TRUE]

VARIABLES
    version,   \* what a count would find
    memory,    \* the cache: what was counted (0: nothing), and whether that is old
    running,   \* refresh_running
    counter,   \* the threads of each cache, and what they counted
    tmp,       \* the temporary file
    file,      \* the cache file
    unwritten, \* caches a file of which failed to be written
    cacheBounds

cacheVars == <<version, memory, running, counter, tmp, file, unwritten, cacheBounds>>

Gone == [at |-> "gone", val |-> 0]

CachesInit ==
    /\ version = 1
    /\ memory = [k \in Caches |-> [val |-> 0, old |-> TRUE]]
    /\ running = [k \in Caches |-> FALSE]
    /\ counter = [k \in Caches |-> [t \in Threads |-> Gone]]
    /\ tmp = [k \in Caches |-> Absent]
    /\ file = [k \in Caches |-> Absent]
    /\ unwritten = {}
    /\ cacheBounds = [bad |-> 0, reloads |-> 0]

\* Rows are written by the rest of the program.
DatabaseChanges ==
    /\ version < MaxVersion
    /\ version' = version + 1
    /\ UNCHANGED <<memory, running, counter, tmp, file, unwritten, cacheBounds>>

\* Ninety seconds pass.
CacheAges(k) ==
    /\ ~memory[k].old
    /\ memory' = [memory EXCEPT ![k].old = TRUE]
    /\ UNCHANGED <<version, running, counter, tmp, file, unwritten, cacheBounds>>

\* Mutant of MayStart: nothing tells that a count is under way.
MayStartAgain(k) == IF k = "facts" THEN memory[k].val = 0 ELSE memory[k].old

\* The fact totals are counted once and then for ever as old as they get.
MayStart(k) ==
    /\ ~running[k]
    /\ IF k = "facts" THEN memory[k].val = 0 ELSE memory[k].old

EnsureRefresh(k, t) ==
    /\ MayStart(k)
    /\ counter[k][t].at = "gone"
    /\ running' = [running EXCEPT ![k] = TRUE]
    /\ counter' = [counter EXCEPT ![k][t].at = "count"]
    /\ UNCHANGED <<version, memory, tmp, file, unwritten, cacheBounds>>

Step(k, t, from, to) ==
    /\ counter[k][t].at = from
    /\ counter' = [counter EXCEPT ![k][t].at = to]

Count(k, t) ==
    /\ counter[k][t].at = "count"
    /\ counter' = [counter EXCEPT ![k][t] = [at |-> "publish", val |-> version]]
    /\ UNCHANGED <<version, memory, running, tmp, file, unwritten, cacheBounds>>

Publish(k, t) ==
    /\ Step(k, t, "publish", "open")
    /\ memory' = [memory EXCEPT ![k] = [val |-> counter[k][t].val, old |-> FALSE]]
    /\ running' = [running EXCEPT ![k] = FALSE]
    /\ UNCHANGED <<version, tmp, file, unwritten, cacheBounds>>

OpenTmp(k, t) ==
    /\ Step(k, t, "open", "write")
    /\ tmp' = [tmp EXCEPT ![k] = Torn]
    /\ UNCHANGED <<version, memory, running, file, unwritten, cacheBounds>>

WriteTmp(k, t) ==
    /\ Step(k, t, "write", "replace")
    /\ tmp' = IF tmp[k] = Absent THEN tmp ELSE [tmp EXCEPT ![k] = [val |-> counter[k][t].val]]
    /\ UNCHANGED <<version, memory, running, file, unwritten, cacheBounds>>

Replace(k, t) ==
    /\ tmp[k] # Absent
    /\ counter[k][t].at = "replace"
    /\ counter' = [counter EXCEPT ![k][t] = Gone]
    /\ file' = [file EXCEPT ![k] = tmp[k]]
    /\ tmp' = [tmp EXCEPT ![k] = Absent]
    /\ UNCHANGED <<version, memory, running, unwritten, cacheBounds>>

\* An exception clears the flag, be it before the result is published or after:
\* then the flag may be that of the next thread.
RefreshFails(k, t) ==
    /\ \/ /\ counter[k][t].at \in {"count", "open", "write"}
          /\ cacheBounds.bad < MaxBad
          /\ cacheBounds' = [cacheBounds EXCEPT !.bad = @ + 1]
       \/ /\ counter[k][t].at = "replace" /\ tmp[k] = Absent
          /\ UNCHANGED cacheBounds
    /\ running' = [running EXCEPT ![k] = FALSE]
    /\ unwritten' = IF counter[k][t].at = "count" THEN unwritten ELSE unwritten \cup {k}
    /\ counter' = [counter EXCEPT ![k][t] = Gone]
    /\ UNCHANGED <<version, memory, tmp, file>>

\* A torn file is passed over; what the threads were doing is lost.
LoadCaches ==
    /\ cacheBounds.reloads < MaxReloads
    /\ cacheBounds' = [cacheBounds EXCEPT !.reloads = @ + 1]
    /\ memory' = [k \in Caches |-> [val |-> IF file[k] \in {Absent, Torn} THEN 0 ELSE file[k].val,
                                    old |-> TRUE]]
    /\ running' = [k \in Caches |-> FALSE]
    /\ counter' = [k \in Caches |-> [t \in Threads |-> Gone]]
    /\ unwritten' = {}
    /\ UNCHANGED <<version, tmp, file>>

Refreshing(k, t) ==
    \/ EnsureRefresh(k, t) \/ Count(k, t) \/ Publish(k, t) \/ OpenTmp(k, t)
    \/ WriteTmp(k, t) \/ Replace(k, t) \/ RefreshFails(k, t)

CachesNext ==
    \/ DatabaseChanges
    \/ LoadCaches
    \/ \E k \in Caches : CacheAges(k) \/ \E t \in Threads : Refreshing(k, t)

CachesSpec == CachesInit /\ [][CachesNext]_cacheVars

-----------------------------------------------------------------------------
\* A slow count never puts old figures over newer ones, unless writing the
\* file of that cache has failed: the failing thread then clears the flag of
\* the next one, and two counts may overtake each other.
FiguresMoveForward ==
    [][\A k \in Caches : (k \notin unwritten /\ ~LoadCaches) => memory'[k].val >= memory[k].val]_cacheVars

=============================================================================
