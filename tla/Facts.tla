-------------------------------- MODULE Facts --------------------------------
(***************************************************************************)
(* How the facts of one company get from the SEC's files into statements:  *)
(* filings are linked (src/accountant/ingest/filings.py), the facts of     *)
(* linked filings become raw facts with a lineage (companyfacts.py), raw   *)
(* facts become canonical facts filing by filing (canonical_ingestion.py,  *)
(* canonical_mapper.py), and canonical facts become statement snapshots    *)
(* (financial/snapshot_service.py).  The point-in-time engine              *)
(* (analysis/point_in_time_engine.py) reads the raw facts as of a day.     *)
(*                                                                         *)
(* Days are numbers and 0 is a date that is not given.  The hash of a fact *)
(* is the tuple it is computed from.                                       *)
(***************************************************************************)
EXTENDS Integers, FiniteSets, Sequences

CONSTANTS
    FilingOf,       \* accession |-> [accepted, filed, historical]: the SEC's filings
    Payload,        \* the SEC's facts in the order of its file
    Rules,          \* mapping rules: [tag, code, priority, confidence]
    Sheets,         \* type of statement |-> the codes on it
    Normalisers,    \* processes that normalise: the machine, a script
    MaxFailures     \* bound on commits that fail

ASSUME FactsAssumption ==
    /\ \A a \in DOMAIN FilingOf : FilingOf[a].accepted \in Nat /\ FilingOf[a].filed \in Nat
    /\ Payload \in Seq([accn : DOMAIN FilingOf, tag : STRING, start : Nat, end : Nat, val : Int,
                        year : Nat, period : STRING])
    /\ MaxFailures \in Nat

VARIABLES
    published,  \* accessions the SEC shows
    linked,     \* accessions with a row in filings
    raws,       \* raw facts in the order of their creation
    canon,      \* canonical facts in the order of their creation: [raw, code]
    reading,    \* per process, the filing it has read and not committed
    snapshots,  \* per type of statement, key |-> the snapshot stored
    failures

factVars == <<published, linked, raws, canon, reading, snapshots, failures>>

Idle == [filing |-> "", seen |-> {}, adds |-> <<>>]

-----------------------------------------------------------------------------
(* Filings and raw facts *)

Hash(f) == <<f.accn, f.tag, f.start, f.end, f.val>>
Lineage(f) == <<f.tag, f.start, f.end>>

\* Row i is offered before row j: newest first, an absent acceptance last.
LaterVersion(rs, i, j) ==
    LET x == rs[i] y == rs[j]
    IN \/ x.accepted > y.accepted
       \/ x.accepted = y.accepted /\ x.filed > y.filed
       \/ x.accepted = y.accepted /\ x.filed = y.filed /\ i > j

VersionsOf(rs, lineage) == {i \in DOMAIN rs : Lineage(rs[i]) = lineage}
NewestOf(rs, S) == CHOOSE i \in S : \A j \in S \ {i} : LaterVersion(rs, i, j)

\* The fact f is stored unless it is known or its filing is not linked.
IngestSingleFact(rs, f) ==
    IF f.accn \notin linked \/ \E i \in DOMAIN rs : Hash(rs[i]) = Hash(f) THEN rs
    ELSE LET versions == VersionsOf(rs, Lineage(f))
             prior == IF versions = {} THEN 0 ELSE NewestOf(rs, versions)
         IN Append(rs, [accn |-> f.accn, tag |-> f.tag, start |-> f.start, end |-> f.end, val |-> f.val,
                        year |-> f.year, period |-> f.period,
                        version |-> IF prior = 0 THEN 1 ELSE rs[prior].version + 1,
                        prior |-> prior,
                        first |-> IF prior = 0 THEN f.accn ELSE rs[prior].first,
                        accepted |-> FilingOf[f.accn].accepted,
                        filed |-> FilingOf[f.accn].filed])

\* The raw facts after the first facts of the file, of those it has today.
Ingested[k \in 0 .. Len(Payload)] ==
    IF k = 0 THEN raws
    ELSE IF Payload[k].accn \in published THEN IngestSingleFact(Ingested[k - 1], Payload[k])
    ELSE Ingested[k - 1]

PublishFiling(a) ==
    /\ a \notin published
    /\ \A b \in DOMAIN FilingOf \ published : FilingOf[a].filed <= FilingOf[b].filed
    /\ published' = published \cup {a}
    /\ UNCHANGED <<linked, raws, canon, reading, snapshots, failures>>

\* full: with the files of older filings, or the recent block alone.
FilingsFetched(full) == {a \in published : full \/ ~FilingOf[a].historical}

IngestFilings(full) ==
    /\ linked' = linked \cup FilingsFetched(full)
    /\ UNCHANGED <<published, raws, canon, reading, snapshots, failures>>

IngestCompanyFacts ==
    /\ raws' = Ingested[Len(Payload)]
    /\ UNCHANGED <<published, linked, canon, reading, snapshots, failures>>

-----------------------------------------------------------------------------
(* Canonical facts *)

Candidates(tag) == {r \in Rules : r.tag = tag}
DetectConflict(cs) == Cardinality({r \in cs : r.confidence \in {"HIGH", "MEDIUM"}}) > 1

\* The candidates of the best confidence there is, when there are several.
Preferred(cs) ==
    LET of(level) == {r \in cs : r.confidence = level}
    IN IF Cardinality(cs) = 1 THEN cs
       ELSE IF of("HIGH") # {} THEN of("HIGH") ELSE IF of("MEDIUM") # {} THEN of("MEDIUM") ELSE cs

ResolveConflict(cs) == {r \in Preferred(cs) : \A q \in Preferred(cs) : q.priority <= r.priority}

\* The codes a tag may be given: none, or one of those the resolution leaves.
CodesOf(tag) ==
    LET cs == Candidates(tag)
    IN IF DetectConflict(cs) THEN {r.code : r \in ResolveConflict(cs)} ELSE {r.code : r \in cs}

CodeOf(tag) == CHOOSE c \in CodesOf(tag) : TRUE
Mapped(i) == CodesOf(raws[i].tag) # {}

\* Mutant of NewRows: what another process is about to add counts as there.
NewRowsNotPending(seen) ==
    {i \in seen : /\ Mapped(i)
                  /\ \A j \in DOMAIN canon : canon[j].raw # i
                  /\ \A c \in Normalisers : \A k \in DOMAIN reading[c].adds : reading[c].adds[k].raw # i}

NewRows(seen) == {i \in seen : Mapped(i) /\ \A j \in DOMAIN canon : canon[j].raw # i}

\* The members of a set of numbers, the smallest first.
InOrder(S) == [k \in 1 .. Cardinality(S) |-> CHOOSE i \in S : Cardinality({j \in S : j < i}) = k - 1]

CanonicalRow(i) == [raw |-> i, code |-> CodeOf(raws[i].tag)]

ReadFiling(c, a) ==
    LET seen == {i \in DOMAIN raws : raws[i].accn = a}
        new == InOrder(NewRows(seen))
    IN /\ reading[c] = Idle
       /\ seen # {}
       /\ reading' = [reading EXCEPT ![c] =
              [filing |-> a, seen |-> seen, adds |-> [k \in DOMAIN new |-> CanonicalRow(new[k])]]]
       /\ UNCHANGED <<published, linked, raws, canon, snapshots, failures>>

CommitFiling(c) ==
    /\ reading[c] # Idle
    /\ canon' = canon \o reading[c].adds
    /\ reading' = [reading EXCEPT ![c] = Idle]
    /\ UNCHANGED <<published, linked, raws, snapshots, failures>>

\* The commit fails: the error is one of the result and nothing is kept.
FailCommit(c) ==
    /\ reading[c] # Idle /\ failures < MaxFailures
    /\ failures' = failures + 1
    /\ reading' = [reading EXCEPT ![c] = Idle]
    /\ UNCHANGED <<published, linked, raws, canon, snapshots>>

-----------------------------------------------------------------------------
(* Statement snapshots *)

RowsOf(codes) == {j \in DOMAIN canon : canon[j].code \in codes}

\* Mutant of RowBefore: the newest filing decides, whatever its period.
RowBeforeFiledFirst(i, j) ==
    LET x == raws[canon[i].raw] y == raws[canon[j].raw]
    IN \/ x.filed > y.filed
       \/ x.filed = y.filed /\ x.year > y.year
       \/ x.filed = y.filed /\ x.year = y.year /\ i > j

RowBefore(i, j) ==
    LET x == raws[canon[i].raw] y == raws[canon[j].raw]
    IN \/ x.year > y.year
       \/ x.year = y.year /\ x.end > y.end
       \/ x.year = y.year /\ x.end = y.end /\ x.filed > y.filed
       \/ x.year = y.year /\ x.end = y.end /\ x.filed = y.filed /\ i > j

FirstRow(S) == CHOOSE i \in S : \A j \in S \ {i} : RowBefore(i, j)

\* The rows of a known year; the first of them tells the period.
Datable(S) == {j \in S : raws[canon[j].raw].year # 0}
PeriodOf(j) == LET f == raws[canon[j].raw] IN [year |-> f.year, period |-> f.period, end |-> f.end]
RowsInPeriod(S, p) == {j \in S : PeriodOf(j) = p}

\* The stored snapshots are told apart by year and quarter, and a snapshot
\* there is is written again.
UpsertSnapshot(stored, codes) ==
    LET rows == RowsOf(codes)
        picked == PeriodOf(FirstRow(Datable(rows)))
        key == <<picked.year, picked.period>>
        here == RowsInPeriod(rows, picked)
        lines == [c \in {canon[j].code : j \in here} |-> canon[FirstRow({j \in here : canon[j].code = c})].raw]
        complete == codes \subseteq DOMAIN lines
    IN IF Datable(rows) = {} THEN stored
       ELSE [k \in DOMAIN stored \cup {key} |->
                IF k = key THEN [end |-> picked.end, lines |-> lines, complete |-> complete] ELSE stored[k]]

BuildSnapshots ==
    /\ snapshots' = [t \in DOMAIN Sheets |-> UpsertSnapshot(snapshots[t], Sheets[t])]
    /\ UNCHANGED <<published, linked, raws, canon, reading, failures>>

-----------------------------------------------------------------------------
(* As of a day *)

FilingsAsOf(day) == {a \in linked : FilingOf[a].accepted \in 1 .. day}

\* The latest version of every fact of the filings accepted by the day.
ResolveRawFacts(day) ==
    LET known == {i \in DOMAIN raws : raws[i].accn \in FilingsAsOf(day)}
    IN {i \in known : i = NewestOf(raws, known \cap VersionsOf(raws, Lineage(raws[i])))}

\* Any of the facts of a concept may be the one the query returns first.
ResolveMetric(day, tag) == {raws[i].val : i \in {j \in DOMAIN raws : raws[j].accn \in FilingsAsOf(day) /\ raws[j].tag = tag}}

MetricsAvailable(day, tags) == {t \in tags : ResolveMetric(day, t) \ {0} # {}}

-----------------------------------------------------------------------------
FactsInit ==
    /\ published = {} /\ linked = {}
    /\ raws = <<>> /\ canon = <<>>
    /\ reading = [c \in Normalisers |-> Idle]
    /\ snapshots = [t \in DOMAIN Sheets |-> <<>>]
    /\ failures = 0

FactsNext ==
    \/ \E a \in DOMAIN FilingOf : PublishFiling(a)
    \/ \E full \in BOOLEAN : IngestFilings(full)
    \/ IngestCompanyFacts
    \/ \E c \in Normalisers, a \in linked : ReadFiling(c, a)
    \/ \E c \in Normalisers : CommitFiling(c) \/ FailCommit(c)
    \/ BuildSnapshots

FactsSpec == FactsInit /\ [][FactsNext]_factVars

-----------------------------------------------------------------------------
(* Properties *)

\* A normalisation that reports no error has left no mapped fact of what it
\* read without a canonical one, though a filing may have been normalised in
\* part before, its commit may have failed, and others normalise it at the
\* same time.  (canonical_ingestion.py 104-198)
CleanMeansComplete ==
    [][\A c \in Normalisers :
         (reading[c] # Idle /\ reading'[c] = Idle /\ failures' = failures)
         => \A i \in reading[c].seen : Mapped(i) => \E j \in DOMAIN canon' : canon'[j].raw = i]_reading

\* What later imports may not do.  Once every filing accepted by a day is linked
\* and its facts are stored, no import, in whatever order filings are linked,
\* changes the facts resolved as of that day.  And a late amendment of an old
\* year, or old filings linked after new ones, never take a company's statements
\* back to an older year: what a build writes is of the newest year that company
\* has.  (point_in_time_engine.py 199-322, companyfacts.py 362-414,
\* snapshot_service.py 120-160, 232-247)
PastStands ==
    [][/\ raws' # raws \/ linked' # linked =>
            \A day \in {FilingOf[a].accepted : a \in DOMAIN FilingOf} :
              (/\ \A a \in DOMAIN FilingOf : FilingOf[a].accepted \in 1 .. day => a \in linked
               /\ \A k \in DOMAIN Payload : Payload[k].accn \in FilingsAsOf(day) => \E i \in DOMAIN raws : Hash(raws[i]) = Hash(Payload[k]))
              => ResolveRawFacts(day)' = ResolveRawFacts(day)
       /\ snapshots' # snapshots =>
            \A t \in DOMAIN Sheets : \A k \in DOMAIN snapshots'[t] :
                (k \notin DOMAIN snapshots[t] \/ snapshots'[t][k] # snapshots[t][k])
                => \A old \in DOMAIN snapshots[t] : old[1] <= k[1]]_factVars
=============================================================================
