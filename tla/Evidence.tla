------------------------------- MODULE Evidence -------------------------------
(***************************************************************************)
(* What src/accountant/research/filing_signal_engine.py reads out of the   *)
(* texts of a company's filings, as _build_report of the research machine  *)
(* asks for it: four bundles of signals, one after the other, over one     *)
(* cache of texts that lives as long as the process.                       *)
(*                                                                         *)
(* A text is a record: words (word |-> how often), risk (the words of its  *)
(* risk factors), and eps, rates, fees, each a set with at most one        *)
(* figure.  A similarity is the pair of the square of the cosine.          *)
(***************************************************************************)
EXTENDS Integers, FiniteSets, Sequences, Functions, TLC

CONSTANTS
    Papers,         \* filings, oldest first: [form, filed, url, title], url "" for none
    TextOf,         \* url |-> its text
    LastFilingDay,        \* bound on days
    MaxLosses,      \* bound on fetches that fail
    MaxInterruptions \* bound on restarts, and on evictions by the texts other builders read

ASSUME EvidenceAssumption == LastFilingDay \in Nat /\ MaxLosses \in Nat /\ MaxInterruptions \in Nat

VARIABLES
    asOf,       \* the day
    texts,      \* the cache: url |-> its text, or NoText for one that could not be fetched
    signals,    \* bundle |-> what it found, of the scoring under way
    asked,      \* bundle |-> url it asked for |-> whether it could be read
    evicted,    \* the texts pushed out since the scoring started: <<url, after how many bundles>>
    losses,
    interruptions

evidenceVars == <<asOf, texts, signals, asked, evicted, losses, interruptions>>

Bundles == <<"textual", "events", "governance", "non_gaap">>
NoText == [words |-> <<>>, risk |-> <<>>, eps |-> {}, rates |-> {}, fees |-> {}]

Sum(f) == FoldFunction(LAMBDA a, b : a + b, 0, f)
Count(f, words) == Sum([w \in words \cap DOMAIN f |-> f[w]])
Some(text, words) == words \cap DOMAIN text.words # {}

-----------------------------------------------------------------------------
(* Filings *)

Filed == {k \in DOMAIN Papers : Papers[k].filed <= asOf}
\* Papers of one day are in the order of their acceptance.
LatestOf(S) == CHOOSE k \in S : \A j \in S : Papers[j].filed < Papers[k].filed \/ (Papers[j].filed = Papers[k].filed /\ k >= j)
Recent(days) == {k \in Filed : Papers[k].filed >= asOf - days}

ReportCardForms == {"10-K", "10-K/A", "10-Q", "10-Q/A", "20-F", "20-F/A", "40-F", "40-F/A", "6-K",
                    "8-K", "8-K/A", "NT 10-K", "NT 10-Q", "UPLOAD", "CORRESP"}

\* The newest filing that may carry a report card, 0 when there is none.
LatestReport == LET R == {k \in Filed : Papers[k].form \in ReportCardForms} IN IF R = {} THEN 0 ELSE LatestOf(R)

PriorSameForm == IF LatestReport = 0 THEN {} ELSE {k \in Filed \ {LatestReport} : Papers[k].form = Papers[LatestReport].form}
NewestFew(S, n) == {k \in S : Cardinality({j \in S : Papers[j].filed > Papers[k].filed \/ (Papers[j].filed = Papers[k].filed /\ j > k)}) < n}
UrlsOf(S) == {Papers[k].url : k \in S} \ {""}

-----------------------------------------------------------------------------
(* Texts *)

\* Mutant of Remembered: a text that could not be fetched is asked for again.
RememberedWhenRead(urls, lost) == [u \in DOMAIN texts \cup (urls \ lost) |-> IF u \in DOMAIN texts THEN texts[u] ELSE TextOf[u]]

\* A failure is remembered as an empty text.
Remembered(urls, lost) ==
    [u \in DOMAIN texts \cup urls |-> IF u \in DOMAIN texts THEN texts[u] ELSE IF u \in lost THEN NoText ELSE TextOf[u]]

Read(cache, k) == IF k # 0 /\ Papers[k].url \in DOMAIN cache THEN cache[Papers[k].url] ELSE NoText

CosineSimilarity(f, g) ==
    IF f = <<>> \/ g = <<>> THEN {}
    ELSE LET dot == Sum([w \in DOMAIN f \cap DOMAIN g |-> f[w] * g[w]])
         IN {<<dot * dot, Sum([w \in DOMAIN f |-> f[w] * f[w]]) * Sum([w \in DOMAIN g |-> g[w] * g[w]])>>}

GoodWords == {"growth", "strong"}
BadWords == {"loss", "risk"}

\* How much more good than bad, over how much of both.
Tone(text) ==
    LET p == Count(text.words, GoodWords)
        n == Count(text.words, BadWords)
    IN IF text.words = <<>> THEN {} ELSE IF p + n = 0 THEN {<<0, 1>>} ELSE {<<p - n, p + n>>}

AuditorChange(words) == words \cap {"auditor", "accounting firm"} # {} /\ words \cap {"dismissed", "resigned", "engaged", "appointed"} # {}

\* Fees for other work over the fees for the audit.
AuditFeeRatio(text) == {<<f.other, f.audit>> : f \in {g \in text.fees : g.audit > 0}}

-----------------------------------------------------------------------------
(* The four bundles, over the texts in a cache *)

TextualSignals(cache) ==
    LET latest == Read(cache, LatestReport)
        prior == IF PriorSameForm = {} THEN NoText ELSE Read(cache, LatestOf(PriorSameForm))
    IN IF latest = NoText THEN [tone |-> {}, similar |-> {}, risk |-> {}, factoring |-> FALSE, rates |-> {}]
       ELSE [tone |-> Tone(latest), similar |-> CosineSimilarity(latest.words, prior.words), risk |-> CosineSimilarity(latest.risk, prior.risk),
             factoring |-> Some(latest, {"supplier finance", "reverse factoring"}), rates |-> latest.rates]

\* The title of a filing is read with its text; each date is of the newest that shows it.
EventRedFlags(cache) ==
    LET eights == {k \in Recent(365) : Papers[k].form \in {"8-K", "8-K/A"}}
        words(k) == Papers[k].title \cup DOMAIN Read(cache, k).words
        dated(S) == IF S = {} THEN {} ELSE {Papers[LatestOf(S)].filed}
        auditor == dated({k \in eights : AuditorChange(words(k))})
    IN [letter |-> \E k \in Recent(365) : Papers[k].form \in {"UPLOAD", "CORRESP"},
        auditor |-> auditor, tenure |-> {asOf - d : d \in auditor},
        cfo |-> dated({k \in eights : words(k) \cap {"cfo", "chief financial officer"} # {}}),
        ceo |-> dated({k \in eights : words(k) \cap {"ceo", "chief executive officer"} # {}})]

GovernanceSignals(cache) ==
    [fees |-> AuditFeeRatio(Read(cache, IF Filed = {} THEN 0 ELSE LatestOf(Filed))),
     form4s |-> {k \in Recent(90) : Papers[k].form = "4"}, buyers |-> {}, asOf |-> asOf]

\* The gap is in percent of what it is compared with.
Gap(new, old) == IF old = 0 THEN {} ELSE {<<100 * (new - old), IF old < 0 THEN -old ELSE old>>}

NonGaapSignals(cache, eps) ==
    LET latest == Read(cache, LatestReport).eps
        past == {k \in NewestFew(PriorSameForm, 3) : Read(cache, k).eps # {}}
        total == Sum([k \in past |-> CHOOSE e \in Read(cache, k).eps : TRUE])
    IN [eps |-> latest, gap |-> UNION {Gap(e, eps) : e \in latest},
        trend |-> IF past = {} THEN {} ELSE UNION {Gap(e * Cardinality(past), total) : e \in latest},
        recurring |-> Cardinality(past) >= 2 /\ latest # {}]

\* What each asks for; the prior text only once the latest has been read.
Wanted(bundle, lost) ==
    CASE bundle = "textual" ->
           LET first == IF LatestReport = 0 THEN {} ELSE UrlsOf({LatestReport})
               cache == Remembered(first, lost)
           IN IF \E u \in first \cap DOMAIN cache : cache[u] # NoText
              THEN first \cup (IF PriorSameForm = {} THEN {} ELSE UrlsOf({LatestOf(PriorSameForm)})) ELSE first
      [] bundle = "events" -> UrlsOf({k \in Recent(365) : Papers[k].form \in {"8-K", "8-K/A"}})
      [] bundle = "governance" -> IF Filed = {} THEN {} ELSE UrlsOf({LatestOf(Filed)})
      [] OTHER -> IF LatestReport = 0 \/ UrlsOf({LatestReport}) = {} THEN {}
                  ELSE UrlsOf({LatestReport} \cup NewestFew(PriorSameForm, 3))

Found(bundle, cache) ==
    CASE bundle = "textual" -> TextualSignals(cache) [] bundle = "events" -> EventRedFlags(cache)
      [] bundle = "governance" -> GovernanceSignals(cache) [] OTHER -> NonGaapSignals(cache, 10)

-----------------------------------------------------------------------------
EvidenceInit ==
    /\ asOf = 1
    /\ texts = <<>> /\ signals = <<>> /\ asked = <<>> /\ evicted = {}
    /\ losses = 0 /\ interruptions = 0

\* The next bundle; any of the texts that are not in the cache may fail to come.
Build ==
    /\ Len(signals) < Len(Bundles)
    /\ \E lost \in SUBSET (DOMAIN TextOf \ DOMAIN texts) :
         LET bundle == Bundles[Len(signals) + 1]
             urls == Wanted(bundle, lost)
             cache == Remembered(urls, lost)
         IN /\ lost \subseteq urls
            /\ losses + Cardinality(lost) <= MaxLosses
            /\ texts' = cache
            /\ signals' = Append(signals, Found(bundle, cache))
            /\ asked' = Append(asked, [u \in urls |-> u \in DOMAIN cache /\ cache[u] # NoText])
            /\ losses' = losses + Cardinality(lost)
    /\ UNCHANGED <<asOf, evicted, interruptions>>

\* The next scoring starts once this one has its bundles.
StartScoring ==
    /\ Len(signals) = Len(Bundles)
    /\ signals' = <<>> /\ asked' = <<>> /\ evicted' = {}
    /\ UNCHANGED <<asOf, texts, losses, interruptions>>

NextFilingDay ==
    /\ asOf < LastFilingDay /\ signals = <<>>
    /\ asOf' = asOf + 1
    /\ UNCHANGED <<texts, signals, asked, evicted, losses, interruptions>>

\* The cache is one for all threads that build reports: the texts they read
\* push one out, also in the middle of this scoring.  (Within a bundle no text
\* is asked for twice.)
Evict ==
    /\ interruptions < MaxInterruptions
    /\ \E u \in DOMAIN texts :
          /\ texts' = [v \in DOMAIN texts \ {u} |-> texts[v]]
          /\ evicted' = evicted \cup {<<u, Len(signals)>>}
    /\ interruptions' = interruptions + 1
    /\ UNCHANGED <<asOf, signals, asked, losses>>

\* A restart forgets the cache and the scoring under way.
RestartProcess ==
    /\ interruptions < MaxInterruptions
    /\ texts' = <<>> /\ signals' = <<>> /\ asked' = <<>> /\ evicted' = {}
    /\ interruptions' = interruptions + 1
    /\ UNCHANGED <<asOf, losses>>

EvidenceNext == Build \/ StartScoring \/ NextFilingDay \/ Evict \/ RestartProcess

EvidenceSpec == EvidenceInit /\ [][EvidenceNext]_evidenceVars

-----------------------------------------------------------------------------
(* Properties *)

\* Two bundles of a scoring disagree on a text only when it was pushed out of
\* the cache between them: a fetch that fails never makes them disagree.  So a
\* report combines the non-GAAP figures of a filing with the absence of its tone
\* only after an eviction.  (filing_signal_engine.py 361-375, report_machine.py
\* 1249-1430)
Kept(u, i, j) == \A n \in i .. j - 1 : <<u, n>> \notin evicted

OneReadingPerScoring ==
    \A i, j \in DOMAIN asked : \A u \in DOMAIN asked[i] \cap DOMAIN asked[j] :
        i < j /\ Kept(u, i, j) => asked[i][u] = asked[j][u]

=============================================================================
