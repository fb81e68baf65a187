------------------------------ MODULE ReportCards ------------------------------
(***************************************************************************)
(* What src/accountant/research does with a finished analysis: the card    *)
(* kept for each filing (report_cards.py), the timeline of a company's     *)
(* cards (change_timeline.py), the controls on a verdict                   *)
(* (research_controls.py), the paper book launched from the newest cards   *)
(* (paper_book.py), and the acceptance of a packet read by another program *)
(* (packet_acceptance.py, operating_mode.py).                              *)
(*                                                                         *)
(* Companies are numbers in the order of their CIKs; days are numbers.     *)
(* Rows whose acceptance is absent (0) sort last, as SQLite does it.       *)
(***************************************************************************)
EXTENDS Integers, FiniteSets, Sequences, TLC

CONSTANTS
    FilingsOf,      \* company |-> its filings: [form, period, filed, accepted, number, amends]
    OldCards,       \* cards written by an earlier version, under ids without the accession number
    Verdicts,       \* verdicts an analysis can end in
    Books,          \* names of paper books
    Modes,          \* modes the program may run in
    Size,           \* positions a book is to have
    Fresh,          \* days a report, a card and a scoring stay acceptable
    MaxDay,         \* bound on days
    MaxDropped      \* bound on cards deleted

Filings == UNION {{FilingsOf[c][k] : k \in DOMAIN FilingsOf[c]} : c \in DOMAIN FilingsOf}

ASSUME ReportCardsAssumption ==
    /\ Size \in Nat \ {0} /\ Fresh \in Nat /\ MaxDay \in Nat /\ MaxDropped \in Nat
    /\ FilingsOf \in [DOMAIN FilingsOf -> Seq(Filings)]
    /\ \A f \in Filings : f.accepted \in Nat /\ f.filed \in Nat
    /\ OldCards \in Seq({OldCards[x] : x \in DOMAIN OldCards})
    /\ \A x \in DOMAIN OldCards :
          /\ OldCards[x].filing.accepted \in Nat /\ OldCards[x].filing.filed \in Nat
          /\ OldCards[x].scored \in 0 .. 1
          /\ \A y \in DOMAIN OldCards : OldCards[x].id = OldCards[y].id => x = y

VARIABLES
    cardDay,
    known,      \* company |-> how many of its filings are linked
    reports,    \* company |-> [verdict, updated]: the row of company_reports, the last analysis
    cards,      \* every report card there has been, in the order of creation
    dropped,    \* the cards among them that were deleted
    positions,  \* positions of paper books, each with the card it was entered on
    packets     \* company |-> the packet last read: the card it was of, the reasons against it

cardVars == <<cardDay, known, reports, cards, dropped, positions, packets>>

NoReport == [updated |-> 0]
NewestFiling(c) == FilingsOf[c][known[c]]

-----------------------------------------------------------------------------
(* Controls *)

Controls(v) ==
    LET failed == {q \in {"facts", "completeness", "veto", "route"} :
                     CASE q = "facts" -> v.facts <= 0 [] q = "completeness" -> v.complete < 60
                       [] q = "veto" -> v.veto [] OTHER -> v.route = ""}
    IN IF failed # {} THEN "REVIEW_REQUIRED" ELSE IF v.own = {} THEN "RESEARCH_APPROVED_WITHOUT_VALUATION" ELSE "RESEARCH_APPROVED"

ValuationRange(values, own) ==
    LET present == IF values = {} THEN own ELSE values
    IN [low |-> {x \in present : \A y \in present : x <= y}, high |-> {x \in present : \A y \in present : y <= x}]

-----------------------------------------------------------------------------
(* Cards *)

CardId(c, f) == <<c, f.form, f.period, f.filed, f.number>>
OldCardId(c, f) == <<c, f.form, f.period, f.filed>>

CardBefore(x, y) ==
    \/ cards[x].filing.accepted > cards[y].filing.accepted
    \/ cards[x].filing.accepted = cards[y].filing.accepted /\ cards[x].filing.filed > cards[y].filing.filed
    \/ cards[x].filing.accepted = cards[y].filing.accepted /\ cards[x].filing.filed = cards[y].filing.filed /\ x > y

NewestCard(S) == IF S = {} THEN 0 ELSE CHOOSE x \in S : \A y \in S \ {x} : CardBefore(x, y)
Live == DOMAIN cards \ dropped
CardsOf(c) == {x \in Live : cards[x].company = c}

PriorCard(c, f) ==
    NewestCard({x \in CardsOf(c) : IF f.accepted # 0 THEN cards[x].filing.accepted \in 1 .. f.accepted - 1
                                   ELSE cards[x].filing.filed < f.filed})

RestatedCard(c, f) ==
    IF f.amends = "" THEN 0 ELSE NewestCard({x \in CardsOf(c) : cards[x].filing.form = f.amends /\ cards[x].filing.period = f.period})

\* Until its figures are validated a verdict is published without a letter and
\* without an action, and its score is the score of the grade.
Published(v) == [v EXCEPT !.composite = v.grade, !.letter = "UNVALIDATED", !.action = "WATCH"]

NewCard(c, f, v) ==
    [id |-> CardId(c, f), company |-> c, filing |-> f, verdict |-> Published(v), scored |-> cardDay,
     approval |-> Controls(v), range |-> ValuationRange(v.value, v.own),
     prior |-> PriorCard(c, f), restates |-> RestatedCard(c, f)]

\* The card of the filing under its id, or under the id of the earlier version.
KeptCards(c, f) ==
    {x \in Live : cards[x].id = CardId(c, f) \/ (cards[x].id = OldCardId(c, f) /\ cards[x].filing.number = f.number)}

\* Mutant of PersistReportCard: the card of a filing is written again.
PersistReportCardAgain(c, v) ==
    LET card == NewCard(c, NewestFiling(c), v)
        there == KeptCards(c, NewestFiling(c))
    IN IF there = {} THEN Append(cards, card) ELSE [cards EXCEPT ![NewestCard(there)] = card]

\* A filing has one card; a later analysis of it leaves the card as it is.
PersistReportCard(c, v) ==
    IF KeptCards(c, NewestFiling(c)) # {} THEN cards ELSE Append(cards, NewCard(c, NewestFiling(c), v))

LatestCard(c) == NewestCard(CardsOf(c))

-----------------------------------------------------------------------------
(* The timeline *)

CoreForms == {"10-K", "10-K/A", "10-Q", "10-Q/A", "20-F", "20-F/A", "40-F", "40-F/A", "6-K"}
MaterialForms == {"8-K", "8-K/A", "NT 10-K", "NT 10-Q", "UPLOAD", "CORRESP"}

CardTime(x) == IF cards[x].filing.accepted # 0 THEN cards[x].filing.accepted ELSE cards[x].scored

TimelineOrder(c) ==
    LET S == {x \in CardsOf(c) : cards[x].filing.form \in CoreForms \cup MaterialForms}
        before(x, y) == CardTime(x) < CardTime(y) \/ (CardTime(x) = CardTime(y) /\ x < y)
    IN [k \in 1 .. Cardinality(S) |-> CHOOSE x \in S : Cardinality({y \in S : before(y, x)}) = k - 1]

\* A score of zero counts as none, and the composite score stands in for it.
ShownScore(v) == IF v.grade # 0 THEN v.grade ELSE v.composite

MovedPct(old, new, pct) ==
    \E o \in old, n \in new : o # 0 /\ 100 * (IF n > o THEN n - o ELSE o - n) >= pct * (IF o < 0 THEN -o ELSE o)

\* A verdict that says something else; the valuation is the one captured for the card.
Revalued(v, w) ==
    \/ v.action # w.action \/ v.letter # w.letter
    \/ (LET d == ShownScore(w) - ShownScore(v) IN d >= 3 \/ d <= -3)
    \/ MovedPct(v.own, w.own, 5)

Event(prior, x) ==
    [card |-> cards[x].id,
     kind |-> IF cards[x].filing.form \in MaterialForms THEN "MATERIAL_EVENT"
              ELSE IF prior = 0 THEN "BASELINE"
              ELSE IF Revalued(cards[prior].verdict, cards[x].verdict) THEN "RESEARCH_REVALUATION" ELSE "FILING_UPDATE",
     old |-> IF prior = 0 THEN {} ELSE {ShownScore(cards[prior].verdict)},
     new |-> ShownScore(cards[x].verdict)]

\* Oldest first; the limit on the number of events shown is left out.
Timeline(c) ==
    LET order == TimelineOrder(c) IN [k \in DOMAIN order |-> Event(IF k = 1 THEN 0 ELSE order[k - 1], order[k])]

-----------------------------------------------------------------------------
(* Paper books *)

ResearchScore(v) == LET scores == {v.grade, v.quality, v.composite, v.pqc} IN CHOOSE s \in scores : \A t \in scores : t <= s

Lane1Eligible(v) == v.lane1 /\ v.action # "EXIT" /\ ~v.catastrophe /\ ~v.excluded /\ ResearchScore(v) >= 75

EligibleCards == {x \in {LatestCard(c) : c \in DOMAIN FilingsOf} \ {0} : Lane1Eligible(cards[x].verdict)}

\* The best Size of them, companies in the order of their CIKs when equal.
SelectedCards ==
    {x \in EligibleCards :
        Cardinality({y \in EligibleCards :
            \/ ResearchScore(cards[y].verdict) > ResearchScore(cards[x].verdict)
            \/ ResearchScore(cards[y].verdict) = ResearchScore(cards[x].verdict) /\ cards[y].company < cards[x].company}) < Size}

ResearchLane(v) == IF v.action = "BUY" THEN "RESEARCH_BUY" ELSE IF v.action \in {"HOLD", "WATCH"} THEN "RESEARCH_WATCH" ELSE "RESEARCH_REVIEW"

\* The weight of a position is one part in so many.
NewPositions(book) ==
    {[book |-> book, company |-> cards[x].company, card |-> x, lane |-> ResearchLane(cards[x].verdict), parts |-> Cardinality(SelectedCards)] :
        x \in {y \in SelectedCards : \A p \in positions : p.book = book => p.company # cards[y].company}}

-----------------------------------------------------------------------------
(* Acceptance of a packet *)

HandoffAllowed(mode) == mode \in {"connected_research", "advisory_only", "terminal_handoff"}

RecentDay(day) == day # 0 /\ cardDay - day \in 0 .. Fresh

\* Mutant of ScoredOn: the day the report was written.
ScoredOnReport(c) == reports[c].updated

\* The day the verdict on the card was reached.
ScoredOn(c) == cards[LatestCard(c)].scored

\* The reasons that are about the report and the card; nothing in the program
\* records the validation that the fourth one asks for.
PacketReasons(c, mode) ==
    LET x == LatestCard(c)
        mine == reports[c].verdict
    IN IF x = 0 \/ reports[c] = NoReport THEN {"report_or_card_missing"}
       ELSE {r \in {"terminal_handoff_disallowed", "pipeline_incomplete", "data_quality_insufficient", "report_timestamp_invalid_or_stale",
                    "financial_qa_unverified", "calculation_timestamp_invalid_or_stale", "score_disagreement", "filing_acceptance_unverified"} :
               CASE r = "terminal_handoff_disallowed" -> ~HandoffAllowed(mode)
                 [] r = "pipeline_incomplete" -> reports[c].stage # "reports-ready"
                 [] r = "data_quality_insufficient" -> mine.tier \notin {"ADEQUATE", "STRONG", "COMPLETE"}
                 [] r = "report_timestamp_invalid_or_stale" -> ~RecentDay(reports[c].updated)
                 [] r = "calculation_timestamp_invalid_or_stale" -> ~RecentDay(ScoredOn(c))
                 [] r = "score_disagreement" -> cards[x].verdict.grade # mine.composite
                 [] r = "filing_acceptance_unverified" -> cards[x].filing.accepted \notin 1 .. cardDay
                 [] OTHER -> TRUE}

-----------------------------------------------------------------------------
CardsInit ==
    /\ cardDay = 1
    /\ known = [c \in DOMAIN FilingsOf |-> 0]
    /\ reports = [c \in DOMAIN FilingsOf |-> NoReport]
    /\ cards = OldCards /\ dropped = {} /\ positions = {}
    /\ packets = [c \in DOMAIN FilingsOf |-> [card |-> 0, reasons |-> {}]]

LinkFiling(c) ==
    /\ known[c] < Len(FilingsOf[c])
    /\ FilingsOf[c][known[c] + 1].filed <= cardDay
    /\ known' = [known EXCEPT ![c] = @ + 1]
    /\ UNCHANGED <<cardDay, reports, cards, dropped, positions, packets>>

\* An analysis writes the report of a company and the card of its newest filing.
Analyse(c, v) ==
    /\ known[c] > 0
    /\ reports' = [reports EXCEPT ![c] =
                     [verdict |-> Published(v), updated |-> cardDay, stage |-> IF v.facts > 0 THEN "unvalidated" ELSE "archive-dependent-incomplete"]]
    /\ cards' = PersistReportCard(c, v)
    /\ UNCHANGED <<cardDay, known, dropped, positions, packets>>

\* The backfill deletes all cards, or those of one company, before it builds the
\* reports again: a filing may then get a card of the same id once more, with the
\* verdict of that day.  The positions stay as they are.
ResetReportCards ==
    /\ \E S \in {Live} \cup {CardsOf(c) : c \in DOMAIN FilingsOf} :
          /\ S # {} /\ Cardinality(dropped \cup S) <= MaxDropped
          /\ dropped' = dropped \cup S
    /\ UNCHANGED <<cardDay, known, reports, cards, positions, packets>>

LaunchPaperBook(book) ==
    /\ positions' = positions \cup NewPositions(book)
    /\ UNCHANGED <<cardDay, known, reports, cards, dropped, packets>>

\* The other program reads the packet of a company.
ReadPacket(c, mode) ==
    /\ packets' = [packets EXCEPT ![c] = [card |-> LatestCard(c), reasons |-> PacketReasons(c, mode)]]
    /\ UNCHANGED <<cardDay, known, reports, cards, dropped, positions>>

NextCardDay ==
    /\ cardDay < MaxDay
    /\ cardDay' = cardDay + 1
    /\ UNCHANGED <<known, reports, cards, dropped, positions, packets>>

CardsNext ==
    \/ \E c \in DOMAIN FilingsOf : LinkFiling(c)
    \/ \E c \in DOMAIN FilingsOf, v \in Verdicts : Analyse(c, v)
    \/ ResetReportCards
    \/ \E book \in Books : LaunchPaperBook(book)
    \/ \E c \in DOMAIN FilingsOf, mode \in Modes : ReadPacket(c, mode)
    \/ NextCardDay

CardsSpec == CardsInit /\ [][CardsNext]_cardVars

-----------------------------------------------------------------------------
(* Properties *)

\* The evidence of a book stays what it was entered on until its cards are
\* deleted: however often a company is analysed again after the launch, and
\* whatever other cards are deleted, the card that the id kept in a position
\* names still passes the criteria of entry.  (report_cards.py 40-68,
\* paper_book.py 28-83, backfill_report_cards.py 127-156)
EntriesStayEligible ==
    \A p \in positions : p.card \notin dropped =>
        \A x \in Live : cards[x].id = cards[p.card].id => Lane1Eligible(cards[x].verdict)

\* Only a new card moves a company on, and without a deletion only a filing
\* brings one.  A packet refused for the age of its scoring stays refused for it
\* for as long as that card is the latest: analysing the same filing again renews
\* the report and never the card.  And a new card only adds to the timeline of a
\* company: the events already shown keep their order and what they say, also
\* when the card is built again after a deletion.  (packet_acceptance.py 82-103,
\* report_cards.py 48-52, change_timeline.py 28-54, 184-188)
OnlyFilingsMoveOn ==
    [][/\ packets' # packets =>
            \A c \in DOMAIN FilingsOf :
               ("calculation_timestamp_invalid_or_stale" \in packets[c].reasons /\ packets[c].card = LatestCard(c))
                 => "calculation_timestamp_invalid_or_stale" \in packets'[c].reasons
       /\ Len(cards') > Len(cards) =>
            \A c \in DOMAIN FilingsOf : SubSeq(Timeline(c)', 1, Len(Timeline(c))) = Timeline(c)]_cardVars
=============================================================================
