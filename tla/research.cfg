\* Two restatements of a year's figures, two revisions of a valuation and of
\* what the analyses read, three steps of the factors, two of a grading;
\* cards of two companies over two days, two of them deleted; scorings of five
\* papers with two lost texts and one eviction or restart.
SPECIFICATION ResearchSpec
CONSTANTS
    \* Calculations
    Reported <- TwoYears
    Amounts <- SwingsOfSix
    Allocated <- ThreeYears
    MaxRestatements = 2
    \* Valuations
    Base <- Firm
    ValuationChoices <- FirmChoices
    RateUnit = 40
    Horizon = 2
    PriceHorizon = 1
    Halvings = 5
    MaxRevisions = 2
    \* PeerAnalysis
    PeerValues <- ElevenPeers
    MetricValues <- PeerLevels
    MaxFindings = 2
    \* FactorPack
    FactorYears <- FactorPair
    FactorChoices <- FactorRevisions
    FiledFacts <- LateFiled
    MaxFactorSteps = 3
    \* Grades
    Stats0 <- SoundStats
    StatChoices <- StatRevisions
    Evidence0 <- SoundEvidence
    EvidenceChoices <- EvidenceRevisions
    Markers = {"bank", "software", "pipeline", "shell"}
    MaxRegrades = 2
    \* ReportCards
    FilingsOf <- TwoCompanies
    OldCards <- EarlierCards
    Verdicts <- TwoVerdicts
    Books = {"book"}
    Size = 2
    Modes = {"connected_research"}
    Fresh = 0
    MaxDay = 2
    MaxDropped = 2
    \* Evidence
    Papers <- FivePapers
    TextOf <- FourTexts
    LastFilingDay = 4
    MaxLosses = 2
    MaxInterruptions = 1
INVARIANTS
    EntriesStayEligible
    OneReadingPerScoring
    EnginesAgree
    SearchFindsPrice
    EntryNeedsProfit
PROPERTIES
    OnlyFilingsMoveOn
    WeakerNeverRatesBetter
    InputsDecide
    ConcernsNeverShrink
    PercentileIsTrue
    LateFactsDecideNothing
    WorseNeverLooksBetter
CHECK_DEADLOCK FALSE
