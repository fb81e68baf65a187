\* A 6-K/A makes its company stale but anchors no card.
SPECIFICATION FairSpec
CONSTANTS
    Companies = {1, 2}
    WithTicker = {1, 2}
    Filings <- FilingsAmended
    NotTimed = NotTimed
    Workers = {w1, w2}
    MaxDatabase = 0
    MaxGrowth = 0
    Reserve = 0
    MaxFaults = 0
PROPERTY NothingStaleInTheEnd
CHECK_DEADLOCK FALSE
