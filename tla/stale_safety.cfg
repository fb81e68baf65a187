\* Two threads race for what is left of the growth budget of a run and of the
\* database, which holds just what the filings need; runs recur.
SPECIFICATION FairSpec
CONSTANTS
    Companies = {1, 2}
    WithTicker = {1, 2}
    Filings <- FilingsUsual
    NotTimed = NotTimed
    Workers = {w1, w2}
    MaxDatabase = 10
    MaxGrowth = 3
    Reserve = 2
    MaxFaults = 2
INVARIANTS
    WithinBudget
PROPERTIES
    CompleteRunRefreshes
    NothingStaleInTheEnd
CHECK_DEADLOCK FALSE
