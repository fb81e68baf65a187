\* A cap that admits the filings of either company and not of both, commits
\* that a loss of power may undo.
SPECIFICATION FairSpec
CONSTANTS
    c1 = c1
    c2 = c2
    a1 = a1
    a2 = a2
    a3 = a3
    Days = {1, 2}
    Ciks = {c1, c2}
    NoCompany = NoCompany
    Accessions = {a1, a2, a3}
    Rows <- RowsApart
    Universes <- Everyone
    Workers = {w1, w2}
    Limit = 2
    Undated = {}
    OtherWriters = FALSE
    DurableCommits = FALSE
    MaxDatabase = 1
    Reserve = 1
    MaxFaults = 1
INVARIANT DatabaseWithinBudget
PROPERTY RunsEnd
