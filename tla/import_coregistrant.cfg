\* One accession is filed jointly by both companies; nothing fails.
SPECIFICATION FairSpec
CONSTANTS
    c1 = c1
    c2 = c2
    a1 = a1
    a2 = a2
    a3 = a3
    Days = {1, 2}
    Ciks = {c1, c2}
    NoCompany = NoCompany
    Accessions = {a1, a2, a3}
    Rows <- RowsShared
    Universes <- Everyone
    Workers = {w1}
    Limit = 2
    Undated = {}
    OtherWriters = FALSE
    DurableCommits = TRUE
    MaxDatabase = 9
    Reserve = 2
    MaxFaults = 0
PROPERTY ImportsComeClean
