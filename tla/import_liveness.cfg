\* The runs of the scheduler recur, two faults at most, no shared accession.
SPECIFICATION FairSpec
CONSTANTS
    c1 = c1
    c2 = c2
    a1 = a1
    a2 = a2
    a3 = a3
    Days = {1, 2}
    Ciks = {c1, c2}
    NoCompany = NoCompany
    Accessions = {a1, a2, a3}
    Rows <- RowsApart
    Universes <- Everyone
    Workers = {w1, w2}
    Limit = 2
    Undated = {}
    OtherWriters = FALSE
    DurableCommits = TRUE
    MaxDatabase = 9
    Reserve = 2
    MaxFaults = 2
PROPERTIES
    PublishedGetsStored
    ImportsComeClean
