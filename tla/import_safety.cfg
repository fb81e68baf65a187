\* Two companies sharing an accession, two workers, two faults, a second
\* writer, a company that may leave the universe, --limit 1, a cap that binds.
SPECIFICATION Spec
CONSTANTS
    c1 = c1
    c2 = c2
    a1 = a1
    a2 = a2
    a3 = a3
    Days = {1, 2}
    Ciks = {c1, c2}
    NoCompany = NoCompany
    Accessions = {a1, a2, a3}
    Rows <- RowsShared
    Universes <- SomeoneLeaves
    Workers = {w1, w2}
    Limit = 1
    Undated = {a3}
    OtherWriters = TRUE
    DurableCommits = TRUE
    MaxDatabase = 3
    Reserve = 2
    MaxFaults = 2
INVARIANTS
    DoneIsStored
    SuccessMeansStored
PROPERTIES
    LedgerSpec
