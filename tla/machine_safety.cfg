\* Four companies under the first four workers, with an archive, a fault, a
\* company whose facts the SEC does not have, one whose facts do not map, one
\* without a statement, and a database cap of two reserves.
SPECIFICATION Spec
CONSTANTS
    Companies = {1, 2, 3, 4}
    Unlisted = {}
    NoFacts = {2}
    Unmapped = {3}
    Unstated = {1}
    MachineWorkers = 4
    MaxDatabase = 2
    Reserve = 1
    Growth <- SomeGrowth
    Archiving = TRUE
    MaxFaults = 1
INVARIANTS
    StageMatchesData
    OvershootBounded
PROPERTY
    ParkedIsLeftAlone
