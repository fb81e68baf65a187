\* Companies seeded for coverage and held by the filings workers.
SPECIFICATION FairSpec
CONSTANTS
    Companies = {1, 2, 3}
    Unlisted = {}
    NoFacts = {}
    Unmapped = {}
    Unstated = {}
    MachineWorkers = 8
    MaxDatabase = 0
    Reserve = 1
    Growth <- NoGrowth
    Archiving = FALSE
    MaxFaults = 0
PROPERTY SeededGetsUpgraded
