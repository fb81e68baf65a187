\* Four companies, one unknown to the SEC, under the first three workers, one fault.
SPECIFICATION FairSpec
CONSTANTS
    Companies = {1, 2, 3, 4}
    Unlisted = {1}
    NoFacts = {2}
    Unmapped = {}
    Unstated = {}
    MachineWorkers = 3
    MaxDatabase = 0
    Reserve = 1
    Growth <- NoGrowth
    Archiving = FALSE
    MaxFaults = 1
PROPERTY AllButHeldFinish
