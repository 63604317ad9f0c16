SPECIFICATION Spec
CONSTANTS
    ann = ann
    bob = bob
    cat = cat
    a1 = a1
    a2 = a2
    a3 = a3
    env = env
    Addresses <- MCAddresses
    ConfigRoster <- MCRoster
    Explicit <- MCExplicit
    EnvAddresses <- MCEnv
    Files <- OneNewcomer
    Grants = 2
    ReadLag = 1
    PollBlocks = 2
    IntervalBlocks = 2
    MaxHead = 5
    MaxEdits = 1
    MaxFaults = 0
    MaxTimeouts = 0
CHECK_DEADLOCK FALSE
INVARIANTS ValuedOnlyFunded
