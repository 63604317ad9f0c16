SPECIFICATION Spec
CONSTANTS
    ann = ann
    bob = bob
    cat = cat
    a1 = a1
    a2 = a2
    a3 = a3
    env = env
    Addresses <- MCAddresses
    ConfigRoster <- MCRoster
    Explicit <- MCExplicit
    EnvAddresses <- MCEnv
    Files <- MCFiles
    Grants = 2
    ReadLag = 1
    PollBlocks = 2
    IntervalBlocks = 2
    MaxHead = 6
    MaxEdits = 2
    MaxFaults = 1
    MaxTimeouts = 1
CHECK_DEADLOCK FALSE
INVARIANTS OneAgentPerAddress TakenUpInTime NoAgentLost
