SPECIFICATION FairSpec
CONSTANTS
    ann = ann
    bob = bob
    a1 = a1
    a2 = a2
    b1 = b1
    None = None
    Agents <- MCAgents
    Calls <- MCCalls
    AgentOf <- MCAgentOf
    Streams <- MCStreams
    Sizes <- MCSizes
    MaxOpen = 1
    Limit = 1
    Minute = 2
    AgentCap = 2
    TotalCap = 3
    MaxChunks = 1
    MaxTime = 2
    MaxFaults = 1
CHECK_DEADLOCK FALSE
INVARIANTS OneLinePerCall CapsHold RateHolds SerialRunReplays
PROPERTIES SlotSpec EveryCallEnds
