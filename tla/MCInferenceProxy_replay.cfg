SPECIFICATION FairSpec
CONSTANTS
    ann = ann
    bob = bob
    a1 = a1
    a2 = a2
    b1 = b1
    None = None
    Agents <- MCAgents
    Calls <- MCCalls
    AgentOf <- MCAgentOf
    Streams <- MCStreams
    Sizes <- MCSizes
    MaxOpen = 2
    Limit = 0
    Minute = 2
    AgentCap = 2
    TotalCap = 3
    MaxChunks = 1
    MaxTime = 0
    MaxFaults = 0
CHECK_DEADLOCK FALSE
INVARIANTS ReplayAnswersTheSameCall
