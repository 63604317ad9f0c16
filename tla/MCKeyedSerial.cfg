SPECIFICATION FairSpec
CONSTANTS
    a1 = a1
    a2 = a2
    a3 = a3
    b1 = b1
    walletA = walletA
    walletB = walletB
    None = None
    Tasks <- MCTasks
    Keys <- MCKeys
    KeyOf <- MCKeyOf
INVARIANTS OneAtATime
PROPERTIES QueueSpec EveryTaskSettles
