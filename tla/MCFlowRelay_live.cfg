SPECIFICATION FairSpec
CONSTANTS
    w1 = w1
    w2 = w2
    Wallets <- MCWallets
    MaxAge = 1
    MaxItems = 1
    MaxHead = 3
    MaxPushes = 3
    MaxDrains = 0
    Stuck <- OneStuck
INVARIANTS NothingStranded
PROPERTIES WaitingTakenUp
