SPECIFICATION Spec
CONSTANTS
    w1 = w1
    w2 = w2
    Wallets <- OneWallet
    MaxAge = 1
    MaxItems = 2
    MaxHead = 4
    MaxPushes = 4
    MaxDrains = 1
    Stuck = {}
INVARIANTS EveryOrderAccountedFor FreshWhenHandedOver
PROPERTIES LegsGoTogether StartsOnlyTheNewest
