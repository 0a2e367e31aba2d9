SPECIFICATION FairSpec
CONSTANTS
    e1 = e1
    e2 = e2
    e3 = e3
    w1 = w1
    w2 = w2
    s1 = s1
    s2 = s2
    Admin = Admin
    None = None
    Event <- twoEvents
    Wallet <- oneWallet
    WalletOf <- sameWallet
    Amount <- unequal
    Slot <- twoSlots
    AdminAmount = 1
    CapLimit = 2
    Window = 1
    MaxNow = 0
    InitialSupply = 1
    MaxFaults = 2
    MaxSeedFaults = 0
    MaxAttempts = 5
    MaxDupes = 1
    MaxCrashes = 0
    MaxAdmin = 0
    MaxPaidOut = 0
PROPERTIES
    EventSettles
\* Every top-up settled and every budget spent: nothing is left to happen.
CHECK_DEADLOCK FALSE
