SPECIFICATION Spec
CONSTANTS
    e1 = e1
    e2 = e2
    e3 = e3
    w1 = w1
    w2 = w2
    s1 = s1
    s2 = s2
    Admin = Admin
    None = None
    Event <- threeEvents
    Wallet <- oneWallet
    WalletOf <- sameWallet
    Amount <- crowdAmount
    Slot <- twoSlots
    AdminAmount = 2
    CapLimit = 2
    Window = 0
    MaxNow = 1
    InitialSupply = 1
    MaxFaults = 1
    MaxSeedFaults = 1
    MaxAttempts = 4
    MaxDupes = 1
    MaxCrashes = 1
    MaxAdmin = 2
    MaxPaidOut = 4
ACTION_CONSTRAINT Scenario
SYMMETRY SlotSymmetry
INVARIANTS
    ReserveSound
    DeliveriesSound
    OvershootBounded
\* Every top-up settled and every budget spent: nothing is left to happen.
CHECK_DEADLOCK FALSE
