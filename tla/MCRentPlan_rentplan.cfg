SPECIFICATION MCSpec
CONSTANTS
    w1 = w1
    w2 = w2
    A = A
    B = B
    None = None
    Wallet <- wallets
    Context <- contexts
    Message <- messages
    PlanTTL = 1
    ReplayWindow = 1
    Hour = 1
    Day = 2
    MaxPreparations = 2
    MaxLivePlans = 1
    WalletRate = 3
    GlobalRate = 4
    WalletLamports = 8
    GlobalLamports = 9
    WorstCase = 3
    MaxNow = 2
    MaxRequests = 5
    LAMPORTS_PER_SIGNATURE = 1
    DEFAULT_CU_PER_INSTRUCTION = 1
    MAX_CU_PER_TRANSACTION = 2
    MICRO = 2
    ATA_RENT_LAMPORTS = 2
    Policy <- policy
    Rules <- rules
    TokenAccount <- accounts
    FeePayer = FeePayer
    Treasury = Treasury
    Sponsorable <- sponsorable
    Setups <- setups
    Caps <- caps
    Dust = 1
    StartPurse = 6
    MaxAsks = 3
    MaxRestarts = 1
    MaxPurse = 7
    MaxMoves = 2
INVARIANTS
    TypeOK
    ContextsOwnedOnce
    CapsHold
    CosignedOncePerWindow
    SpendWithinCaps
    DustOnce
PROPERTIES
    RollbackExact
ACTION_CONSTRAINT
    Scenario
\* The clock and the requests are bounded: the system may stop.
CHECK_DEADLOCK FALSE
