SPECIFICATION MCScreenSpec
CONSTANTS
    U32_MAX = 1000
    U64_MAX = 1000
    USDC_ONE = 100
    RATE_ONE = 1
    CENT = 1
    w1 = w1
    w2 = w2
    Offers <- screenOffers
    Mints = {"public", "confidential", "unlisted"}
    AllowedMints = {"public"}
    ConfidentialMints = {}
    Deductions <- screenDeductions
    CandidateLists <- screenLists
    Names <- screenNames
    Spellings <- screenSpellings
    Canon <- screenCanon
    Others <- twoWallets
    TenantHistories <- newTenants
    MIN_PERIOD_SECS = 1
    MAX_LEASE_SECS = 1
    CLAIM_WINDOW_SECS = 1
    DISPUTE_WINDOW_SECS = 1
    SELECTION_WINDOW_SECS = 1
    VERDICT_WINDOW_SECS = 1
    NoDispute = NoDispute
    NoView = NoView
    ClockValues = {0, 30}
VIEW ScreenView
SYMMETRY WalletSymmetry
INVARIANTS
    NoOtherRefusal
    ButtonsMatchProgram
PROPERTIES
    ButtonKeepsPromise
