SPECIFICATION Exits
CONSTANTS
    U32_MAX = 1000
    U64_MAX = 1000
    Offers <- liveOffers
    Mints = {"public", "confidential", "unlisted"}
    AllowedMints = {"public", "confidential"}
    ConfidentialMints = {"confidential"}
    Deductions <- smallDeductions
    CandidateLists <- oneList
    Names <- oneName
    Spellings <- oneName
    Canon <- oneCanon
    Others = {"w1"}
    TenantHistories <- newTenants
    MIN_PERIOD_SECS = 1
    MAX_LEASE_SECS = 5
    CLAIM_WINDOW_SECS = 2
    DISPUTE_WINDOW_SECS = 2
    SELECTION_WINDOW_SECS = 2
    VERDICT_WINDOW_SECS = 2
    NoDispute = NoDispute
PROPERTY
    EveryDepositPaidOut
    DiligentTenantMadeWhole
