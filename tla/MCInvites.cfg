SPECIFICATION MCInvitesSpec
CONSTANTS
    U32_MAX = 1000
    U64_MAX = 1000
    Offers <- mediationOffers
    Mints = {"public", "confidential", "unlisted"}
    AllowedMints = {"public"}
    ConfidentialMints = {}
    Deductions <- mediationDeductions
    CandidateLists <- lists
    Names <- names
    Spellings <- spellings
    Canon <- canon
    Others = {w1, w2}
    TenantHistories <- newTenants
    MIN_PERIOD_SECS = 1
    MAX_LEASE_SECS = 1
    CLAIM_WINDOW_SECS = 0
    DISPUTE_WINDOW_SECS = 2
    SELECTION_WINDOW_SECS = 2
    VERDICT_WINDOW_SECS = 1
    NoDispute = NoDispute
    INVITE_TTL_SECS = 1
    MaxInvites = 2
    MaxRestarts = 1
INVARIANTS
    MediationBounded
    AppraiserEndorsedByBoth
    AgreedFeeIsLowest
    InvitesSound
PROPERTIES
    RecordsMatchMoney
    ImplementsEscrow
ACTION_CONSTRAINT Scenario
SYMMETRY symmetry
