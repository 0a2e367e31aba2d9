SPECIFICATION MCIdentitySpec
CONSTANTS
    alice = alice
    lord = lord
    boot = boot
    spare = spare
    Wallet <- wallets
    Person <- people
    Key <- keys
    IssuerKey = boot
    Mint = {"usdc", "taxed"}
    SafeMints = {"usdc"}
    ListingId = {1}
    MAX_ALLOWED_MINTS = 1
    Absent = Absent
    NoKey = NoKey
    None = None
    Corr = {"c1", "c2"}
    Tab = {"t1", "t2"}
    MAX_AGE = 1
    VALIDITY = 2
    HOUR = 2
    MaxStarts = 2
    MaxFaults = 1
    MaxNow = 2
    MaxReviews = 2
INVARIANTS
    RecordMatchesChain
    TrustExpires
    StartsSound
PROPERTIES
    AppliedOnlyVouched
    ReviewSettles
\* The bounds on faults, reviews, starts and the clock may all be used up.
CHECK_DEADLOCK FALSE
