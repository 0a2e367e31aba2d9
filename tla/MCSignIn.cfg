SPECIFICATION Spec
CONSTANTS
    Wallet = {"ada", "bob"}
    Tab = {"t1"}
    Owner <- owner
    Request = {r1, r2}
    MaxPending = 3
    MaxPerWallet = 2
    MaxAttempts = 2
    ChallengeTtl = 2
    SessionTtl = 2
    Skew = 1
    MaxNow = 2
    MaxChallenges = 4
    MaxLogins = 3
    MaxRestarts = 1
    None = None
INVARIANTS
    ChallengesHold
    SessionsSound
ACTION_CONSTRAINT Scenario
SYMMETRY symmetry
CHECK_DEADLOCK FALSE
