SPECIFICATION Spec
CONSTANTS
    U32_MAX = 1000
    U64_MAX = 1000
    MaxDeposit = 45
    MaxFee = 6
    Rates = {1, 7, 10, 43, 99}
    USDC_ONE = 200
    RATE_ONE = 10
    CENT = 2
INVARIANTS
    VerdictsSound
    AppForesees
    TopUpFundsDeposit
