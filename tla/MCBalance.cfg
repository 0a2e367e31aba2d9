SPECIFICATION FairSpec
CONSTANTS
    Securing = {s1, s2}
    Enabling = {e1}
    Paying = {p1}
    Deposit = 2
    DefaultHoldback = 1
    TopUp = 3
    Rent = 1
    MaxTopUps = 2
    MaxRents = 1
    MaxFaults = 1
    MaxHangs = 1
    MaxCloses = 1
    None = None
INVARIANTS
    BalanceSound
PROPERTIES
    PrivateInTheEnd
\* Everything paid, moved and shown: nothing is left to happen.
CHECK_DEADLOCK FALSE
ACTION_CONSTRAINT Scenario
