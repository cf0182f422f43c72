SPECIFICATION SuiteSpec
CONSTANTS
    alice = alice
    bob = bob
    capitals_win = capitals_win
    blackhawks_win = blackhawks_win
    moneyline = moneyline
    RakeFeePercentages <- SuiteRakeFeePercentages
    NumWitnesses = 10
CHECK_DEADLOCK FALSE
INVARIANTS
    TestExpectationsHold
    TestFundsConserved
    RequirementsHold
