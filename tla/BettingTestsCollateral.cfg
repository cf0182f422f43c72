SPECIFICATION Spec
CONSTANTS
    alice = alice
    bob = bob
    capitals_win = capitals_win
    blackhawks_win = blackhawks_win
    moneyline = moneyline
    RakeFeePercentages <- MCRakeFeePercentages
CHECK_DEADLOCK FALSE
PROPERTY CollateralAsSpecified
