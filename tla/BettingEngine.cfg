SPECIFICATION Spec
CONSTANTS
    alice = alice
    bob = bob
    capitals_win = capitals_win
    blackhawks_win = blackhawks_win
    moneyline = moneyline
    Bettors = {alice, bob}
    Markets = {capitals_win, blackhawks_win}
    Groups = {moneyline}
    GroupOf <- MCGroupOf
    Amounts = {0, 1, 2}
    OddsValues = {1, 2, 3}
    Fees = {1}
    ODDS_PRECISION = 1
    RakeFeePercentages = {5000}
    InitialBalance = 5
    MaxBets = 4
SYMMETRY ExchangeSymmetry
CHECK_DEADLOCK FALSE
INVARIANTS
    ExposureCoversEveryOutcome
    FundsConserved
    CancelRestoresBettors
    BookNotCrossed
PROPERTY PriorityRespected
