SPECIFICATION FairSpec
CONSTANTS
    SeedValues <- MCSeedValues
    NumSeeds = 4
    MaxCountWinners = 4
    MemberCounts <- MCMemberCounts
    WinnerCounts <- MCWinnerCounts
CHECK_DEADLOCK FALSE
PROPERTY Terminates
