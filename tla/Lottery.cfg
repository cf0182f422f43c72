SPECIFICATION Spec
CONSTANTS
    Shares <- MCShares
    TicketPrices <- MCTicketPrices
    TicketCounts <- MCTicketCounts
    MaxBenefactors = 3
    MemberCounts <- MCMemberCounts
    SeedValues <- MCSeedValues
    MaxWinningTickets = 4
    MaxCountWinners = 4
    NumSeeds = 4
CHECK_DEADLOCK FALSE
INVARIANTS
    TypeOK
    AcceptedCoversJackpot
    DrawNeverThrows
PROPERTY DrawsAsPromised
