SPECIFICATION Spec
CONSTANTS
    Shares <- MCShares
    TicketPrices <- MCTicketPrices
    TicketCounts <- MCTicketCounts
    MaxBenefactors = 6
    MaxWinningTickets = 3
CHECK_DEADLOCK FALSE
INVARIANT AcceptedIsWholeJackpot
