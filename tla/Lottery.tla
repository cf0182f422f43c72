------------------------------- MODULE Lottery -------------------------------
(***************************************************************************)
(* A lottery from the check of its options to the draw of its winners:     *)
(* lottery_asset_options::validate (LotteryOptions) and, for options it    *)
(* accepted, database::get_winner_numbers (WinnerNumbers).                 *)
(*                                                                         *)
(* The two meet in the number of winning tickets.  validate() lets         *)
(* winning_tickets hold 64 shares; the draw is asked for one winner for    *)
(* each of them, get_seeds refuses more than 64 winners and has 64 words   *)
(* to draw them from.  The call of get_winner_numbers at the end of a      *)
(* lottery is not part of the repository: EndLottery gives it the number   *)
(* of tickets sold and winning_tickets.size(), as its parameters are       *)
(* named.                                                                  *)
(***************************************************************************)
EXTENDS Integers, Sequences, FiniteSets

CONSTANTS
    Shares, TicketPrices, MaxBenefactors, TicketCounts,   \* of LotteryOptions
    SeedValues, MemberCounts,                             \* of WinnerNumbers
    MaxWinningTickets,   \* the 64 of validate(): winning_tickets.size() <= 64
    MaxCountWinners,     \* the 64 of get_seeds: count_winners <= 64
    NumSeeds             \* the 8 * 8 words get_seeds returns

\* The three limits are written three times in two files; in the code they
\* are the same number.
ASSUME MaxWinningTickets = MaxCountWinners /\ MaxCountWinners = NumSeeds

VARIABLES
    options_pc, n_benefactors, n_tickets, ticket_price, i, total, sum,
    pc, count_members, count_winners, taken, current_seed, result

optionVars == <<options_pc, n_benefactors, n_tickets, ticket_price, i, total, sum>>
drawVars   == <<pc, count_members, count_winners, taken, current_seed, result>>
vars       == <<optionVars, drawVars>>

O == INSTANCE LotteryOptions WITH pc <- options_pc

W == INSTANCE WinnerNumbers WITH WinnerCounts <- TicketCounts

\* The options are being checked; get_winner_numbers is not called yet.
Init ==
    /\ O!Init
    /\ pc = "none"
    /\ count_members = 0 /\ count_winners = 0
    /\ taken = 0 /\ current_seed = W!U32(0, 0) /\ result = <<>>

\* The lottery ends: tickets were sold to count_members holders, and a
\* winner is drawn for every share of winning_tickets.
EndLottery ==
    /\ options_pc = "accepted" /\ pc = "none"
    /\ pc' = "entry"
    /\ count_members' \in MemberCounts
    /\ count_winners' = n_tickets
    /\ UNCHANGED <<optionVars, taken, current_seed, result>>

Next ==
    \/ O!CheckSizes /\ UNCHANGED drawVars
    \/ O!AddBenefactor /\ UNCHANGED drawVars
    \/ O!BenefactorsDone /\ UNCHANGED drawVars
    \/ O!AddTicket /\ UNCHANGED drawVars
    \/ O!CheckTotal /\ UNCHANGED drawVars
    \/ EndLottery
    \/ W!Enter /\ UNCHANGED optionVars
    \/ W!NextSeed /\ UNCHANGED optionVars
    \/ W!Rehash /\ UNCHANGED optionVars
    \/ W!PushWinner /\ UNCHANGED optionVars
    \/ W!Return /\ UNCHANGED optionVars

Spec == Init /\ [][Next]_vars

----------------------------------------------------------------------------
TypeOK ==
    /\ O!TypeOK
    /\ IF pc = "none" THEN drawVars = <<"none", 0, 0, 0, W!U32(0, 0), <<>> >>
                      ELSE W!TypeOK

\* Options that validate() accepts never hand out less than the jackpot
\* (the uint16_t total of the shares).
AcceptedCoversJackpot == O!AcceptedCoversJackpot

\* The refinement mapping: the draw is idle until get_winner_numbers is
\* called, and pending until it returns or throws; the winners to draw are
\* count_winners as the first step of the function clamps it.
D == INSTANCE WinnerDraw WITH
         MaxWinners <- MaxCountWinners,
         members <- count_members,
         goal    <- IF count_members < count_winners THEN count_members
                                                     ELSE count_winners,
         winners <- result,
         outcome <- CASE pc = "none" -> "idle"
                      [] pc \in {"returned", "threw"} -> pc
                      [] OTHER -> "pending"

\* get_winner_numbers implements WinnerDraw: every push_back of the for
\* loop adds the index of a ticket holder that is not in result yet (the
\* while loop re-seeds until it is, with winner_num narrowed to a uint8_t),
\* result is never changed otherwise, the function returns only with a
\* winner for every prize, and throws only before the first winner.
DrawsAsPromised == D!Spec

\* The draw of a lottery whose options were accepted never throws: not the
\* FC_ASSERT( count_winners <= 64 ) of get_seeds, because validate() let
\* winning_tickets hold no more than that, and not the closing
\* FC_ASSERT( result.size() == count_winners ), because the for loop has a
\* word for every winner.  A throw here would stop the block that ends the
\* lottery.
DrawNeverThrows == pc # "threw"
=============================================================================
