--------------------------- MODULE LotteryOptions ---------------------------
(***************************************************************************)
(* lottery_asset_options::validate (libraries/protocol/asset_ops.cpp): the *)
(* stateless check of the options of a lottery asset.  The jackpot is      *)
(* divided between the benefactors and the winning tickets; each gets a    *)
(* share in hundredths of a percent, and the check adds the shares up in a *)
(* uint16_t and compares the total with GRAPHENE_100_PERCENT.              *)
(*                                                                         *)
(* The two vectors are not kept: their sizes are fixed when the call       *)
(* starts and the share of an element is chosen when its loop reaches it.  *)
(* `sum` is a history variable, the sum of the shares as integers; the     *)
(* code has no such value.                                                 *)
(***************************************************************************)
EXTENDS Integers

CONSTANTS
    Shares,              \* values of benefactor.share and of a winning ticket
    TicketPrices,        \* values of ticket_price.amount
    MaxBenefactors,      \* bound of the model on benefactors.size()
    MaxWinningTickets,   \* 64 in the code
    TicketCounts         \* values of winning_tickets.size()

GRAPHENE_100_PERCENT == 10000
UInt16 == 0 .. 65535

ASSUME /\ Shares \subseteq UInt16
       /\ TicketPrices \subseteq Int
       /\ MaxBenefactors \in Nat
       /\ MaxWinningTickets \in Nat
       /\ TicketCounts \subseteq Nat

VARIABLES
    pc,                \* where validate() is
    n_benefactors,     \* benefactors.size()
    n_tickets,         \* winning_tickets.size()
    ticket_price,      \* ticket_price.amount
    i,                 \* elements of the current vector already added
    total,             \* the uint16_t accumulator
    sum                \* history: the shares added, without wrap-around

vars == <<pc, n_benefactors, n_tickets, ticket_price, i, total, sum>>
args == <<n_benefactors, n_tickets, ticket_price>>

\* Mutant: one winning ticket more than get_seeds has words for.
SizeAccepted_OneMore(n) == n <= MaxWinningTickets + 1

\* FC_ASSERT( winning_tickets.size() <= 64 );
SizeAccepted(n) == n <= MaxWinningTickets

\* total += share on a uint16_t.
AddShare(acc, share) == (acc + share) % 65536

\* Mutant: a comparison that lets a short distribution through.
TotalAccepted_AtMost(acc) == acc <= GRAPHENE_100_PERCENT

\* FC_ASSERT( total == GRAPHENE_100_PERCENT, ... )
TotalAccepted(acc) == acc = GRAPHENE_100_PERCENT

Init ==
    /\ pc = "sizes"
    /\ n_benefactors \in 0 .. MaxBenefactors
    /\ n_tickets \in TicketCounts
    /\ ticket_price \in TicketPrices
    /\ i = 0 /\ total = 0 /\ sum = 0

\* FC_ASSERT( winning_tickets.size() <= 64 );
\* FC_ASSERT( ticket_price.amount >= 1 );   uint16_t total = 0;
CheckSizes ==
    /\ pc = "sizes"
    /\ pc' = IF SizeAccepted(n_tickets) /\ ticket_price >= 1
             THEN "benefactors" ELSE "rejected"
    /\ UNCHANGED <<args, i, total, sum>>

\* for( auto benefactor : benefactors ) total += benefactor.share;
AddBenefactor ==
    /\ pc = "benefactors" /\ i < n_benefactors
    /\ \E share \in Shares :
          /\ total' = AddShare(total, share)
          /\ sum' = sum + share
    /\ i' = i + 1
    /\ UNCHANGED <<pc, args>>

BenefactorsDone ==
    /\ pc = "benefactors" /\ i = n_benefactors
    /\ pc' = "tickets" /\ i' = 0
    /\ UNCHANGED <<args, total, sum>>

\* for( auto share : winning_tickets ) total += share;
AddTicket ==
    /\ pc = "tickets" /\ i < n_tickets
    /\ \E share \in Shares :
          /\ total' = AddShare(total, share)
          /\ sum' = sum + share
    /\ i' = i + 1
    /\ UNCHANGED <<pc, args>>

\* The closing FC_ASSERT.
CheckTotal ==
    /\ pc = "tickets" /\ i = n_tickets
    /\ pc' = IF TotalAccepted(total) THEN "accepted" ELSE "rejected"
    /\ UNCHANGED <<args, i, total, sum>>

Next == CheckSizes \/ AddBenefactor \/ BenefactorsDone \/ AddTicket \/ CheckTotal

Spec == Init /\ [][Next]_vars

----------------------------------------------------------------------------
TypeOK ==
    /\ pc \in {"sizes", "benefactors", "tickets", "accepted", "rejected"}
    /\ n_benefactors \in 0 .. MaxBenefactors
    /\ n_tickets \in TicketCounts
    /\ ticket_price \in TicketPrices
    /\ i \in Nat
    /\ total \in UInt16
    /\ sum \in Nat

\* Options that validate() accepts never hand out less than the jackpot:
\* the shares of the benefactors and of the winning tickets add up to at
\* least GRAPHENE_100_PERCENT, and to it exactly up to multiples of 2^16.
AcceptedCoversJackpot ==
    pc = "accepted" =>
        /\ sum >= GRAPHENE_100_PERCENT
        /\ (sum - GRAPHENE_100_PERCENT) % 65536 = 0

\* The closing assertion of validate() says that the distribution equals
\* GRAPHENE_100_PERCENT: options that are accepted divide the jackpot
\* exactly, no more.
AcceptedIsWholeJackpot == pc = "accepted" => sum = GRAPHENE_100_PERCENT
=============================================================================
