------------------------------ MODULE MCLottery ------------------------------
(***************************************************************************)
(* Lottery for TLC.  The three 64 of the code (shares of winning tickets,  *)
(* winners get_seeds allows, words of the hash) are each scaled to 4, with *)
(* one size of winning_tickets above it.  Shares of 10000 and 0 fill a     *)
(* distribution of any size; two shares of 37768 wrap the total to 10000.  *)
(* Tickets are sold to no one, to fewer holders than there are prizes, to  *)
(* as many, to more, and to 300, above the range of winner_num.            *)
(***************************************************************************)
EXTENDS Lottery

MCShares == {0, 5000, 10000, 37768}
MCTicketPrices == {0, 1}
MCTicketCounts == 0 .. 5
MCMemberCounts == {0, 1, 2, 3, 4, 5, 300}

\* Words of the hash: small ones, the largest, one whose upper half is not
\* zero and that the generator sends to 0, and members of the short cycles
\* of the generator (0 and 43878 are fixed points, 960 and 42918 exchange
\* each other).
MCSeedValues ==
    { [hi |-> h, lo |-> l] : h \in {0}, l \in {0, 1, 2, 960, 42918, 43878} }
        \cup { [hi |-> 65535, lo |-> 65535], [hi |-> 64631, lo |-> 42627] }
=============================================================================
