-------------------------- MODULE MCLotteryOptions --------------------------
(***************************************************************************)
(* LotteryOptions for TLC.  Shares at most 100% each, among them 10000 and *)
(* 5536: eight of them reach 75536 = 65536 + 10000.  Two large shares do   *)
(* the same with two elements.  The bound of 64 winning tickets is scaled  *)
(* to 3, with one size above it.                                           *)
(***************************************************************************)
EXTENDS LotteryOptions

MCShares == {0, 2500, 5000, 5536, 10000, 37768}
MCTicketPrices == {0, 1}
MCTicketCounts == 0 .. 4
=============================================================================
