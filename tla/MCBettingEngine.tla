-------------------------- MODULE MCBettingEngine --------------------------
(***************************************************************************)
(* BettingEngine for TLC: two bettors and one group of two markets, as in  *)
(* the tests.  Odds 2 and 3 make a lay amount differ from the back amount  *)
(* it matches and leave lay remainders that cannot match; a rake of 50%    *)
(* makes the rounding of the rake visible on amounts of 1 to 3.            *)
(***************************************************************************)
EXTENDS BettingEngine, TLC

CONSTANTS alice, bob, capitals_win, blackhawks_win, moneyline

MCGroupOf == [m \in Markets |-> moneyline]
ExchangeSymmetry == Permutations(Bettors) \cup Permutations(Markets)
=============================================================================
