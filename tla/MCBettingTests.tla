--------------------------- MODULE MCBettingTests ---------------------------
(***************************************************************************)
(* BettingTests for TLC.  The tests read betting_rake_fee_percentage from  *)
(* the chain; the replay takes no rake, the default of 3%, 10% and 20%.    *)
(* Above 21% the product of the net winnings of the two tests with bets of *)
(* 1000000 and the percentage leaves TLC's integers.                       *)
(***************************************************************************)
EXTENDS BettingTests

MCRakeFeePercentages == {0, 300, 1000, 2000}
=============================================================================
