---------------------------- MODULE BettingTests ----------------------------
(***************************************************************************)
(* The betting scenarios of tests/betting/betting_tests.cpp, replayed on   *)
(* BettingEngine.  A behaviour funds alice and bob as one test does,       *)
(* places the bets of that test in its order, and then takes any           *)
(* operation that places no new bet: a cancellation, a sweep of the group, *)
(* a resolution with any verdicts.  The balances the tests check are       *)
(* stated for the states in which the tests check them.                    *)
(*                                                                         *)
(* simple_bet_test_fixture_2 checks no balance: what its comments say of   *)
(* the deposits and of the amounts that return is taken as what it         *)
(* expects.                                                                *)
(***************************************************************************)
EXTENDS Integers, Sequences, FiniteSets

CONSTANTS alice, bob,                     \* ACTORS( (alice)(bob) )
          capitals_win, blackhawks_win,   \* the two markets of the macro
          moneyline,                      \* their group
          RakeFeePercentages

VARIABLES balance, bets, position, exposure, resolution, feePool, nextId,
          rake_fee_percentage,
          test,     \* the test being replayed
          step      \* operations applied so far, plus one

vars == <<balance, bets, position, exposure, resolution, feePool, nextId,
          rake_fee_percentage, test, step>>

GRAPHENE_BETTING_ODDS_PRECISION == 10000
GRAPHENE_1_PERCENT == 100

Actors == {alice, bob}
TestMarkets == {capitals_win, blackhawks_win}

\* CREATE_ICE_HOCKEY_BETTING_MARKET: one group, two markets.
E == INSTANCE BettingEngine WITH
        Bettors <- Actors, Markets <- TestMarkets, Groups <- {moneyline},
        GroupOf <- [m \in TestMarkets |-> moneyline],
        Amounts <- {100, 500, 600, 1000, 1100, 2500, 1000000},
        OddsValues <- {2 * GRAPHENE_BETTING_ODDS_PRECISION,
                       11 * GRAPHENE_BETTING_ODDS_PRECISION},
        Fees <- {2, 10, 20, 22, 50, 20000},
        ODDS_PRECISION <- GRAPHENE_BETTING_ODDS_PRECISION,
        InitialBalance <- 0, MaxBets <- 5

\* place_bet(bettor, market, type, asset(amount), times * PRECISION, fee)
place_bet(bettor, market, side, amount, times, fee) ==
    [bettor |-> bettor, market |-> market, side |-> side, amount |-> amount,
     odds |-> times * GRAPHENE_BETTING_ODDS_PRECISION, fee |-> fee]

\* The argument of resolve_betting_market_group.
resolutions(capitals, blackhawks) ==
    [m \in TestMarkets |-> IF m = capitals_win THEN capitals ELSE blackhawks]

\* transfer(account_id_type(), alice_id, asset(a)), and b to bob.
transfer(a, b) == [x \in Actors |-> IF x = alice THEN a ELSE b]

----------------------------------------------------------------------------
(* The tests: what each account is given, the bets in order, and the      *)
(* resolutions the test makes.                                             *)

simple_bet_win ==
    [name |-> "simple_bet_win", funds |-> transfer(10000, 10000),
     ops |-> << place_bet(bob, capitals_win, "lay", 100, 11, 2),
                place_bet(alice, capitals_win, "back", 1000, 11, 20),
                place_bet(bob, capitals_win, "back", 1100, 2, 22),
                place_bet(alice, capitals_win, "lay", 1100, 2, 22) >>,
     resolves |-> {}]

peerplays_sport_create_test ==
    [name |-> "peerplays_sport_create_test",
     funds |-> transfer(10000000, 10000000),
     ops |-> << place_bet(bob, capitals_win, "lay", 1000000, 2, 1000000 \div 50),
                place_bet(alice, capitals_win, "back", 1000000, 2, 1000000 \div 50) >>,
     resolves |-> {resolutions("win", "cancel")}]

cancel_unmatched_in_betting_group_test ==
    [name |-> "cancel_unmatched_in_betting_group_test",
     funds |-> transfer(10000000, 10000000),
     ops |-> << place_bet(bob, capitals_win, "lay", 1000000, 2, 1000000 \div 50),
                place_bet(alice, capitals_win, "back", 1000000, 2, 1000000 \div 50),
                place_bet(alice, capitals_win, "back", 500, 2, 10),
                place_bet(bob, blackhawks_win, "lay", 600, 2, 20) >>,
     resolves |-> {}]

simple_bet_test_fixture ==
    [name |-> "simple_bet_test_fixture", funds |-> transfer(10000, 10000),
     ops |-> << place_bet(alice, capitals_win, "back", 100, 11, 2),
                place_bet(bob, capitals_win, "lay", 1000, 11, 20),
                place_bet(alice, capitals_win, "lay", 1100, 2, 22),
                place_bet(bob, capitals_win, "back", 1100, 2, 22) >>,
     resolves |-> {resolutions("win", "cancel"),
                   resolutions("not_win", "cancel"),
                   resolutions("cancel", "cancel")}]

\* alice backs and bob lays 1000, matched; alice lays 2500 against her
\* position; bob backs the 500 twice and takes 1000 of it.
simple_bet_test_fixture_2 ==
    [name |-> "simple_bet_test_fixture_2", funds |-> transfer(10000, 10000),
     ops |-> << place_bet(alice, capitals_win, "back", 1000, 2, 20),
                place_bet(bob, capitals_win, "lay", 1000, 2, 20),
                place_bet(alice, capitals_win, "lay", 2500, 2, 50),
                place_bet(bob, capitals_win, "back", 500, 2, 10),
                place_bet(bob, capitals_win, "back", 500, 2, 10) >>,
     resolves |-> {}]

\* alice alone is funded and backs 1000000; bob is not an actor.
peerplays_sport_update_test ==
    [name |-> "peerplays_sport_update_test", funds |-> transfer(10000000, 0),
     ops |-> << place_bet(alice, capitals_win, "back", 1000000, 2, 1000000 \div 50) >>,
     resolves |-> {}]

\* The bets of peerplays_sport_create_test in the other order: alice's back
\* bet rests and bob's lay bet takes it.
peerplays_event_group_update_test ==
    [name |-> "peerplays_event_group_update_test",
     funds |-> transfer(10000000, 10000000),
     ops |-> << place_bet(alice, capitals_win, "back", 1000000, 2, 1000000 \div 50),
                place_bet(bob, capitals_win, "lay", 1000000, 2, 1000000 \div 50) >>,
     resolves |-> {resolutions("win", "cancel")}]

\* The same bet and the same check as peerplays_sport_update_test.
peerplays_event_update_test ==
    [peerplays_sport_update_test EXCEPT !.name = "peerplays_event_update_test"]

peerplays_betting_market_rules_update_test ==
    [peerplays_sport_update_test EXCEPT
        !.name = "peerplays_betting_market_rules_update_test"]

Tests == {simple_bet_win, peerplays_sport_create_test,
          peerplays_sport_update_test, peerplays_event_group_update_test,
          peerplays_event_update_test, peerplays_betting_market_rules_update_test,
          cancel_unmatched_in_betting_group_test, simple_bet_test_fixture,
          simple_bet_test_fixture_2}

Placed == step > Len(test.ops)

----------------------------------------------------------------------------
Init ==
    /\ test \in Tests
    /\ step = 1
    /\ balance = test.funds
    /\ bets = {}
    /\ position = [b \in Actors |-> [m \in TestMarkets |-> E!NoPosition]]
    /\ exposure = [b \in Actors |-> [m \in TestMarkets |-> 0]]
    /\ resolution = [m \in TestMarkets |-> "unresolved"]
    /\ feePool = 0
    /\ nextId = 1
    /\ rake_fee_percentage \in RakeFeePercentages

\* The next place_bet of the test.
PlaceNext ==
    /\ ~Placed
    /\ LET op == test.ops[step]
       IN  E!PlaceBet(op.bettor, op.market, op.side, op.amount, op.odds, op.fee)
    /\ step' = step + 1
    /\ UNCHANGED test

\* After the bets: cancel_unmatched_bets, resolve_betting_market_group with
\* any verdicts, or the cancellation of one bet.
Conclude ==
    /\ Placed
    /\ \/ \E b \in Actors, id \in 1 .. Len(test.ops) : E!CancelBet(b, id)
       \/ E!CancelUnmatched(moneyline)
       \/ \E v \in [TestMarkets -> E!Verdicts] : E!Resolve(moneyline, v)
    /\ step' = step + 1
    /\ UNCHANGED test

Next == PlaceNext \/ Conclude

Spec == Init /\ [][Next]_vars

----------------------------------------------------------------------------
(* What the tests check *)

\* rake_value = net * rake_fee_percentage / GRAPHENE_1_PERCENT / 100
rake_value(net) == ((net * rake_fee_percentage) \div GRAPHENE_1_PERCENT) \div 100

Resolved(capitals, blackhawks) == resolution = resolutions(capitals, blackhawks)

Balances(a, b) == balance[alice] = a /\ balance[bob] = b

\* peerplays_sport_create_test and peerplays_event_group_update_test: the
\* two BOOST_CHECK_EQUAL after the bets and the two after the resolution
\* `win`, `cancel`.
Expect_peerplays_sport_create_test ==
    /\ step = 3 =>
          Balances(10000000 - 1000000 - 20000, 10000000 - 1000000 - 20000)
    /\ step = 4 /\ Resolved("win", "cancel") =>
          Balances(10000000 - 1000000 - 20000 + 2000000
                       - rake_value(-1000000 + 2000000),
                   10000000 - 1000000 - 20000)

\* The update tests with one bet: the BOOST_CHECK_EQUAL after the bet.
Expect_update_test ==
    step = 2 => balance[alice] = 10000000 - 1000000 - 20000

\* cancel_unmatched_in_betting_group_test: after the four bets, and after
\* cancel_unmatched_bets.
Expect_cancel_unmatched_in_betting_group_test ==
    /\ step = 5 =>
          Balances(10000000 - 1000000 - 20000 - 500 - 10,
                   10000000 - 1000000 - 20000 - 600 - 20)
    /\ step = 6 /\ Resolved("unresolved", "unresolved") /\ bets = {} =>
          Balances(10000000 - 1000000 - 20000, 10000000 - 1000000 - 20000)

\* The tests win, not_win and cancel of the suite simple_bet_tests.
Expect_simple_bet_tests ==
    /\ Resolved("win", "cancel") =>
          Balances(10000 - 100 - 2 + 1100 - 1100 - 22 + 0,
                   10000 - 1000 - 20 + 0 - 1100 - 22 + 2200
                       - rake_value(-1000 - 1100 + 2200))
    /\ Resolved("not_win", "cancel") =>
          Balances(10000 - 100 - 2 + 0 - 1100 - 22 + 2200
                       - rake_value(-100 - 1100 + 2200),
                   10000 - 1000 - 20 + 1100 - 1100 - 22 + 0)
    /\ Resolved("cancel", "cancel") => Balances(10000, 10000)

\* The comments of simple_bet_test_fixture_2: the lay bet of 2500 "should
\* require a deposit of 500", the rest funded from the exposure of alice;
\* bob, whose back bets cancel his lay position, "immediately gets 500
\* back" and then "the other 500"; no money returns to alice, and "1500
\* remains of her unmatched lay bet".
Expect_simple_bet_test_fixture_2 ==
    LET alice_paid == 1000 + 20 + 500 + 50
    IN  /\ step = 4 => Balances(10000 - alice_paid, 10000 - 1000 - 20)
        /\ step = 5 => Balances(10000 - alice_paid, 10000 - 1000 - 20 + 500 - 10)
        /\ step = 6 =>
              /\ Balances(10000 - alice_paid, 10000 - 20 - 10 - 10)
              /\ {[side |-> r.side, amount |-> r.amount] : r \in bets}
                     = {[side |-> "lay", amount |-> 1500]}
              /\ exposure[alice][capitals_win] = 1500
              /\ exposure[bob][capitals_win] = 0

\* Every BOOST_CHECK_EQUAL on a balance in betting_tests.cpp holds on the
\* engine, for every value of betting_rake_fee_percentage: the balances
\* after place_bet, after cancel_unmatched_bets, and after
\* resolve_betting_market_group with the verdicts of the test; so does
\* what the comments of simple_bet_test_fixture_2 say of its bets.
TestExpectationsHold ==
    /\ test = simple_bet_test_fixture_2 => Expect_simple_bet_test_fixture_2
    /\ test \in {peerplays_sport_create_test, peerplays_event_group_update_test}
          => Expect_peerplays_sport_create_test
    /\ test \in {peerplays_sport_update_test, peerplays_event_update_test,
                 peerplays_betting_market_rules_update_test}
          => Expect_update_test
    /\ test = cancel_unmatched_in_betting_group_test =>
          Expect_cancel_unmatched_in_betting_group_test
    /\ test = simple_bet_test_fixture => Expect_simple_bet_tests

\* With the amounts, the odds precision and the fees of the tests, whatever
\* follows the bets: the two balances, the bets in the book, the matched
\* positions and the fee pool add up to what alice and bob were given.
TestFundsConserved ==
    E!SumOver(Actors, LAMBDA b : balance[b] + E!Locked(b)) + feePool
        = test.funds[alice] + test.funds[bob]

\* The specification of the engine: "locked collateral for a back bet
\* equals its stake; locked collateral for a lay bet equals
\* stake * (odds - 1)".
SpecifiedCollateral(op) ==
    IF op.side = "back" THEN op.amount ELSE op.amount * E!LayPerBack(op.odds)

\* Every place_bet of the tests by a bettor with nothing on the market yet
\* takes from the bettor the collateral the specification gives for the
\* bet, and the fee.
CollateralAsSpecified ==
    [][ ~Placed =>
        LET op == test.ops[step]
        IN  exposure[op.bettor][op.market] = 0 =>
                balance[op.bettor] - balance'[op.bettor]
                    = SpecifiedCollateral(op) + op.fee ]_vars
=============================================================================
