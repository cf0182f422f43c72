---------------------------- MODULE MCTestSuite ----------------------------
(***************************************************************************)
(* The tests of tests/betting/betting_tests.cpp checked together.  A       *)
(* behaviour runs one test: a betting scenario on the engine               *)
(* (BettingTests) or a proposal put before the witnesses (ProposalTests).  *)
(* The state of the other kind of test stays as Init leaves it.            *)
(***************************************************************************)
EXTENDS Integers, Sequences

CONSTANTS alice, bob, capitals_win, blackhawks_win, moneyline,
          RakeFeePercentages, NumWitnesses

VARIABLES balance, bets, position, exposure, resolution, feePool, nextId,
          rake_fee_percentage, test, step

VARIABLES approvals, objects, executed

engineVars   == <<balance, bets, position, exposure, resolution, feePool, nextId,
                  rake_fee_percentage>>
proposalVars == <<approvals, objects, executed>>
suiteVars    == <<engineVars, proposalVars, test, step>>

B == INSTANCE BettingTests
P == INSTANCE ProposalTests

\* No rake, the default of 3%, 10% and 20%, as in MCBettingTests.
SuiteRakeFeePercentages == {0, 300, 1000, 2000}

\* The test funds alice and bob and places bets.
IsBettingTest == "funds" \in DOMAIN test

\* No account is funded and no bet placed.
NoEngine ==
    /\ balance = <<>> /\ position = <<>> /\ exposure = <<>> /\ resolution = <<>>
    /\ bets = {} /\ feePool = 0 /\ nextId = 1 /\ rake_fee_percentage = 0

NoProposal == approvals = {} /\ objects = <<>> /\ executed = FALSE

SuiteInit ==
    \/ B!Init /\ NoProposal
    \/ P!Init /\ NoEngine

SuiteNext ==
    \/ IsBettingTest /\ B!PlaceNext /\ UNCHANGED proposalVars
    \/ IsBettingTest /\ B!Conclude /\ UNCHANGED proposalVars
    \/ ~IsBettingTest /\ P!Play /\ UNCHANGED engineVars
    \/ ~IsBettingTest /\ P!Vote /\ UNCHANGED engineVars

SuiteSpec == SuiteInit /\ [][SuiteNext]_suiteVars

----------------------------------------------------------------------------
\* Every BOOST_CHECK_EQUAL on a balance in betting_tests.cpp holds on the
\* engine, for every value of betting_rake_fee_percentage.
TestExpectationsHold == IsBettingTest => B!TestExpectationsHold

\* In a betting test the balances, the bets in the book, the matched
\* positions and the fee pool add up to what alice and bob were given by
\* the transfers of the test.
TestFundsConserved == IsBettingTest => B!TestFundsConserved

\* The BOOST_REQUIRE of try_create_sport hold after each
\* proposal_update_operation of process_proposal_by_witnesses.
RequirementsHold == ~IsBettingTest => P!RequirementsHold
=============================================================================
