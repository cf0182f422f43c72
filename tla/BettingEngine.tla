---------------------------- MODULE BettingEngine ----------------------------
(***************************************************************************)
(* The betting exchange: order book, matching, cancellation, resolution    *)
(* of a betting market group, settlement and rake.                         *)
(*                                                                         *)
(* The implementation is not part of the repository.  The module follows   *)
(* the specification of the engine and, where they fix the behaviour, the  *)
(* expectations of tests/betting/betting_tests.cpp:                        *)
(*   - the amount of a bet is what its bettor puts at risk: a lay bet of   *)
(*     1000 at odds 11 matches a back bet of 100 at odds 11;               *)
(*   - a fee is reserved with the bet, returned when the bet or its market *)
(*     is canceled and kept when the market is settled;                    *)
(*   - rake is taken from what a bettor wins in the group over what they   *)
(*     put into its matched bets;                                          *)
(*   - a group resolves with at most one `win`.                            *)
(* Matched amounts are kept per bettor and market, as the sums settlement  *)
(* needs.  Odds are whole multiples of the precision, so a matched back    *)
(* amount converts to a lay amount without rounding.                       *)
(*                                                                         *)
(* Opposite positions of a bettor on a market are netted: the exposure     *)
(* record holds what the bettor can lose at worst, not the sum of the      *)
(* amounts of the bets.  A bet is funded from the exposure first and from  *)
(* the balance for the rest, and what a match frees is returned when the   *)
(* operation ends, unless a resting bet of the bettor needs it.  The       *)
(* record is kept as one amount: refundable_unmatched_bets is the part of  *)
(* it that matches have freed and resting bets still claim.                *)
(***************************************************************************)
EXTENDS Integers, FiniteSets, SequencesExt

CONSTANTS
    Bettors,              \* accounts
    Markets,              \* betting markets
    Groups,               \* betting market groups
    GroupOf,              \* the group of each market
    Amounts,              \* amounts a bet may be placed for
    OddsValues,           \* odds a bet may ask, in units of 1/ODDS_PRECISION
    Fees,                 \* fees a bet may carry
    ODDS_PRECISION,       \* GRAPHENE_BETTING_ODDS_PRECISION
    RakeFeePercentages,   \* values of the chain parameter betting_rake_fee_percentage
    InitialBalance,       \* what every account starts with
    MaxBets               \* bound of the model on the bets ever placed

GRAPHENE_100_PERCENT == 10000

ASSUME /\ GroupOf \in [Markets -> Groups]
       /\ Amounts \subseteq Int /\ Fees \subseteq Nat /\ OddsValues \subseteq Nat
       /\ ODDS_PRECISION \in Nat \ {0}
       /\ \A o \in OddsValues : o % ODDS_PRECISION = 0
       /\ RakeFeePercentages \subseteq 0 .. GRAPHENE_100_PERCENT
       /\ InitialBalance \in Nat /\ MaxBets \in Nat

VARIABLES
    balance,      \* spendable balance of each account
    bets,         \* the order book: resting bets, with what is left of them
    position,     \* matched amounts of each bettor on each market
    exposure,     \* what each bettor has locked on each market, fees apart
    resolution,   \* the verdict of each market, "unresolved" before it
    feePool,      \* rake and fees collected
    nextId,       \* identifier of the next bet; never reused
    rake_fee_percentage   \* the chain parameter, in 1/100 of a percent

vars == <<balance, bets, position, exposure, resolution, feePool, nextId,
         rake_fee_percentage>>

Sides == {"back", "lay"}
Verdicts == {"win", "not_win", "cancel"}
Bet == [id : Nat, bettor : Bettors, market : Markets, side : Sides,
        amount : Nat, odds : OddsValues, fee : Nat]
Position == [paid : Nat, ifWin : Nat, ifNotWin : Nat, fees : Nat]
NoPosition == [paid |-> 0, ifWin |-> 0, ifNotWin |-> 0, fees |-> 0]

MarketsOf(g) == {m \in Markets : GroupOf[m] = g}
Open(m) == resolution[m] = "unresolved"
Least(a, b) == IF a <= b THEN a ELSE b

\* Sum of f over a finite set.
SumOver(S, f(_)) == MapThenSumSet(f, S)

----------------------------------------------------------------------------
(* Matching *)

\* What the layer risks per unit the backer risks, at odds o.
LayPerBack(o) == (o - ODDS_PRECISION) \div ODDS_PRECISION

\* The back amount that a back bet with backLeft and a lay bet with layLeft
\* can match at odds o.
BackQuantity(backLeft, layLeft, o) == Least(backLeft, layLeft \div LayPerBack(o))

\* The part of a reserved fee that goes with a matched part of an amount.
FeeShare(amount, fee, matched) ==
    IF matched = amount THEN fee ELSE (fee * matched) \div amount

\* Mutant: equal odds do not match.
Compatible_Strict(taker, maker) ==
    /\ maker.market = taker.market
    /\ maker.side # taker.side
    /\ IF taker.side = "back" THEN maker.odds > taker.odds
                              ELSE maker.odds < taker.odds

\* A back bet at odds O matches lay bets at odds >= O; a lay bet at odds O
\* matches back bets at odds <= O.
Compatible(taker, maker) ==
    /\ maker.market = taker.market
    /\ maker.side # taker.side
    /\ IF taker.side = "back" THEN maker.odds >= taker.odds
                              ELSE maker.odds <= taker.odds

\* Mutant: the book in order of arrival only.
Before_TimeOnly(side, r1, r2) == r1.id < r2.id

\* The order in which a taker of `side` meets the makers: the odds that are
\* best for the taker first, the earlier bet first among equal odds.
Before(side, r1, r2) ==
    \/ r1.odds # r2.odds /\ (IF side = "back" THEN r1.odds > r2.odds
                                              ELSE r1.odds < r2.odds)
    \/ r1.odds = r2.odds /\ r1.id < r2.id

\* One match of taker with maker, at the odds of the maker: what each gives.
Fill(taker, maker) ==
    LET back == IF taker.side = "back" THEN taker ELSE maker
        lay  == IF taker.side = "back" THEN maker ELSE taker
        x    == BackQuantity(back.amount, lay.amount, maker.odds)
        y    == x * LayPerBack(maker.odds)
    IN  [taker |-> IF taker.side = "back" THEN x ELSE y,
         maker |-> IF taker.side = "back" THEN y ELSE x]

\* A bet after `matched` of its amount has been matched.
Reduced(bet, matched) ==
    [bet EXCEPT !.amount = @ - matched,
                !.fee = @ - FeeShare(bet.amount, bet.fee, matched)]

\* The position of a bettor after `matched` of `bet` met `other` of the
\* counterparty: the winner of a match takes both amounts.
Matched(pos, bet, matched, other) ==
    [pos EXCEPT ![bet.bettor][bet.market] =
        [paid     |-> @.paid + matched,
         ifWin    |-> @.ifWin + (IF bet.side = "back" THEN matched + other ELSE 0),
         ifNotWin |-> @.ifNotWin + (IF bet.side = "lay" THEN matched + other ELSE 0),
         fees     |-> @.fees + FeeShare(bet.amount, bet.fee, matched)]]

\* One step of the scan of the book: the taker meets one maker.
MatchOne(acc, maker) ==
    LET f == Fill(acc.taker, maker)
        m == Reduced(maker, f.maker)
    IN  IF f.taker = 0 \/ f.maker = 0 THEN acc
        ELSE [taker |-> Reduced(acc.taker, f.taker),
              book  |-> (acc.book \ {maker}) \cup (IF m.amount > 0 THEN {m} ELSE {}),
              pos   |-> Matched(Matched(acc.pos, acc.taker, f.taker, f.maker),
                                maker, f.maker, f.taker)]

\* The whole scan: the book, the positions and the taker after the taker
\* has met every compatible maker in order.
Match(taker) ==
    LET makers == {r \in bets : Compatible(taker, r)}
        queue  == SetToSortSeq(makers, LAMBDA r1, r2 : Before(taker.side, r1, r2))
    IN  FoldLeft(MatchOne, [taker |-> taker, book |-> bets, pos |-> position], queue)

----------------------------------------------------------------------------
(* Exposure *)

\* The amounts of the bets of b that rest on m on one side of the book.
Resting(book, b, m, side) ==
    SumOver({r \in book : r.bettor = b /\ r.market = m /\ r.side = side},
            LAMBDA r : r.amount)

\* Mutant: the resting bets of the bettor are left out, so that the same
\* exposure funds one bet after the other.
Required_PositionOnly(pos, book, b, m) ==
    Max({0, pos[b][m].paid - pos[b][m].ifWin,
            pos[b][m].paid - pos[b][m].ifNotWin})

\* What b must have locked on m: the most b can be out of pocket when the
\* market is settled, should every resting bet of b that loses under the
\* verdict have been matched by then.  Matched bets on both sides cancel:
\* what one pays under a verdict funds what the other loses under it.
Required(pos, book, b, m) ==
    Max({0, pos[b][m].paid + Resting(book, b, m, "lay") - pos[b][m].ifWin,
            pos[b][m].paid + Resting(book, b, m, "back") - pos[b][m].ifNotWin})

\* Mutant: the positions as they were read before the bet was matched.
Exposure_Stale(pos, book) ==
    [b \in Bettors |-> [m \in Markets |-> Required(position, book, b, m)]]

\* The exposure records that go with positions and a book.
Exposure(pos, book) ==
    [b \in Bettors |-> [m \in Markets |-> Required(pos, book, b, m)]]

\* What returns to the balance of b when the records become `held`;
\* negative when b has to deposit.
Released(b, held) ==
    SumOver(Markets, LAMBDA m : exposure[b][m] - held[b][m])

----------------------------------------------------------------------------
(* Operations *)

Init ==
    /\ balance = [b \in Bettors |-> InitialBalance]
    /\ bets = {}
    /\ position = [b \in Bettors |-> [m \in Markets |-> NoPosition]]
    /\ exposure = [b \in Bettors |-> [m \in Markets |-> 0]]
    /\ resolution = [m \in Markets |-> "unresolved"]
    /\ feePool = 0
    /\ nextId = 1
    /\ rake_fee_percentage \in RakeFeePercentages

\* Mutant: the fee is forgotten when the balance is checked.
CanPay_AmountOnly(b, amount, fee) == balance[b] >= amount

\* The bettor can pay the amount of the bet and its fee.
CanPay(b, amount, fee) == balance[b] >= amount + fee

\* bet_place: the bettor deposits what the bet needs beyond the exposure,
\* and the fee; the bet is matched and what is left of it rests in the
\* book; what the matches free returns to the bettors it was locked for.
PlaceBet(b, m, side, amount, odds, fee) ==
    /\ Open(m)
    /\ amount > 0
    /\ odds > ODDS_PRECISION
    /\ nextId <= MaxBets
    /\ LET taker == [id |-> nextId, bettor |-> b, market |-> m, side |-> side,
                     amount |-> amount, odds |-> odds, fee |-> fee]
           deposit == Required(position, bets \cup {taker}, b, m) - exposure[b][m]
           after == Match(taker)
           book  == after.book \cup
                    (IF after.taker.amount > 0 THEN {after.taker} ELSE {})
           held  == Exposure(after.pos, book)
       IN  /\ CanPay(b, deposit, fee)
           /\ bets' = book
           /\ position' = after.pos
           /\ exposure' = held
           /\ balance' = [x \in Bettors |->
                  balance[x] + Released(x, held) - (IF x = b THEN fee ELSE 0)]
    /\ nextId' = nextId + 1
    /\ UNCHANGED <<resolution, feePool, rake_fee_percentage>>

\* Mutant: the fee of a canceled bet is not returned.
Refund_AmountOnly(S, b) == 0

\* The fees b gets back when the resting bets S are canceled; the amounts
\* come back as the exposure they were locked in.
Refund(S, b) == SumOver({r \in S : r.bettor = b}, LAMBDA r : r.fee)

\* bet_cancel: the owner takes a resting bet out of an open market.
CancelBet(b, id) ==
    \E r \in bets :
        /\ r.id = id /\ r.bettor = b
        /\ Open(r.market)
        /\ bets' = bets \ {r}
        /\ exposure' = Exposure(position, bets \ {r})
        /\ balance' = [balance EXCEPT
               ![b] = @ + Released(b, Exposure(position, bets \ {r})) + Refund({r}, b)]
        /\ UNCHANGED <<position, resolution, feePool, nextId,
                       rake_fee_percentage>>

\* betting_market_group_cancel_unmatched_bets: every resting bet of the
\* group is canceled.
CancelUnmatched(g) ==
    LET swept == {r \in bets : GroupOf[r.market] = g}
        held  == Exposure(position, bets \ swept)
    IN  /\ \A m \in MarketsOf(g) : Open(m)
        /\ swept # {}
        /\ bets' = bets \ swept
        /\ exposure' = held
        /\ balance' = [b \in Bettors |->
                          balance[b] + Released(b, held) + Refund(swept, b)]
        /\ UNCHANGED <<position, resolution, feePool, nextId,
                       rake_fee_percentage>>

\* A verdict for every market of the group, at most one of them `win`.
ValidResolutions(g, v) ==
    /\ DOMAIN v = MarketsOf(g)
    /\ Cardinality({m \in DOMAIN v : v[m] = "win"}) <= 1

\* Mutant: a canceled market returns the amounts and keeps the fees.
Payout_CancelKeepsFees(pos, verdict) ==
    CASE verdict = "win"     -> pos.ifWin
      [] verdict = "not_win" -> pos.ifNotWin
      [] verdict = "cancel"  -> pos.paid

\* What a matched position pays under a verdict.
Payout(pos, verdict) ==
    CASE verdict = "win"     -> pos.ifWin
      [] verdict = "not_win" -> pos.ifNotWin
      [] verdict = "cancel"  -> pos.paid + pos.fees

\* What b wins in the group over what b put into its matched bets; canceled
\* markets do not count.
NetWinnings(b, v) ==
    SumOver({m \in DOMAIN v : v[m] # "cancel"},
            LAMBDA m : Payout(position[b][m], v[m]) - position[b][m].paid)

\* Mutant: rake computed for a bettor who lost as well.
Rake_OfLosers(b, v) ==
    (NetWinnings(b, v) * rake_fee_percentage) \div GRAPHENE_100_PERCENT

\* Rake on net winnings, rounded down; none for a bettor who did not win.
Rake(b, v) ==
    IF NetWinnings(b, v) > 0
    THEN (NetWinnings(b, v) * rake_fee_percentage) \div GRAPHENE_100_PERCENT
    ELSE 0

\* Mutant: the fees of settled bets are not credited to the pool.
FeesKept_None(b, v) == 0

\* The fees of the matched bets of b on the markets that are settled.
FeesKept(b, v) ==
    SumOver({m \in DOMAIN v : v[m] # "cancel"}, LAMBDA m : position[b][m].fees)

\* What the settlement of m under a verdict credits to b: the exposure
\* comes back, with what the position wins or without what it loses.
Settled(b, m, verdict) ==
    exposure[b][m] + Payout(position[b][m], verdict) - position[b][m].paid

\* betting_market_group_resolve: the resting bets are swept, every position
\* is paid by the verdict of its market, rake is taken, all in one step.
Resolve(g, v) ==
    LET swept == {r \in bets : GroupOf[r.market] = g}
        paid(b) == SumOver(DOMAIN v, LAMBDA m : Settled(b, m, v[m]))
    IN  /\ \A m \in MarketsOf(g) : Open(m)
        /\ ValidResolutions(g, v)
        /\ bets' = bets \ swept
        /\ balance' = [b \in Bettors |->
                          balance[b] + Refund(swept, b) + paid(b) - Rake(b, v)]
        /\ feePool' = feePool
                      + SumOver(Bettors, LAMBDA b : Rake(b, v) + FeesKept(b, v))
        /\ position' = [b \in Bettors |-> [m \in Markets |->
                          IF m \in DOMAIN v THEN NoPosition ELSE position[b][m]]]
        /\ exposure' = [b \in Bettors |-> [m \in Markets |->
                          IF m \in DOMAIN v THEN 0 ELSE exposure[b][m]]]
        /\ resolution' = [m \in Markets |->
                          IF m \in DOMAIN v THEN v[m] ELSE resolution[m]]
        /\ UNCHANGED <<nextId, rake_fee_percentage>>

Next ==
    \/ \E b \in Bettors, m \in Markets, side \in Sides,
          amount \in Amounts, odds \in OddsValues, fee \in Fees :
          PlaceBet(b, m, side, amount, odds, fee)
    \/ \E b \in Bettors, id \in 1 .. MaxBets : CancelBet(b, id)
    \/ \E g \in Groups : CancelUnmatched(g)
    \/ \E g \in Groups, S \in SUBSET Markets :
          \E v \in [S -> Verdicts] : Resolve(g, v)

Spec == Init /\ [][Next]_vars

----------------------------------------------------------------------------
(* Properties *)

TypeOK ==
    /\ balance \in [Bettors -> Nat]
    /\ bets \subseteq Bet
    /\ \A r \in bets : r.amount > 0 /\ r.id < nextId
    /\ position \in [Bettors -> [Markets -> Position]]
    /\ exposure \in [Bettors -> [Markets -> Nat]]
    /\ resolution \in [Markets -> Verdicts \cup {"unresolved"}]
    /\ feePool \in Nat
    /\ nextId \in 1 .. MaxBets + 1
    /\ rake_fee_percentage \in RakeFeePercentages

\* What b has in the exchange: the exposure, and the fees of the resting
\* and of the matched bets.
Locked(b) ==
    SumOver({r \in bets : r.bettor = b}, LAMBDA r : r.fee)
    + SumOver(Markets, LAMBDA m : exposure[b][m] + position[b][m].fees)

\* What a resting bet adds to what the settlement of its market credits
\* its bettor, once it has been matched in full at its own odds.
Outcome(r, verdict) ==
    CASE verdict = "cancel" -> 0
      [] verdict # "cancel" /\ (r.side = "back") = (verdict = "win") ->
            IF r.side = "back" THEN r.amount * LayPerBack(r.odds)
                               ELSE r.amount \div LayPerBack(r.odds)
      [] OTHER -> 0 - r.amount

\* The netting of bet_place never lets a bettor owe, and locks no more
\* than that takes.  Whatever bets were funded from the exposure of
\* earlier ones, matched in whatever order and parts, and canceled in
\* between: no balance is overdrawn; whichever of the resting bets of a
\* bettor are matched before the market is settled, and whatever the
\* verdict, the settlement credits the bettor an amount that is not
\* negative; and a bettor with exposure is left with nothing in one of
\* these cases.
ExposureCoversEveryOutcome ==
    \A b \in Bettors :
        /\ balance[b] >= 0
        /\ \A m \in Markets : Open(m) =>
              LET mine == {r \in bets : r.bettor = b /\ r.market = m}
                  credit(S, verdict) ==
                      Settled(b, m, verdict) + SumOver(S, LAMBDA r : Outcome(r, verdict))
              IN  /\ \A S \in SUBSET mine, verdict \in Verdicts :
                         credit(S, verdict) >= 0
                  /\ exposure[b][m] > 0 =>
                         \E S \in SUBSET mine, verdict \in Verdicts :
                             credit(S, verdict) = 0

\* No operation creates or destroys value: the balances, what is locked in
\* resting and in matched bets, and the fee pool always add up to what the
\* accounts started with.  bet_place, the cancellations and
\* betting_market_group_resolve only move amounts between them.
FundsConserved ==
    SumOver(Bettors, LAMBDA b : balance[b] + Locked(b)) + feePool
        = Cardinality(Bettors) * InitialBalance

\* As long as no market has been settled with `win` or `not_win`, every
\* bettor owns what they started with: a bet that is canceled, swept, or
\* matched on a market that resolves `cancel` comes back whole, fee
\* included, and no rake is taken.
CancelRestoresBettors ==
    (\A m \in Markets : resolution[m] \in {"unresolved", "cancel"}) =>
        /\ \A b \in Bettors : balance[b] + Locked(b) = InitialBalance
        /\ feePool = 0

\* A lay bet too small to take one unit of a back bet at its odds.
Unmatchable(r) == r.side = "lay" /\ r.amount < LayPerBack(r.odds)

\* After bet_place has scanned the book nothing is left to match: a back
\* bet and a lay bet that rest on the same market at compatible odds cannot
\* match a single unit at the odds of the earlier one.
BookNotCrossed ==
    \A back, lay \in bets :
        ( /\ back.side = "back" /\ lay.side = "lay"
          /\ back.market = lay.market
          /\ lay.odds >= back.odds )
        => LET maker == IF back.id < lay.id THEN back ELSE lay
           IN  BackQuantity(back.amount, lay.amount, maker.odds) = 0

\* Price and time priority of the matching in bet_place: when a placement
\* matches a resting bet, every resting bet of the same market and side
\* that comes before it in the book (better odds for the taker, or the same
\* odds and earlier) has been matched too, unless it is too small to match.
PriorityRespected ==
    [][ nextId' # nextId =>
        \A r1 \in bets \ bets', r0 \in bets \cap bets' :
            ( /\ r0.market = r1.market /\ r0.side = r1.side
              /\ Before(IF r1.side = "back" THEN "lay" ELSE "back", r0, r1) )
            => Unmatchable(r0) ]_vars
=============================================================================
