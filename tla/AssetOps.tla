------------------------------- MODULE AssetOps -------------------------------
(***************************************************************************)
(* The stateless validation of the asset operations                        *)
(* (libraries/protocol/asset_ops.cpp): asset_options::validate,            *)
(* bitasset_options::validate and the validate() of every asset operation. *)
(*                                                                         *)
(* An operation is a record; its field "type" names the operation.  A bit  *)
(* field (flags, issuer_permissions) is the set of the bits that are set,  *)
(* so & is intersection; "unknown_bit" stands for any bit outside          *)
(* ASSET_ISSUER_PERMISSION_MASK.  An asset is [amount, asset_id], a price  *)
(* is [base, quote].  An fc::optional is the set of its values, empty or  *)
(* a singleton.  validate() either returns or throws: one step from      *)
(* "pending" to "accepted" or "threw".                                     *)
(*                                                                         *)
(* price::validate, price::is_null, asset * price, price_feed::validate    *)
(* and price_feed::is_for belong to the Graphene protocol library and are  *)
(* not part of this repository; they are stated here as that library       *)
(* defines them.                                                           *)
(***************************************************************************)
EXTENDS Integers, FiniteSets, Sequences

CONSTANTS
    Operations,                  \* the operations handed to validate()
    GRAPHENE_MAX_SHARE_SUPPLY,
    GRAPHENE_100_PERCENT,
    SymbolChars,                 \* the characters symbols are made of
    MIN_SYMBOL_LENGTH,
    MAX_SYMBOL_LENGTH

VARIABLES
    op,        \* the operation being validated
    verdict    \* "pending", "accepted" or "threw"

vars == <<op, verdict>>

core == 0                    \* asset_id_type(): the core asset

ASSET_ISSUER_PERMISSION_MASK ==
    {"charge_market_fee", "white_list", "override_authority",
     "transfer_restricted", "disable_force_settle", "global_settle",
     "disable_confidential", "witness_fed_asset", "committee_fed_asset"}

\* is_valid_symbol, by the reference definition that the run of AssetSymbol
\* shows it to compute.
Symbol == INSTANCE AssetSymbol
              WITH Chars <- SymbolChars,
                   GRAPHENE_MIN_ASSET_SYMBOL_LENGTH <- MIN_SYMBOL_LENGTH,
                   GRAPHENE_MAX_ASSET_SYMBOL_LENGTH <- MAX_SYMBOL_LENGTH,
                   MaxLength <- MAX_SYMBOL_LENGTH,
                   symbol <- op.symbol, pc <- "checks", i <- 1,
                   dot_already_present <- FALSE

is_valid_symbol(s) == Symbol!Reference(s)

----------------------------------------------------------------------------
\* The price and feed helpers of the protocol library.

price_validate(p) ==
    /\ p.base.amount > 0
    /\ p.quote.amount > 0
    /\ p.base.asset_id # p.quote.asset_id

\* *this == price(): equal asset ids and equal cross products with 0/0.
price_is_null(p) == p.base.asset_id = core /\ p.quote.asset_id = core

\* asset * price: the asset of the result as an optional, empty when the
\* multiplication throws: the amount of the side of a that divides is not
\* positive, the result is above GRAPHENE_MAX_SHARE_SUPPLY, or neither
\* side of the price is in the asset of a.
asset_times_price(a, p) ==
    LET converted(from, to) ==
            IF /\ from.amount > 0
               /\ (a.amount * to.amount) \div from.amount <= GRAPHENE_MAX_SHARE_SUPPLY
            THEN {to.asset_id} ELSE {}
    IN  CASE a.asset_id = p.base.asset_id  -> converted(p.base, p.quote)
          [] a.asset_id = p.quote.asset_id -> converted(p.quote, p.base)
          [] OTHER                         -> {}

price_feed_validate(f) ==
    /\ ~price_is_null(f.settlement_price) => price_validate(f.settlement_price)
    /\ f.ratios_in_range

price_feed_is_for(f, asset_id) ==
    CASE ~price_is_null(f.settlement_price)   -> f.settlement_price.base.asset_id = asset_id
      [] ~price_is_null(f.core_exchange_rate) -> f.core_exchange_rate.base.asset_id = asset_id
      [] OTHER                                -> TRUE

----------------------------------------------------------------------------
\* The validate() methods of asset_ops.cpp.

asset_options_validate(o) ==
    /\ o.max_supply > 0
    /\ o.max_supply <= GRAPHENE_MAX_SHARE_SUPPLY
    /\ o.market_fee_percent <= GRAPHENE_100_PERCENT
    /\ o.max_market_fee >= 0 /\ o.max_market_fee <= GRAPHENE_MAX_SHARE_SUPPLY
    /\ o.issuer_permissions \ ASSET_ISSUER_PERMISSION_MASK = {}
    /\ "global_settle" \notin o.flags
    /\ ~({"witness_fed_asset", "committee_fed_asset"} \subseteq o.flags)
    /\ price_validate(o.core_exchange_rate)
    /\ \/ o.core_exchange_rate.base.asset_id = core
       \/ o.core_exchange_rate.quote.asset_id = core
    /\ (o.whitelist_authorities # {} \/ o.blacklist_authorities # {})
           => "white_list" \in o.flags
    /\ \A item \in o.whitelist_markets : item \notin o.blacklist_markets
    /\ \A item \in o.blacklist_markets : item \notin o.whitelist_markets

bitasset_options_validate(b) ==
    /\ b.minimum_feeds > 0
    /\ b.force_settlement_offset_percent <= GRAPHENE_100_PERCENT
    /\ b.maximum_force_settlement_volume <= GRAPHENE_100_PERCENT

dividend_asset_options_validate(d) == TRUE

\* Mutant: the exchange rate is not tried on one unit of the core asset.
asset_create_validate_NoDummy(o) ==
    /\ o.fee.amount >= 0
    /\ is_valid_symbol(o.symbol)
    /\ asset_options_validate(o.common_options)
    /\ o.common_options.issuer_permissions
           \cap {"disable_force_settle", "global_settle"} # {}
         => o.bitasset_opts # {}
    /\ o.is_prediction_market =>
         /\ o.bitasset_opts # {}
         /\ "global_settle" \in o.common_options.issuer_permissions
    /\ \A b \in o.bitasset_opts : bitasset_options_validate(b)
    /\ o.precision <= 12

\* asset_create_operation::validate and, with the same body,
\* lottery_asset_create_operation::validate.
asset_create_validate(o) ==
    /\ o.fee.amount >= 0
    /\ is_valid_symbol(o.symbol)
    /\ asset_options_validate(o.common_options)
    /\ o.common_options.issuer_permissions
           \cap {"disable_force_settle", "global_settle"} # {}
         => o.bitasset_opts # {}
    /\ o.is_prediction_market =>
         /\ o.bitasset_opts # {}
         /\ "global_settle" \in o.common_options.issuer_permissions
    /\ \A b \in o.bitasset_opts : bitasset_options_validate(b)
    /\ asset_times_price([amount |-> 1, asset_id |-> core],
                         o.common_options.core_exchange_rate) = {1}
    /\ o.precision <= 12

lottery_asset_create_validate(o) == asset_create_validate(o)

\* Mutant: the unit that is converted is one of the core asset, as in
\* asset_create_operation::validate.
asset_update_validate_CoreUnit(o) ==
    /\ o.fee.amount >= 0
    /\ \A new_issuer \in o.new_issuer : o.issuer # new_issuer
    /\ asset_options_validate(o.new_options)
    /\ asset_times_price([amount |-> 1, asset_id |-> core],
                         o.new_options.core_exchange_rate) = {1}

asset_update_validate(o) ==
    /\ o.fee.amount >= 0
    /\ \A new_issuer \in o.new_issuer : o.issuer # new_issuer
    /\ asset_options_validate(o.new_options)
    /\ asset_times_price([amount |-> 1, asset_id |-> o.asset_to_update],
                         o.new_options.core_exchange_rate) = {core}

\* Mutant: the feed is not checked to be a feed of the asset.
asset_publish_feed_validate_AnyAsset(o) ==
    /\ o.fee.amount >= 0
    /\ price_feed_validate(o.feed)
    /\ ~price_is_null(o.feed.core_exchange_rate)
         => price_validate(o.feed.core_exchange_rate)
    /\ ~price_is_null(o.feed.settlement_price)
    /\ ~price_is_null(o.feed.core_exchange_rate)

asset_publish_feed_validate(o) ==
    /\ o.fee.amount >= 0
    /\ price_feed_validate(o.feed)
    /\ ~price_is_null(o.feed.core_exchange_rate)
         => price_validate(o.feed.core_exchange_rate)
    /\ (~price_is_null(o.feed.settlement_price)
          /\ ~price_is_null(o.feed.core_exchange_rate))
         => o.feed.settlement_price.base.asset_id
              = o.feed.core_exchange_rate.base.asset_id
    /\ ~price_is_null(o.feed.settlement_price)
    /\ ~price_is_null(o.feed.core_exchange_rate)
    /\ price_feed_is_for(o.feed, o.asset_id)

asset_reserve_validate(o) ==
    /\ o.fee.amount >= 0
    /\ o.amount_to_reserve.amount <= GRAPHENE_MAX_SHARE_SUPPLY
    /\ o.amount_to_reserve.amount > 0

asset_issue_validate(o) ==
    /\ o.fee.amount >= 0
    /\ o.asset_to_issue.amount <= GRAPHENE_MAX_SHARE_SUPPLY
    /\ o.asset_to_issue.amount > 0
    /\ o.asset_to_issue.asset_id # core

asset_fund_fee_pool_validate(o) ==
    /\ o.fee.amount >= 0
    /\ o.fee.asset_id = core
    /\ o.amount > 0

asset_settle_validate(o) ==
    /\ o.fee.amount >= 0
    /\ o.amount.amount >= 0

asset_update_bitasset_validate(o) ==
    /\ o.fee.amount >= 0
    /\ bitasset_options_validate(o.new_options)

asset_update_dividend_validate(o) ==
    /\ o.fee.amount >= 0
    /\ dividend_asset_options_validate(o.new_options)

asset_update_feed_producers_validate(o) == o.fee.amount >= 0

asset_global_settle_validate(o) ==
    /\ o.fee.amount >= 0
    /\ o.asset_to_settle = o.settle_price.base.asset_id

asset_claim_fees_validate(o) ==
    /\ o.fee.amount >= 0
    /\ o.amount_to_claim.amount > 0

----------------------------------------------------------------------------
Init ==
    /\ op \in Operations
    /\ verdict = "pending"

\* One call of validate(): it returns, or an FC_ASSERT throws.
Validate(type, returns) ==
    /\ verdict = "pending"
    /\ op.type = type
    /\ verdict' = IF returns THEN "accepted" ELSE "threw"
    /\ UNCHANGED op

AssetCreate        == Validate("asset_create", asset_create_validate(op))
LotteryAssetCreate == Validate("lottery_asset_create", lottery_asset_create_validate(op))
AssetUpdate        == Validate("asset_update", asset_update_validate(op))
AssetPublishFeed   == Validate("asset_publish_feed", asset_publish_feed_validate(op))
AssetReserve       == Validate("asset_reserve", asset_reserve_validate(op))
AssetIssue         == Validate("asset_issue", asset_issue_validate(op))
AssetFundFeePool   == Validate("asset_fund_fee_pool", asset_fund_fee_pool_validate(op))
AssetSettle        == Validate("asset_settle", asset_settle_validate(op))
AssetUpdateBitasset == Validate("asset_update_bitasset", asset_update_bitasset_validate(op))
AssetUpdateDividend == Validate("asset_update_dividend", asset_update_dividend_validate(op))
AssetUpdateFeedProducers ==
    Validate("asset_update_feed_producers", asset_update_feed_producers_validate(op))
AssetGlobalSettle  == Validate("asset_global_settle", asset_global_settle_validate(op))
AssetClaimFees     == Validate("asset_claim_fees", asset_claim_fees_validate(op))

Next ==
    \/ AssetCreate \/ LotteryAssetCreate \/ AssetUpdate \/ AssetPublishFeed
    \/ AssetReserve \/ AssetIssue \/ AssetFundFeePool \/ AssetSettle
    \/ AssetUpdateBitasset \/ AssetUpdateDividend \/ AssetUpdateFeedProducers
    \/ AssetGlobalSettle \/ AssetClaimFees

Spec == Init /\ [][Next]_vars

----------------------------------------------------------------------------
\* The two assets a price relates.
Pair(p) == {p.base.asset_id, p.quote.asset_id}

Usable(p) == p.base.amount > 0 /\ p.quote.amount > 0

Accepted(types) == verdict = "accepted" /\ op.type \in types

\* An asset that asset_create_operation::validate or
\* lottery_asset_create_operation::validate accepts has a core exchange rate
\* with two positive amounts between the core asset and asset 1, the stand-in
\* for the asset that does not exist yet: asset_options::validate, which
\* wants the core asset on one side, and the conversion of asset(1), which
\* wants asset 1 as the result, leave no other rate.
CreatedRateIsCoreToNewAsset ==
    Accepted({"asset_create", "lottery_asset_create"}) =>
        /\ Pair(op.common_options.core_exchange_rate) = {core, 1}
        /\ Usable(op.common_options.core_exchange_rate)

\* An update that asset_update_operation::validate accepts prices the
\* updated asset in the core asset.  The rate cannot have the same asset on
\* both sides, so no update of the core asset itself is ever accepted.
UpdatedRateIsAssetToCore ==
    Accepted({"asset_update"}) =>
        /\ Pair(op.new_options.core_exchange_rate) = {op.asset_to_update, core}
        /\ op.asset_to_update # core

\* A feed that asset_publish_feed_operation::validate accepts carries a
\* settlement price and a core exchange rate that are both set, both with
\* positive amounts, and both with the asset of the operation as their base:
\* is_for looks at the settlement price alone, the comparison of the two
\* bases carries the result over to the core exchange rate.
FeedPricesTheAsset ==
    Accepted({"asset_publish_feed"}) =>
        \A p \in {op.feed.settlement_price, op.feed.core_exchange_rate} :
            /\ p.base.asset_id = op.asset_id
            /\ Usable(p)
            /\ p.quote.asset_id # op.asset_id
=============================================================================
