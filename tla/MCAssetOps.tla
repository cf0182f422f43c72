------------------------------ MODULE MCAssetOps ------------------------------
(***************************************************************************)
(* The operations AssetOps is checked on.  Every FC_ASSERT of asset_ops.cpp*)
(* holds for some of them and fails for others.  The options are taken      *)
(* from three families (every exchange rate with plain options, every      *)
(* combination of numbers, every combination of bits and lists) because    *)
(* their product is out of reach and no assertion relates two families.    *)
(* is_valid_symbol is run on every symbol of up to MAX_SYMBOL_LENGTH + 1   *)
(* characters, in a creation that is plain otherwise.                      *)
(***************************************************************************)
EXTENDS OperationValidate, SequencesExt

AssetIds == {0, 1, 2}
Fees     == {-1, 0}
\* amounts at and around the bounds 0 and GRAPHENE_MAX_SHARE_SUPPLY
Supplies == {-1, 0, 1, GRAPHENE_MAX_SHARE_SUPPLY, GRAPHENE_MAX_SHARE_SUPPLY + 1}
\* the sides of a price: none, one, and more than asset * price may return
Assets   == [amount : {0, 1, GRAPHENE_MAX_SHARE_SUPPLY + 1}, asset_id : AssetIds]
Prices   == [base : Assets, quote : Assets]
Percents == {GRAPHENE_100_PERCENT, GRAPHENE_100_PERCENT + 1}

Rate(b, q) == [base  |-> [amount |-> 1, asset_id |-> b],
               quote |-> [amount |-> 1, asset_id |-> q]]

Plain ==
    [max_supply |-> 1, market_fee_percent |-> 0, max_market_fee |-> 0,
     issuer_permissions |-> {}, flags |-> {},
     core_exchange_rate |-> Rate(0, 1),
     whitelist_authorities |-> {}, blacklist_authorities |-> {},
     whitelist_markets |-> {}, blacklist_markets |-> {}]

RateOptions == {[Plain EXCEPT !.core_exchange_rate = p] : p \in Prices}

NumberOptions ==
    {[Plain EXCEPT !.max_supply = s, !.market_fee_percent = f,
                   !.max_market_fee = m] :
        s \in Supplies, f \in Percents, m \in Supplies}

BitOptions ==
    {[Plain EXCEPT !.issuer_permissions = p, !.flags = f,
                   !.whitelist_authorities = wa, !.blacklist_authorities = ba,
                   !.whitelist_markets = wm, !.blacklist_markets = bm] :
        p  \in SUBSET {"global_settle", "disable_force_settle", "unknown_bit"},
        f  \in SUBSET {"white_list", "global_settle", "witness_fed_asset",
                       "committee_fed_asset"},
        wa \in SUBSET {"nathan"}, ba \in SUBSET {"dan"},
        wm \in SUBSET {1}, bm \in SUBSET {1}}

Options == RateOptions \cup NumberOptions \cup BitOptions

BitassetOptions ==
    [minimum_feeds : {0, 1},
     force_settlement_offset_percent : Percents,
     maximum_force_settlement_volume : Percents]

Symbols == {<<"I", "B", "T">>, <<"B", "I", "T", "I">>, <<"I", "0">>,
            <<"T", ".", "I">>, <<"T", "a", "I">>}

Feeds == [settlement_price : Prices, core_exchange_rate : Prices,
          ratios_in_range : BOOLEAN]

Bitasset(feeds) == [minimum_feeds |-> feeds,
                    force_settlement_offset_percent |-> 0,
                    maximum_force_settlement_volume |-> 0]

\* every option, with and without bitasset options and prediction market
OptionCreates ==
    [type : {"asset_create", "lottery_asset_create"}, fee : [amount : {0}],
     symbol : {<<"I", "B", "T">>}, common_options : Options,
     bitasset_opts : {{}, {Bitasset(1)}},
     is_prediction_market : BOOLEAN, precision : {12}]

\* every combination of the fields of the operation itself
FieldCreates ==
    [type : {"asset_create", "lottery_asset_create"}, fee : [amount : Fees],
     symbol : Symbols, common_options : {Plain},
     bitasset_opts : {{}, {Bitasset(1)}, {Bitasset(0)}},
     is_prediction_market : BOOLEAN, precision : {12, 13}]

\* every symbol, in an operation that reaches is_valid_symbol
SymbolCreates ==
    [type : {"asset_create"}, fee : [amount : {0}],
     symbol : BoundedSeq(SymbolChars, MAX_SYMBOL_LENGTH + 1),
     common_options : {Plain}, bitasset_opts : {{}},
     is_prediction_market : {FALSE}, precision : {12}]

Creates == OptionCreates \cup FieldCreates \cup SymbolCreates

Urls == {0, GRAPHENE_MAX_URL_LENGTH - 1, GRAPHENE_MAX_URL_LENGTH}

MarketOperations ==
    [type : {"limit_order_create"}, fee : [amount : Fees],
     amount_to_sell : [amount : Supplies, asset_id : AssetIds],
     min_to_receive : [amount : Supplies, asset_id : AssetIds]]
    \cup [type : {"limit_order_cancel"}, fee : [amount : Fees]]
    \cup [type : {"call_order_update"}, fee : [amount : Fees],
          delta_collateral : [amount : {-1, 0, 1}, asset_id : AssetIds],
          delta_debt : [amount : {-1, 0, 1}, asset_id : AssetIds]]
    \cup [type : {"committee_member_create"}, fee : [amount : Fees], url : Urls]
    \cup [type : {"committee_member_update"}, fee : [amount : Fees],
          new_url : {{}} \cup {{u} : u \in Urls}]
    \cup [type : {"committee_member_update_global_parameters"},
          fee : [amount : Fees], new_parameters : [valid : BOOLEAN]]

Updates ==
    [type : {"asset_update"}, fee : [amount : Fees],
     issuer : {"nathan"}, new_issuer : SUBSET {"nathan"} \cup {{"dan"}},
     asset_to_update : AssetIds, new_options : Options]

MCOperations ==
    Creates \cup Updates \cup MarketOperations
    \cup [type : {"asset_publish_feed"}, fee : [amount : Fees],
          asset_id : AssetIds, feed : Feeds]
    \cup [type : {"asset_reserve"}, fee : [amount : Fees],
          amount_to_reserve : [amount : Supplies, asset_id : AssetIds]]
    \cup [type : {"asset_issue"}, fee : [amount : Fees],
          asset_to_issue : [amount : Supplies, asset_id : AssetIds]]
    \cup [type : {"asset_fund_fee_pool"},
          fee : [amount : Fees, asset_id : AssetIds], amount : Supplies]
    \cup [type : {"asset_settle"}, fee : [amount : Fees],
          amount : [amount : Supplies, asset_id : AssetIds]]
    \cup [type : {"asset_update_bitasset"}, fee : [amount : Fees],
          new_options : BitassetOptions]
    \cup [type : {"asset_update_dividend"}, fee : [amount : Fees],
          new_options : {[minimum_fee_percentage |-> 0]}]
    \cup [type : {"asset_update_feed_producers"}, fee : [amount : Fees]]
    \cup [type : {"asset_global_settle"}, fee : [amount : Fees],
          asset_to_settle : AssetIds, settle_price : Prices]
    \cup [type : {"asset_claim_fees"}, fee : [amount : Fees],
          amount_to_claim : [amount : Supplies, asset_id : AssetIds]]
=============================================================================
