-------------------------- MODULE OperationValidate --------------------------
(***************************************************************************)
(* operation_validate (libraries/protocol/include/graphene/protocol/       *)
(* operations.hpp): the validate() of the operation that the variant       *)
(* holds.  The operations are those of AssetOps and MarketOps.  The        *)
(* creation of an asset calls is_valid_symbol once its fee is seen not to  *)
(* be negative: the scan of AssetSymbol runs on the symbol of the          *)
(* operation, step by step, before validate() gives its verdict.           *)
(***************************************************************************)
EXTENDS MarketOps

VARIABLES symbol, pc, i, dot_already_present

scan == <<symbol, pc, i, dot_already_present>>

S == INSTANCE AssetSymbol
         WITH Chars <- SymbolChars,
              GRAPHENE_MIN_ASSET_SYMBOL_LENGTH <- MIN_SYMBOL_LENGTH,
              GRAPHENE_MAX_ASSET_SYMBOL_LENGTH <- MAX_SYMBOL_LENGTH,
              MaxLength <- MAX_SYMBOL_LENGTH + 1

Creations == {"asset_create", "lottery_asset_create"}

\* validate() reaches is_valid_symbol.
CallsScan(o) == o.type \in Creations /\ o.fee.amount >= 0

ValidateInit ==
    /\ Init
    /\ symbol = IF CallsScan(op) THEN op.symbol ELSE <<>>
    /\ pc = IF CallsScan(op) THEN "checks" ELSE "none"
    /\ i = 1
    /\ dot_already_present = FALSE

\* A step of is_valid_symbol.
Scan(step) == step /\ UNCHANGED vars

\* The verdict of validate(), after is_valid_symbol returned if it is
\* called.
Verdict(validate) ==
    /\ pc \in {"none", "true", "false"}
    /\ validate
    /\ UNCHANGED scan

operation_validate ==
    \/ Scan(S!CheckEnds) \/ Scan(S!ScanPlain) \/ Scan(S!ScanDot)
    \/ Scan(S!ScanOther) \/ Scan(S!ScanDone)
    \/ Verdict(AssetCreate) \/ Verdict(LotteryAssetCreate)
    \/ Verdict(AssetUpdate) \/ Verdict(AssetPublishFeed)
    \/ Verdict(AssetReserve) \/ Verdict(AssetIssue)
    \/ Verdict(AssetFundFeePool) \/ Verdict(AssetSettle)
    \/ Verdict(AssetUpdateBitasset) \/ Verdict(AssetUpdateDividend)
    \/ Verdict(AssetUpdateFeedProducers) \/ Verdict(AssetGlobalSettle)
    \/ Verdict(AssetClaimFees)
    \/ Verdict(LimitOrderCreate) \/ Verdict(LimitOrderCancel)
    \/ Verdict(CallOrderUpdate)
    \/ Verdict(CommitteeMemberCreate) \/ Verdict(CommitteeMemberUpdate)
    \/ Verdict(CommitteeMemberUpdateGlobalParameters)

ValidateSpec == ValidateInit /\ [][operation_validate]_<<vars, scan>>

----------------------------------------------------------------------------
\* is_valid_symbol returns true exactly for the symbols of the reference
\* definition by which asset_create_operation::validate is stated: the
\* early returns (which test the ends with isalpha alone) and the loop
\* (which also wants upper case) together accept no symbol with a
\* lower-case end and reject no documented symbol of allowed length.
VerdictIsReference ==
    pc \in {"true", "false"} => ((pc = "true") <=> is_valid_symbol(op.symbol))
=============================================================================
