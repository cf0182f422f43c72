------------------------------ MODULE MarketOps ------------------------------
(***************************************************************************)
(* The stateless validation of the market operations                       *)
(* (libraries/protocol/market.cpp) and of the committee operations         *)
(* (libraries/protocol/committee_member.cpp), as further operations of     *)
(* AssetOps.  A url is its size; chain_parameters::validate is not part of *)
(* this repository, the parameters carry its verdict.                      *)
(***************************************************************************)
EXTENDS AssetOps

CONSTANT GRAPHENE_MAX_URL_LENGTH

limit_order_create_validate(o) ==
    /\ o.amount_to_sell.asset_id # o.min_to_receive.asset_id
    /\ o.fee.amount >= 0
    /\ o.amount_to_sell.amount > 0
    /\ o.min_to_receive.amount > 0

limit_order_cancel_validate(o) == o.fee.amount >= 0

call_order_update_validate(o) ==
    /\ o.fee.amount >= 0
    /\ o.delta_collateral.asset_id # o.delta_debt.asset_id
    /\ o.delta_collateral.amount # 0 \/ o.delta_debt.amount # 0

committee_member_create_validate(o) ==
    /\ o.fee.amount >= 0
    /\ o.url < GRAPHENE_MAX_URL_LENGTH

committee_member_update_validate(o) ==
    /\ o.fee.amount >= 0
    /\ \A new_url \in o.new_url : new_url < GRAPHENE_MAX_URL_LENGTH

chain_parameters_validate(p) == p.valid

committee_member_update_global_parameters_validate(o) ==
    /\ o.fee.amount >= 0
    /\ chain_parameters_validate(o.new_parameters)

----------------------------------------------------------------------------
LimitOrderCreate == Validate("limit_order_create", limit_order_create_validate(op))
LimitOrderCancel == Validate("limit_order_cancel", limit_order_cancel_validate(op))
CallOrderUpdate  == Validate("call_order_update", call_order_update_validate(op))
CommitteeMemberCreate ==
    Validate("committee_member_create", committee_member_create_validate(op))
CommitteeMemberUpdate ==
    Validate("committee_member_update", committee_member_update_validate(op))
CommitteeMemberUpdateGlobalParameters ==
    Validate("committee_member_update_global_parameters",
             committee_member_update_global_parameters_validate(op))

MarketNext ==
    \/ LimitOrderCreate \/ LimitOrderCancel \/ CallOrderUpdate
    \/ CommitteeMemberCreate \/ CommitteeMemberUpdate
    \/ CommitteeMemberUpdateGlobalParameters
=============================================================================
