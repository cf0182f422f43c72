----------------------------- MODULE MCChainDb -----------------------------
(***************************************************************************)
(* ChainDb for TLC: two SONs, two nodes, blocks every 3 seconds, one       *)
(* witness (a proposal lives 9 seconds), a SON deregistered after 6        *)
(* seconds of silence, a transaction good for 9 seconds, an undo history   *)
(* of 2 sessions, 3 blocks with up to one missed slot before each.  SONs   *)
(* and nodes are not declared symmetric: the run checks a liveness         *)
(* property.                                                               *)
(***************************************************************************)
EXTENDS ChainDb, TLC

MCParameters ==
    [block_interval |-> 3, son_deregister_time |-> 6,
     maximum_time_until_expiration |-> 9, son_account |-> "son_account",
     current_fees |-> 1]

MCActiveWitnesses == {"init0"}
=============================================================================
