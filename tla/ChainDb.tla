------------------------------ MODULE ChainDb ------------------------------
(***************************************************************************)
(* The getters of graphene::chain::database (libraries/chain/db_getter.cpp)*)
(* that read the head of the chain, and the queries with which the SON     *)
(* nodes deregister a SON that stays down: get_sons_to_be_deregistered,    *)
(* get_sons_being_deregistered, get_sons_being_reported_down,              *)
(* create_son_deregister_proposal, create_signed_transaction and           *)
(* is_son_dereg_valid.                                                     *)
(*                                                                         *)
(* The getters and the queries are operators on the state of the database. *)
(* What changes that state is not in db_getter.cpp: blocks, pending        *)
(* transactions, heartbeats, the evaluators of the proposals.  It is the   *)
(* second half of the module, an environment that takes those steps in     *)
(* any order.  Time is in seconds; an object id is a model value.          *)
(***************************************************************************)
EXTENDS Integers, FiniteSets

CONSTANTS
    SonIds,             \* son_id_type: the SONs registered at the start
    Nodes,              \* accounts of the SON nodes that raise proposals
    Parameters,         \* chain_parameters, the fields the queries read
    ActiveWitnesses,    \* global_property_object::active_witnesses
    MaxUndo,            \* bound: sessions _undo_db keeps
    MaxBlockNum         \* bound: blocks of a behaviour

VARIABLES
    dyn_global_prop,    \* *_p_dyn_global_prop_obj
    undo_db,            \* _undo_db: committed sessions, and the pending one
    son_index,          \* son_index with the statistics of each SON
    son_proposal_index, \* son_proposal_index
    processed_trx       \* what create_signed_transaction last returned

vars == <<dyn_global_prop, undo_db, son_index, son_proposal_index, processed_trx>>

Half == 65536
----------------------------------------------------------------------------
(* The getters *)

get_global_properties ==
    [parameters |-> Parameters, active_witnesses |-> ActiveWitnesses]

get_chain_properties == [chain_id |-> "chain_id"]

get_dynamic_global_properties == dyn_global_prop

current_fee_schedule == get_global_properties.parameters.current_fees

head_block_time == get_dynamic_global_properties.time

head_block_num == get_dynamic_global_properties.head_block_number

head_block_id == get_dynamic_global_properties.head_block_id

block_interval == get_global_properties.parameters.block_interval

get_chain_id == get_chain_properties.chain_id

\* _undo_db.size(): every session on the stack, the pending one included.
undo_db_size == undo_db.committed + (IF undo_db.pending THEN 1 ELSE 0)

\* Mutant: the operands of the subtraction swapped.
last_non_undoable_block_num_Swapped ==
    LET d == undo_db_size - head_block_num
    IN  IF d >= 0 THEN [hi |-> 0, lo |-> d] ELSE [hi |-> Half - 1, lo |-> Half + d]

\* head_block_num() - _undo_db.size() in uint32_t, as its two 16-bit halves
\* (the difference leaves TLC's integers when it wraps).
last_non_undoable_block_num ==
    LET d == head_block_num - undo_db_size
    IN  IF d >= 0 THEN [hi |-> 0, lo |-> d] ELSE [hi |-> Half - 1, lo |-> Half + d]

----------------------------------------------------------------------------
(* The queries of the SON nodes *)

ProposalsOf(type) == {p \in son_proposal_index : p.proposal_type = type}

\* Mutant: the filter of get_sons_being_reported_down, its twin.
get_sons_being_deregistered_Twin ==
    {p.son_id : p \in ProposalsOf("son_report_down_proposal")}

get_sons_being_deregistered ==
    {p.son_id : p \in ProposalsOf("son_deregister_proposal")}

get_sons_being_reported_down ==
    {p.son_id : p \in ProposalsOf("son_report_down_proposal")}

\* Mutant: the SON must be down for longer than son_deregister_time.
get_sons_to_be_deregistered_Longer ==
    {s \in DOMAIN son_index :
        /\ son_index[s].status = "in_maintenance"
        /\ head_block_time - son_index[s].last_down_timestamp
               > Parameters.son_deregister_time}

get_sons_to_be_deregistered ==
    {s \in DOMAIN son_index :
        /\ son_index[s].status = "in_maintenance"
        /\ head_block_time - son_index[s].last_down_timestamp
               >= Parameters.son_deregister_time}

\* Mutant: the status of the SON is not looked at.
is_son_dereg_valid_AnyStatus(son_id) ==
    IF son_id \notin DOMAIN son_index THEN "assert_exception"
    ELSE IF head_block_time - son_index[son_id].last_down_timestamp
                >= Parameters.son_deregister_time
         THEN "true" ELSE "false"

\* Mutant: the SON must be down for longer than son_deregister_time.
is_son_dereg_valid_Longer(son_id) ==
    IF son_id \notin DOMAIN son_index THEN "assert_exception"
    ELSE IF /\ son_index[son_id].status = "in_maintenance"
            /\ head_block_time - son_index[son_id].last_down_timestamp
                   > Parameters.son_deregister_time
         THEN "true" ELSE "false"

\* The FC_ASSERT throws for a SON that is no longer in the index.
is_son_dereg_valid(son_id) ==
    IF son_id \notin DOMAIN son_index THEN "assert_exception"
    ELSE IF /\ son_index[son_id].status = "in_maintenance"
            /\ head_block_time - son_index[son_id].last_down_timestamp
                   >= Parameters.son_deregister_time
         THEN "true" ELSE "false"

\* The proposal lives for three rounds of the active witnesses.
create_son_deregister_proposal(son_id, paying_son) ==
    LET son_dereg_op == [payer |-> Parameters.son_account, son_id |-> son_id]
        lifetime == (Parameters.block_interval * Cardinality(ActiveWitnesses)) * 3
    IN  [fee                |-> 0,
         fee_paying_account |-> paying_son,
         proposed_ops       |-> <<son_dereg_op>>,
         expiration_time    |-> head_block_time + lifetime]

\* Mutant: the expiration is the period, not the time it ends.
create_signed_transaction_Period(signing_private_key, op) ==
    [ref_block  |-> head_block_id,
     expiration |-> Parameters.maximum_time_until_expiration,
     operations |-> <<[op EXCEPT !.fee = current_fee_schedule]>>,
     signatures |-> {<<signing_private_key, get_chain_id>>}]

create_signed_transaction(signing_private_key, op) ==
    LET dyn_props == get_dynamic_global_properties
    IN  [ref_block  |-> dyn_props.head_block_id,
         expiration |-> head_block_time
                            + Parameters.maximum_time_until_expiration,
         operations |-> <<[op EXCEPT !.fee = current_fee_schedule]>>,
         signatures |-> {<<signing_private_key, get_chain_id>>}]

----------------------------------------------------------------------------
(* The chain around the queries *)

Sessions == [committed : 0 .. MaxUndo, pending : BOOLEAN]

SonObjects ==
    [status : {"active", "in_maintenance", "deregistered"},
     last_down_timestamp : Nat, last_active_timestamp : Nat]

SonProposal(type, son_id, expiration_time) ==
    [proposal_type |-> type, son_id |-> son_id,
     expiration_time |-> expiration_time]

Init ==
    /\ dyn_global_prop = [head_block_number |-> 0, time |-> 0, head_block_id |-> 0]
    /\ undo_db = [committed |-> 0, pending |-> FALSE]
    /\ son_index = [s \in SonIds |-> [status |-> "active",
                       last_down_timestamp |-> 0, last_active_timestamp |-> 0]]
    /\ son_proposal_index = {}
    /\ processed_trx = {}

\* A block `missed` slots after the last one takes the pending
\* transactions: the pending session is dropped, the session of the block
\* is committed and the oldest one forgotten when there are more than
\* MaxUndo, expired proposals go.
push_block(missed) ==
    LET now == head_block_time + block_interval * (1 + missed)
    IN  /\ head_block_num < MaxBlockNum
        /\ dyn_global_prop' = [head_block_number |-> head_block_num + 1,
                                time |-> now, head_block_id |-> head_block_num + 1]
        /\ undo_db' = [committed |-> IF undo_db.committed < MaxUndo
                                        THEN undo_db.committed + 1 ELSE MaxUndo,
                        pending |-> FALSE]
        /\ son_proposal_index' =
               {p \in son_proposal_index : p.expiration_time > now}
        /\ processed_trx' = {}
        /\ UNCHANGED son_index

\* A transaction pushed between two blocks opens the pending session.
push_transaction ==
    /\ undo_db' = [undo_db EXCEPT !.pending = TRUE]
    /\ UNCHANGED dyn_global_prop

\* A SON node finds a SON to deregister that nobody is deregistering yet,
\* and signs and pushes the proposal.
RaiseDeregister(node, s) ==
    LET op == create_son_deregister_proposal(s, node)
    IN  /\ s \in get_sons_to_be_deregistered \ get_sons_being_deregistered
        /\ processed_trx' = {create_signed_transaction(node, op)}
        /\ son_proposal_index' = son_proposal_index \cup
               {SonProposal("son_deregister_proposal", s, op.expiration_time)}
        /\ UNCHANGED son_index
        /\ push_transaction

\* A SON node reports a SON down that nobody is reporting yet.
RaiseReportDown(s) ==
    /\ s \in DOMAIN son_index \ get_sons_being_reported_down
    /\ son_index[s].status = "active"
    /\ son_proposal_index' = son_proposal_index \cup
           {SonProposal("son_report_down_proposal", s,
                        head_block_time + 3 * block_interval)}
    /\ UNCHANGED <<son_index, processed_trx>>
    /\ push_transaction

\* The SON nodes approve a proposal: son_report_down puts an active SON in
\* maintenance; son_delete, paid by the SON account, needs
\* is_son_dereg_valid.  An operation that throws leaves the SON as it is.
Approve(p) ==
    LET s == p.son_id
        down == /\ p.proposal_type = "son_report_down_proposal"
                /\ s \in DOMAIN son_index
                /\ son_index[s].status = "active"
        dereg == /\ p.proposal_type = "son_deregister_proposal"
                 /\ is_son_dereg_valid(s) = "true"
    IN  /\ p \in son_proposal_index
        /\ son_proposal_index' = son_proposal_index \ {p}
        /\ son_index' =
              IF down THEN [son_index EXCEPT ![s].status = "in_maintenance",
                               ![s].last_down_timestamp = head_block_time]
              ELSE IF dereg THEN [son_index EXCEPT ![s].status = "deregistered"]
              ELSE son_index
        /\ processed_trx' = processed_trx
        /\ push_transaction

\* The heartbeat of a SON that is back.
Heartbeat(s) ==
    /\ s \in DOMAIN son_index
    /\ son_index[s].status \in {"active", "in_maintenance"}
    /\ son_index' = [son_index EXCEPT ![s].status = "active",
                         ![s].last_active_timestamp = head_block_time]
    /\ UNCHANGED <<son_proposal_index, processed_trx>>
    /\ push_transaction

\* son_delete paid by the owner of the SON: the object is removed.
OwnerDeletes(s) ==
    /\ s \in DOMAIN son_index
    /\ son_index' = [t \in DOMAIN son_index \ {s} |-> son_index[t]]
    /\ UNCHANGED <<son_proposal_index, processed_trx>>
    /\ push_transaction

Next ==
    \/ \E missed \in 0 .. 1 : push_block(missed)
    \/ push_transaction /\ UNCHANGED <<son_proposal_index, son_index, processed_trx>>
    \/ \E node \in Nodes, s \in SonIds : RaiseDeregister(node, s)
    \/ \E s \in SonIds : RaiseReportDown(s) \/ Heartbeat(s) \/ OwnerDeletes(s)
    \/ \E p \in son_proposal_index : Approve(p)

Spec == Init /\ [][Next]_vars

\* The deregistration proposal against s that is pending is voted on.
VoteOnDeregister(s) ==
    \E p \in ProposalsOf("son_deregister_proposal") : p.son_id = s /\ Approve(p)

\* The SON nodes run their task again and again, and vote on what is put
\* before them: a node that can raise a deregistration does, and a pending
\* deregistration is voted on.  Nothing says that blocks keep coming, that a
\* SON comes back or that its owner deletes it.
Fairness ==
    \A s \in SonIds :
        /\ WF_vars(\E node \in Nodes : RaiseDeregister(node, s))
        /\ WF_vars(VoteOnDeregister(s))

FairSpec == Spec /\ Fairness

----------------------------------------------------------------------------
(* Properties *)

\* The state of the database stays in its types, the proposals that are
\* pending have not expired, and the transaction create_signed_transaction
\* returns refers to the head block and expires after it.
TypeOK ==
    /\ dyn_global_prop \in [head_block_number : 0 .. MaxBlockNum, time : Nat,
                             head_block_id : 0 .. MaxBlockNum]
    /\ undo_db \in Sessions
    /\ DOMAIN son_index \subseteq SonIds
    /\ \A s \in DOMAIN son_index : son_index[s] \in SonObjects
    /\ \A p \in son_proposal_index :
           p.son_id \in SonIds /\ p.expiration_time > head_block_time
    /\ \A t \in processed_trx :
           t.ref_block = head_block_id /\ t.expiration > head_block_time

\* get_sons_to_be_deregistered and is_son_dereg_valid state the same
\* condition twice, once for the node that raises the proposal and once for
\* the evaluator that applies it: a SON of the index is in the set exactly
\* when its deregistration is valid.
ToBeDeregisteredIsValid ==
    \A s \in DOMAIN son_index :
        s \in get_sons_to_be_deregistered <=> is_son_dereg_valid(s) = "true"

\* A proposal raised when the SON was down may be approved after its
\* heartbeat: is_son_dereg_valid, read again when son_delete is applied,
\* keeps every SON that was heard of within son_deregister_time.
DeregisteredWasSilent ==
    [][\A s \in DOMAIN son_index \cap DOMAIN son_index' :
          son_index[s].status # "deregistered"
              /\ son_index'[s].status = "deregistered"
          => head_block_time - son_index[s].last_active_timestamp
                 >= Parameters.son_deregister_time]_vars

\* get_sons_being_deregistered keeps a node from raising a second proposal
\* against a SON, and a block removes the proposals whose time is over, so
\* that the nodes can raise them again: a SON has at most one deregistration
\* pending on a database, whichever node raises it and however late, and
\* the one pending can still be approved.
OneDeregistrationPending ==
    \A p \in ProposalsOf("son_deregister_proposal") :
        /\ p.expiration_time > head_block_time
        /\ \A q \in ProposalsOf("son_deregister_proposal") :
               p.son_id = q.son_id => p = q

\* last_non_undoable_block_num subtracts in uint32_t.  It is ahead of the
\* head block only when the pending session is counted on top of a
\* history that goes back to the first block, where the difference wraps.
NonUndoableAheadOnlyAtGenesis ==
    LET n == last_non_undoable_block_num
    IN  (n.hi > 0 \/ n.lo > head_block_num)
            => undo_db.pending /\ undo_db.committed = head_block_num

\* A SON that has been down for son_deregister_time does not stay listed
\* by get_sons_to_be_deregistered: it is deregistered, heard of again or
\* deleted, also when proposals against it expire before they are voted on
\* and are raised again, and when other proposals name it meanwhile.
SilentSonIsDeregistered ==
    \A s \in SonIds :
        (s \in get_sons_to_be_deregistered) ~> (s \notin get_sons_to_be_deregistered)
=============================================================================
