---------------------------- MODULE ProposalTests ----------------------------
(***************************************************************************)
(* The two tests of tests/betting/betting_tests.cpp that create objects     *)
(* through a proposal approved by the witnesses: try_create_sport and      *)
(* chained_market_create_test.                                             *)
(*                                                                         *)
(* A proposal is the sequence of the operations it proposes, each known by *)
(* the type of object it creates.  The proposal subsystem itself is not    *)
(* part of the repository: it is stated here as the tests use it, a        *)
(* proposal being applied once, when more than half of the active          *)
(* witnesses approve.  How the chain resolves the relative ids the         *)
(* operations of chained_market_create_test carry is not in the            *)
(* repository either, and the ids are left out.                            *)
(***************************************************************************)
EXTENDS Integers, Sequences, FiniteSets, TLC

CONSTANTS
    NumWitnesses      \* db.get_global_properties().active_witnesses.size()

ASSUME NumWitnesses \in Nat /\ NumWitnesses >= 7

VARIABLES
    test,        \* the test that runs
    step,        \* how many of its approvals and removals are done
    approvals,   \* the witnesses whose approval is on the proposal
    objects,     \* the types of the objects created, in order of creation
    executed     \* the proposal was applied

vars == <<test, step, approvals, objects, executed>>

active_witnesses == 1 .. NumWitnesses
Approve(w) == [add |-> TRUE, witness |-> w]
Remove(w)  == [add |-> FALSE, witness |-> w]

----------------------------------------------------------------------------
\* The proposal subsystem.

\* Mutant: half of the witnesses are enough.
Authorized_Half(approved) == 2 * Cardinality(approved) >= NumWitnesses

\* More than half of the active witnesses approve.
Authorized(approved) == 2 * Cardinality(approved) > NumWitnesses

----------------------------------------------------------------------------
\* The tests.  "expect" gives the number of sports the test requires after
\* the step: sport_index.rbegin() == sport_index.rend() is 0.

\* voting_count = size / 2 witnesses for; the 1st out; 6th for; 7th for.
try_create_sport ==
    [name   |-> "try_create_sport",
     ops    |-> <<"sport">>,
     steps  |-> [w \in 1 .. NumWitnesses \div 2 |-> Approve(w)]
                    \o <<Remove(1), Approve(6), Approve(7)>>,
     expect |-> [k \in {NumWitnesses \div 2 + 1, NumWitnesses \div 2 + 2} |-> 0]
                    @@ (NumWitnesses \div 2 + 3 :> 1),
     until_sport |-> FALSE]

\* chained_market_create_test with the operations ops: every witness
\* approves, one after the other, until the sport exists.
chained(ops) ==
    [name   |-> "chained_market_create_test",
     ops    |-> ops,
     steps  |-> [w \in active_witnesses |-> Approve(w)],
     expect |-> <<>>,
     until_sport |-> TRUE]

\* Operations 0 to 5 of the proposal of the test.
chained_market_create_test ==
    chained(<<"sport", "event_group", "event", "betting_market_group",
              "betting_market", "betting_market">>)

\* The steps of process_proposal_by_witnesses in any order: every witness
\* adds and removes its approval as it likes.
any_order(ops) ==
    [name |-> "any_order", ops |-> ops, steps |-> <<>>, expect |-> <<>>,
     until_sport |-> FALSE]

Tests ==
    {try_create_sport, chained_market_create_test,
     any_order(try_create_sport.ops), any_order(chained_market_create_test.ops)}

Sports == Cardinality({k \in DOMAIN objects : objects[k] = "sport"})

----------------------------------------------------------------------------
Init ==
    /\ test \in Tests
    /\ step = 0
    /\ approvals = {}
    /\ objects = <<>>
    /\ executed = FALSE

\* proposal_update_operation: the approval is added or removed, and a
\* proposal that is authorized is applied.
Update(s) ==
    LET approved == IF s.add THEN approvals \cup {s.witness}
                             ELSE approvals \ {s.witness}
        applies  == ~executed /\ Authorized(approved)
    IN  /\ approvals' = approved
        /\ objects'   = IF applies THEN objects \o test.ops ELSE objects
        /\ executed'  = (executed \/ applies)

\* The next step of a test; chained_market_create_test breaks out of its
\* loop when the sport exists.
Play ==
    /\ step < Len(test.steps)
    /\ ~(test.until_sport /\ Sports = 1)
    /\ Update(test.steps[step + 1])
    /\ step' = step + 1
    /\ UNCHANGED test

\* A step of any witness.
Vote ==
    /\ test.name = "any_order"
    /\ \E w \in active_witnesses, add \in BOOLEAN :
          /\ add = (w \notin approvals)
          /\ Update([add |-> add, witness |-> w])
    /\ UNCHANGED <<test, step>>

Next == Play \/ Vote

Spec == Init /\ [][Next]_vars

----------------------------------------------------------------------------
\* The BOOST_REQUIRE of try_create_sport hold: no sport while four and then
\* five witnesses approve, the sport once the sixth approval is on the
\* proposal, the removed approval not counted.
RequirementsHold ==
    step \in DOMAIN test.expect => Sports = test.expect[step]
=============================================================================
