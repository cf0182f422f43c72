------------------------------- MODULE Seeds -------------------------------
(***************************************************************************)
(* database::get_seeds (libraries/chain/db_getter.cpp) on the nodes of the *)
(* chain.  Every node draws the winners of a lottery from the same seed    *)
(* and asset, and the chain needs them to draw the same.                   *)
(*                                                                         *)
(* get_seeds keeps `seeds`, a pointer to the _hash of the sha256 that      *)
(* hash() returned, after the statement that destroyed that temporary, and *)
(* reads a word through it in each round of its loop.  What the read finds *)
(* is up to the build: the words of the first digest while their storage   *)
(* is left alone, the words of the digest of the round before when the     *)
(* build gives the storage to the next temporary.  `reuses` says which     *)
(* build a node runs.  A digest is not computed: word k of the digest of a *)
(* text is the pair of the text and k.                                     *)
(***************************************************************************)
EXTENDS Integers, Sequences

CONSTANTS
    Nodes,          \* the nodes that apply the block
    WordsPerHash,   \* uint32_t words in a sha256, and rounds: 8 in the code
    CountWinners,   \* values of the argument count_winners
    MaxWinners      \* 64 in the code

VARIABLES
    reuses,     \* reuses[n]: the build of n reuses the storage of a temporary
    pc,         \* where the call is on each node
    storage,    \* what the storage `seeds` points to holds
    s,          \* the loop counter
    result      \* the vector being built

vars == <<reuses, pc, storage, s, result>>

Words == 1 .. WordsPerHash

\* fc::sha256::hash(text)._hash, as words.
hash(text) == [k \in Words |-> <<text, k>>]

\* std::string(_random_number_generator._seed) + std::to_string(for_asset)
salted_string == <<"_seed", "for_asset">>

Init ==
    /\ reuses \in [Nodes -> BOOLEAN]
    /\ pc = [n \in Nodes |-> "entry"]
    /\ storage = [n \in Nodes |-> <<>>]
    /\ s = [n \in Nodes |-> 1]
    /\ result = [n \in Nodes |-> <<>>]

\* The assertion, and the digest of the salted seed, a temporary.
HashSeed(n, count_winners) ==
    LET accepted == count_winners <= MaxWinners
    IN  /\ pc[n] = "entry"
        /\ pc' = [pc EXCEPT ![n] = IF accepted THEN "loop" ELSE "threw"]
        /\ storage' = [storage EXCEPT ![n] = IF accepted THEN hash(salted_string) ELSE @]
        /\ UNCHANGED <<reuses, s, result>>

\* A round: seeds[s] is read from the storage, the digest of that word and
\* the asset is another temporary, and its words are pushed.
HashWord(n) ==
    LET sub_seeds == hash(<<storage[n][s[n]], "for_asset">>)
    IN  /\ pc[n] = "loop" /\ s[n] \in Words
        /\ result' = [result EXCEPT ![n] = @ \o sub_seeds]
        /\ storage' = [storage EXCEPT ![n] = IF reuses[n] THEN sub_seeds ELSE @]
        /\ s' = [s EXCEPT ![n] = @ + 1]
        /\ UNCHANGED <<reuses, pc>>

Return(n) ==
    /\ pc[n] = "loop" /\ s[n] \notin Words
    /\ pc' = [pc EXCEPT ![n] = "done"]
    /\ UNCHANGED <<reuses, storage, s, result>>

Next ==
    \E n \in Nodes :
        \/ \E count_winners \in CountWinners : HashSeed(n, count_winners)
        \/ HashWord(n)
        \/ Return(n)

Spec == Init /\ [][Next]_vars

----------------------------------------------------------------------------
\* The winners of a lottery are part of the state every node computes from
\* the block: two nodes that finish get_seeds for the same seed and the
\* same asset hold the same words.
NodesDrawTheSameSeeds ==
    \A m, n \in Nodes :
        pc[m] = "done" /\ pc[n] = "done" => result[m] = result[n]
=============================================================================
