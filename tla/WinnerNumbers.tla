--------------------------- MODULE WinnerNumbers ---------------------------
(***************************************************************************)
(* database::get_seeds and database::get_winner_numbers                    *)
(* (libraries/chain/db_getter.cpp): the draw of the winning ticket indexes *)
(* of a lottery.  get_seeds hashes the chain's random seed into 64 words   *)
(* of 32 bits; get_winner_numbers turns them into count_winners distinct   *)
(* indexes below count_members, re-seeding a word with a linear            *)
(* congruential step for as long as the index it gives is already taken.   *)
(*                                                                         *)
(* The hash is abstracted: every word get_seeds returns is an arbitrary    *)
(* member of SeedValues, chosen when the for loop reaches it.  The         *)
(* arithmetic on a word is not abstracted: it is the 32-bit unsigned       *)
(* arithmetic of the code.  TLC's integers are 32-bit signed, so a word is *)
(* a record of its two 16-bit halves.                                      *)
(***************************************************************************)
EXTENDS Integers, Sequences, FiniteSets

CONSTANTS
    SeedValues,        \* the words sha256 may produce, as records [hi, lo]
    NumSeeds,          \* words get_seeds returns: 8 * 8 = 64 in the code
    MaxCountWinners,   \* bound asserted by get_seeds: 64 in the code
    MemberCounts,      \* values of the argument count_members
    WinnerCounts       \* values of the argument count_winners (a uint8_t)

Half == 65536                      \* 2^16
Word == [hi : 0 .. Half - 1, lo : 0 .. Half - 1]
U32(h, l) == [hi |-> h, lo |-> l]

ASSUME /\ SeedValues \subseteq Word
       /\ NumSeeds \in Nat \ {0}
       /\ MaxCountWinners \in Nat
       /\ MemberCounts \subseteq 0 .. 32767
       /\ WinnerCounts \subseteq 0 .. 255

VARIABLES
    pc,              \* where the call is
    count_members,   \* the argument
    count_winners,   \* the argument, lowered to count_members at entry
    taken,           \* words of `seeds` the for loop has consumed
    current_seed,    \* *current_seed, the word the loop is working on
    result           \* the vector being built

vars == <<pc, count_members, count_winners, taken, current_seed, result>>

----------------------------------------------------------------------------
(* 32-bit unsigned arithmetic *)

\* s % m for a 32-bit s, without leaving TLC's integers (m < 2^15).
Mod32(s, m) == ((s.hi % m) * (Half % m) + s.lo) % m

\* Mutant: winner_num declared uint32_t, the remainder is not narrowed.
winner_num_Wide(s, members) == Mod32(s, members)

\* uint8_t winner_num = *current_seed % count_members: the remainder is
\* narrowed to 8 bits.
winner_num(s, members) == Mod32(s, members) % 256

\* (*current_seed * 1103515245 + 12345) / 65536 in uint32_t: the upper half
\* of the low 32 bits of the product.  1103515245 = 16838 * 2^16 + 20077.
Reseed(s) ==
    LET low  == s.lo * 20077 + 12345
        high == ((s.hi * 20077) % Half) + ((s.lo * 16838) % Half) + (low \div Half)
    IN  U32(0, high % Half)

\* FC_ASSERT( count_winners <= 64 ) of get_seeds.
GetSeedsAccepts(winners) == winners <= MaxCountWinners

\* The for loop leaves through `break` when the vector is full, or through
\* its condition when the 64 words are used up.
LoopEnds(res, used) == Len(res) >= count_winners \/ used = NumSeeds

Taken(res) == {res[i] : i \in DOMAIN res}

----------------------------------------------------------------------------
(* The call.  Init is the entry of get_winner_numbers with its arguments;  *)
(* the clamp of count_winners and the two early exits are the first step.  *)

Init ==
    /\ pc = "entry"
    /\ count_members \in MemberCounts
    /\ count_winners \in WinnerCounts
    /\ taken = 0
    /\ current_seed = U32(0, 0)
    /\ result = <<>>

\* if( count_members < count_winners ) count_winners = count_members;
\* if( count_winners == 0 ) return result;   auto seeds = get_seeds(...)
Enter ==
    /\ pc = "entry"
    /\ LET winners == IF count_members < count_winners
                      THEN count_members ELSE count_winners
       IN  /\ count_winners' = winners
           /\ pc' = CASE winners = 0               -> "returned"
                      [] ~GetSeedsAccepts(winners) -> "threw"
                      [] OTHER                     -> "for"
    /\ UNCHANGED <<count_members, taken, current_seed, result>>

\* for( current_seed = seeds.begin(); ... ): the next word of the hash.
NextSeed ==
    /\ pc = "for"
    /\ \E s \in SeedValues : current_seed' = s
    /\ taken' = taken + 1
    /\ pc' = "while"
    /\ UNCHANGED <<count_members, count_winners, result>>

\* The body of the while loop: the index is in result, step the generator.
Rehash ==
    /\ pc = "while"
    /\ winner_num(current_seed, count_members) \in Taken(result)
    /\ current_seed' = Reseed(current_seed)
    /\ UNCHANGED <<pc, count_members, count_winners, taken, result>>

\* Mutant: the index is pushed without the search of result.
PushWinner_Unchecked ==
    /\ pc = "while"
    /\ result' = Append(result, winner_num(current_seed, count_members))
    /\ pc' = IF LoopEnds(result', taken) THEN "assert" ELSE "for"
    /\ UNCHANGED <<count_members, count_winners, taken, current_seed>>

\* The while loop is left: push_back, then `break` or the next iteration.
PushWinner ==
    /\ pc = "while"
    /\ winner_num(current_seed, count_members) \notin Taken(result)
    /\ result' = Append(result, winner_num(current_seed, count_members))
    /\ pc' = IF LoopEnds(result', taken) THEN "assert" ELSE "for"
    /\ UNCHANGED <<count_members, count_winners, taken, current_seed>>

\* FC_ASSERT(result.size() == count_winners); return result;
Return ==
    /\ pc = "assert"
    /\ pc' = IF Len(result) = count_winners THEN "returned" ELSE "threw"
    /\ UNCHANGED <<count_members, count_winners, taken, current_seed, result>>

Next == Enter \/ NextSeed \/ Rehash \/ PushWinner \/ Return

Spec == Init /\ [][Next]_vars

\* The function runs on one thread and nothing suspends it: a step that is
\* possible is taken.
FairSpec == Spec /\ WF_vars(Next)

----------------------------------------------------------------------------
TypeOK ==
    /\ pc \in {"entry", "for", "while", "assert", "returned", "threw"}
    /\ count_members \in MemberCounts
    /\ count_winners \in 0 .. 255
    /\ taken \in 0 .. NumSeeds
    /\ current_seed \in Word
    /\ result \in Seq(0 .. 255)

\* get_winner_numbers returns or throws: the while loop that re-seeds a
\* taken index is expected to find a free one.
Terminates == <>(pc \in {"returned", "threw"})
=============================================================================
