----------------------------- MODULE WinnerDraw -----------------------------
(***************************************************************************)
(* What database::get_winner_numbers promises the code that ends a         *)
(* lottery: asked for count_winners of count_members ticket holders, it    *)
(* returns as many indexes of holders as it was asked for, or as there are *)
(* holders if those are fewer, each holder at most once; it refuses a      *)
(* number of winners above the bound of get_seeds before it draws any.     *)
(* How an index is found (the words of the hash, the re-seeding) is not    *)
(* part of the promise.                                                    *)
(***************************************************************************)
EXTENDS Integers, Sequences

CONSTANTS
    MemberCounts,   \* numbers of ticket holders
    MaxWinners      \* the most winners a draw gives

VARIABLES
    members,    \* ticket holders of the lottery
    goal,       \* winners to draw
    winners,    \* the indexes drawn so far
    outcome     \* "idle", "pending", "returned" or "threw"

drawn == <<members, goal, winners, outcome>>

Init ==
    /\ outcome = "idle"
    /\ members = 0 /\ goal = 0
    /\ winners = <<>>

\* The lottery ends with m ticket holders and g prizes for them.
Call(m, g) ==
    /\ outcome = "idle"
    /\ g <= m
    /\ members' = m /\ goal' = g
    /\ outcome' = "pending"
    /\ UNCHANGED winners

\* One more winner: a holder that has not won yet.
Pick(w) ==
    /\ outcome = "pending"
    /\ Len(winners) < goal
    /\ w \in 0 .. members - 1
    /\ \A k \in DOMAIN winners : winners[k] # w
    /\ winners' = Append(winners, w)
    /\ UNCHANGED <<members, goal, outcome>>

\* Every prize has its winner.
Return ==
    /\ outcome = "pending"
    /\ Len(winners) = goal
    /\ outcome' = "returned"
    /\ UNCHANGED <<members, goal, winners>>

\* More winners than a draw gives: refused before any is drawn.
Refuse ==
    /\ outcome = "pending"
    /\ goal > MaxWinners
    /\ winners = <<>>
    /\ outcome' = "threw"
    /\ UNCHANGED <<members, goal, winners>>

Next ==
    \/ \E m \in MemberCounts : \E g \in 0 .. m : Call(m, g)
    \/ \E w \in 0 .. members - 1 : Pick(w)
    \/ Return
    \/ Refuse

Spec == Init /\ [][Next]_drawn
=============================================================================
