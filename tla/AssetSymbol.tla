----------------------------- MODULE AssetSymbol -----------------------------
(***************************************************************************)
(* is_valid_symbol (libraries/protocol/asset_ops.cpp): the check of the    *)
(* ticker symbol of an asset, used by asset_create_operation::validate and *)
(* lottery_asset_create_operation::validate.                               *)
(*                                                                         *)
(* A symbol is a sequence of characters.  The characters are the ones the  *)
(* function tells apart: the letters of "BIT", a lower-case letter, a      *)
(* digit, the dot, and a character that is none of these.  The checks in   *)
(* front of the loop are one step, every pass of the loop is one step.     *)
(***************************************************************************)
EXTENDS Integers, Sequences, FiniteSets, SequencesExt

CONSTANTS
    Chars,                              \* the characters of a symbol
    GRAPHENE_MIN_ASSET_SYMBOL_LENGTH,   \* 3 in the code
    GRAPHENE_MAX_ASSET_SYMBOL_LENGTH,   \* 16 in the code
    MaxLength                           \* bound of the model on symbol.size()

Upper == {"B", "I", "T"}
Lower == {"a"}
Digit == {"0"}

ASSUME /\ Chars \subseteq Upper \cup Lower \cup Digit \cup {".", "-"}
       /\ GRAPHENE_MIN_ASSET_SYMBOL_LENGTH \in Nat \ {0}
       /\ GRAPHENE_MAX_ASSET_SYMBOL_LENGTH \in Nat
       /\ MaxLength \in Nat

VARIABLES
    symbol,                \* the argument
    pc,                    \* "checks", "loop", or the value returned
    i,                     \* position of c in the range-for loop
    dot_already_present

vars == <<symbol, pc, i, dot_already_present>>

isalpha(c) == c \in Upper \cup Lower
isupper(c) == c \in Upper
isdigit(c) == c \in Digit

\* Mutant: the loop accepts every letter.
PlainChar_AnyCase(c) == isalpha(c) \/ isdigit(c)

\* if( (isalpha( c ) && isupper( c )) || isdigit(c) ) continue;
PlainChar(c) == (isalpha(c) /\ isupper(c)) \/ isdigit(c)

\* Mutant: the last character is not looked at.
EndsRejected_FrontOnly(s) ==
    \/ Len(s) < GRAPHENE_MIN_ASSET_SYMBOL_LENGTH
    \/ SubSeq(s, 1, 3) = <<"B", "I", "T">>
    \/ Len(s) > GRAPHENE_MAX_ASSET_SYMBOL_LENGTH
    \/ ~isalpha(Head(s))

\* The five early returns in front of the loop, in their order: the ends
\* are read only when the symbol is long enough to have them.
EndsRejected(s) ==
    \/ Len(s) < GRAPHENE_MIN_ASSET_SYMBOL_LENGTH
    \/ SubSeq(s, 1, 3) = <<"B", "I", "T">>
    \/ Len(s) > GRAPHENE_MAX_ASSET_SYMBOL_LENGTH
    \/ ~isalpha(Head(s))
    \/ ~isalpha(Last(s))

Init ==
    /\ symbol \in BoundedSeq(Chars, MaxLength)
    /\ pc = "checks"
    /\ i = 1
    /\ dot_already_present = FALSE

CheckEnds ==
    /\ pc = "checks"
    /\ pc' = IF EndsRejected(symbol) THEN "false" ELSE "loop"
    /\ UNCHANGED <<symbol, i, dot_already_present>>

\* A letter in upper case or a digit: continue.
ScanPlain ==
    /\ pc = "loop" /\ i <= Len(symbol)
    /\ PlainChar(symbol[i])
    /\ i' = i + 1
    /\ UNCHANGED <<symbol, pc, dot_already_present>>

\* A dot: the first one is remembered, the second one is the end.
ScanDot ==
    /\ pc = "loop" /\ i <= Len(symbol)
    /\ ~PlainChar(symbol[i]) /\ symbol[i] = "."
    /\ IF dot_already_present
       THEN pc' = "false" /\ UNCHANGED <<i, dot_already_present>>
       ELSE dot_already_present' = TRUE /\ i' = i + 1 /\ UNCHANGED pc
    /\ UNCHANGED symbol

\* Any other character: return false.
ScanOther ==
    /\ pc = "loop" /\ i <= Len(symbol)
    /\ ~PlainChar(symbol[i]) /\ symbol[i] # "."
    /\ pc' = "false"
    /\ UNCHANGED <<symbol, i, dot_already_present>>

\* The loop ran to the end: return true.
ScanDone ==
    /\ pc = "loop" /\ i > Len(symbol)
    /\ pc' = "true"
    /\ UNCHANGED <<symbol, i, dot_already_present>>

Next == CheckEnds \/ ScanPlain \/ ScanDot \/ ScanOther \/ ScanDone

Spec == Init /\ [][Next]_vars

----------------------------------------------------------------------------
\* The symbols the comment above is_valid_symbol describes: only [A-Z0-9]
\* and '.', [A-Z] at both ends, at most one '.'.
Documented(s) ==
    /\ s # <<>>
    /\ \A k \in DOMAIN s : s[k] \in Upper \cup Digit \cup {"."}
    /\ Head(s) \in Upper /\ Last(s) \in Upper
    /\ Cardinality({k \in DOMAIN s : s[k] = "."}) <= 1

\* The symbols a chain accepts: documented ones of an allowed length that
\* do not start with "BIT".
Reference(s) ==
    /\ Documented(s)
    /\ Len(s) \in GRAPHENE_MIN_ASSET_SYMBOL_LENGTH .. GRAPHENE_MAX_ASSET_SYMBOL_LENGTH
    /\ SubSeq(s, 1, 3) # <<"B", "I", "T">>
=============================================================================
