------------------------------- MODULE Sha512 -------------------------------
(***************************************************************************)
(* fc::sha512 (libraries/fc/src/crypto/sha512.cpp): the digest of module   *)
(* Digest with 64 bytes in eight words of eight.  The file has no          *)
(* constructor from data, no hash of a digest and no operator >>.          *)
(***************************************************************************)
EXTENDS Integers, Sequences

CONSTANTS Messages, Garbage, MaxOps

VARIABLES h, ctx, status, ops

D == INSTANCE Digest WITH Size <- 64, WordBytes <- 8, XorWords <- 8

Init == D!Init

Construct == D!Construct

ConstructFromHex(text, g) == D!ConstructFromHex(text, g)

str(d) == D!str(d)

Hash(d) == D!Hash(d)

Reset == D!Reset

Write(d) == D!Write(d)

Result == D!Result

ShiftLeft(i) == D!ShiftLeft(i)

ExclusiveOr(other) == D!ExclusiveOr(other)

ge(h1, h2) == D!ge(h1, h2)
gt(h1, h2) == D!gt(h1, h2)
lt(h1, h2) == D!lt(h1, h2)
ne(h1, h2) == D!ne(h1, h2)
eq(h1, h2) == D!eq(h1, h2)

to_variant(bi) == D!to_variant(bi)

FromVariant(ve) == D!FromVariant(ve)

Next ==
    \/ Construct
    \/ \E n \in D!TextLengths, bad \in D!BadPositions, g \in Garbage :
           ConstructFromHex(D!Text(h, n, bad), g)
    \/ \E d \in Messages : Hash(d)
    \/ Reset
    \/ \E d \in Messages : Write(d)
    \/ Result
    \/ \E i \in D!Shifts : ShiftLeft(i)
    \/ \E other \in D!Operands : ExclusiveOr(other)
    \/ \E ve \in D!Buffers : FromVariant(ve)
    \/ FromVariant(to_variant(h))

Spec == Init /\ [][Next]_<<h, ctx, status, ops>>
=============================================================================
