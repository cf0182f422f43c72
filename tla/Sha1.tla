-------------------------------- MODULE Sha1 --------------------------------
(***************************************************************************)
(* fc::sha1 (libraries/fc/src/crypto/sha1.cpp): the digest of module       *)
(* Digest with 20 bytes in five words of four.  The file has no            *)
(* constructor from data, no hash of a digest and no operator >>.          *)
(***************************************************************************)
EXTENDS Integers, Sequences

CONSTANTS Messages, Garbage, MaxOps

VARIABLES h, ctx, status, ops

D == INSTANCE Digest WITH Size <- 20, WordBytes <- 4, XorWords <- 5

Init == D!Init

Construct == D!Construct

ConstructFromHex(text, g) == D!ConstructFromHex(text, g)

str(d) == D!str(d)

Hash(d) == D!Hash(d)

Reset == D!Reset

Write(d) == D!Write(d)

Result == D!Result

ShiftLeft(i) == D!ShiftLeft(i)

ExclusiveOr(other) == D!ExclusiveOr(other)

ge(h1, h2) == D!ge(h1, h2)
gt(h1, h2) == D!gt(h1, h2)
lt(h1, h2) == D!lt(h1, h2)
ne(h1, h2) == D!ne(h1, h2)
eq(h1, h2) == D!eq(h1, h2)

to_variant(bi) == D!to_variant(bi)

FromVariant(ve) == D!FromVariant(ve)

Next ==
    \/ Construct
    \/ \E n \in D!TextLengths, bad \in D!BadPositions, g \in Garbage :
           ConstructFromHex(D!Text(h, n, bad), g)
    \/ \E d \in Messages : Hash(d)
    \/ Reset
    \/ \E d \in Messages : Write(d)
    \/ Result
    \/ \E i \in D!Shifts : ShiftLeft(i)
    \/ \E other \in D!Operands : ExclusiveOr(other)
    \/ \E ve \in D!Buffers : FromVariant(ve)
    \/ FromVariant(to_variant(h))

Spec == Init /\ [][Next]_<<h, ctx, status, ops>>
=============================================================================
