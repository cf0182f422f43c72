------------------------------- MODULE Digest -------------------------------
(***************************************************************************)
(* fc::sha256 (libraries/fc/src/crypto/sha256.cpp): a digest object, its   *)
(* constructors, its text and variant forms, its encoder and its           *)
(* operators.  sha1.cpp and sha512.cpp are the same class with other       *)
(* sizes and fewer operations (modules Sha1 and Sha512).                   *)
(*                                                                         *)
(* A digest is the sequence of the Size bytes of _hash, a text a sequence  *)
(* of hex digits 0..15 (Invalid is any other character).  The compression  *)
(* function of OpenSSL is a stand-in, SHA_Final: a function of what the    *)
(* context was started with and of what was written to it.  A behaviour    *)
(* is a digest object h, an encoder ctx and up to MaxOps operations.       *)
(***************************************************************************)
EXTENDS Integers, Sequences, FiniteSetsExt, SequencesExt, Bitwise

CONSTANTS
    Size,        \* sizeof(_hash), in bytes
    WordBytes,   \* sizeof(_hash[0])
    XorWords,    \* the words of _hash that operator ^ combines
    Messages,    \* what is hashed
    Garbage,     \* bytes a build may leave in memory that is not initialised
    MaxOps       \* bound on the operations of a behaviour

VARIABLES
    h,           \* the digest object
    ctx,         \* my->ctx of the encoder
    status,      \* "ok", or "exception" when the last operation threw
    ops          \* operations so far

vars == <<h, ctx, status, ops>>

Fill(n, b) == [k \in 1 .. n |-> b]

\* sha256(): every byte zero.
Zero == Fill(Size, 0)

------------------------------------------------------------------------------
(* Helpers of fc and of the C library that the file calls. *)

Invalid == 16

to_hex(bytes) ==
    [k \in 1 .. 2 * Len(bytes) |->
        IF k % 2 = 1 THEN bytes[(k + 1) \div 2] \div 16 ELSE bytes[k \div 2] % 16]

\* from_hex reads two digits for a byte, until the text or the n bytes of
\* the output end; a last single digit is the high half of its byte.
from_hex(text, n) ==
    [k \in 1 .. Min({n, (Len(text) + 1) \div 2}) |->
        text[2 * k - 1] * 16 + (IF 2 * k <= Len(text) THEN text[2 * k] ELSE 0)]

\* It throws at a character that is no digit, if it gets to it.
from_hex_throws(text, n) ==
    \E k \in 1 .. Min({Len(text), 2 * n}) : text[k] = Invalid

\* -1, 0 or 1 by the first byte that differs, as unsigned char.
memcmp(a, b) ==
    LET differ == {k \in 1 .. Size : a[k] # b[k]}
    IN  IF differ = {} THEN 0
        ELSE IF a[Min(differ)] < b[Min(differ)] THEN -1 ELSE 1

\* detail::shift_l and detail::shift_r: the n bytes as one big-endian
\* number, moved by i bits.
shift_l(in, n, i) ==
    LET byte(k) == IF k <= n THEN in[k] ELSE 0
        q == i \div 8
        r == i % 8
    IN  [k \in 1 .. n |->
            (byte(k + q) * 2 ^ r + byte(k + q + 1) \div 2 ^ (8 - r)) % 256]

shift_r(in, n, i) ==
    LET byte(k) == IF k >= 1 THEN in[k] ELSE 0
        q == i \div 8
        r == i % 8
    IN  [k \in 1 .. n |->
            (byte(k - q) \div 2 ^ r + byte(k - q - 1) * 2 ^ (8 - r)) % 256]

\* SHA256_Init, SHA256_Update and SHA256_Final, which also wipes the context.
SHA_Init == [started |-> TRUE, data |-> <<>>]

SHA_Update(c, d) == [c EXCEPT !.data = @ \o d]

SHA_Final(c) ==
    LET mixed == FoldLeft(LAMBDA a, b : (a * 31 + b + 1) % 251,
                          IF c.started THEN 7 ELSE 0, c.data)
    IN  [k \in 1 .. Size |-> (mixed * k + k) % 256]

Wiped == [started |-> FALSE, data |-> <<>>]

------------------------------------------------------------------------------
(* The functions of sha256.cpp. *)

\* sha256(data, size) throws unless size is the size of a digest.
from_data_throws(data) == Len(data) # Size

str(d) == to_hex(d)

\* Mutant: the length given to from_hex counts the words of _hash.
from_hex_str_Words(text, g) ==
    LET written == from_hex(text, Size \div WordBytes)
    IN  [k \in 1 .. Size |-> IF k <= Len(written) THEN written[k] ELSE g]

\* sha256(hex_str): from_hex writes the bytes the text has, and the others
\* stay what they were in memory, the byte g here.
from_hex_str(text, g) ==
    LET written == from_hex(text, Size)
    IN  [k \in 1 .. Size |-> IF k <= Len(written) THEN written[k] ELSE g]

hash(d) == SHA_Final(SHA_Update(SHA_Init, d))

\* Mutant: operator >> calls the shift of operator <<.
shift_right_AsLeft(d, i) == shift_l(d, Size, i)

shift_left(d, i) == shift_l(d, Size, i)

shift_right(d, i) == shift_r(d, Size, i)

\* Mutant: the last word is left out.
xor_OneWordShort(h1, h2) ==
    [k \in 1 .. Size |->
        IF k <= (XorWords - 1) * WordBytes THEN h1[k] ^^ h2[k] ELSE 0]

\* operator ^: the result starts as zero and gets XorWords words.
xor(h1, h2) ==
    [k \in 1 .. Size |-> IF k <= XorWords * WordBytes THEN h1[k] ^^ h2[k] ELSE 0]

ge(h1, h2) == memcmp(h1, h2) >= 0
gt(h1, h2) == memcmp(h1, h2) > 0
lt(h1, h2) == memcmp(h1, h2) < 0
ne(h1, h2) == memcmp(h1, h2) # 0
eq(h1, h2) == memcmp(h1, h2) = 0

\* to_variant: the bytes of the object as a vector<char>.
to_variant(bi) == SubSeq(bi, 1, Size)

\* Mutant: the whole vector is copied.
from_variant_NoMin(ve) ==
    [k \in 1 .. Max({Size, Len(ve)}) |-> IF k <= Len(ve) THEN ve[k] ELSE 0]

\* from_variant: zeroes, then as many bytes of the vector as fit.
from_variant(ve) ==
    [k \in 1 .. Size |-> IF k <= Min({Len(ve), Size}) THEN ve[k] ELSE 0]

------------------------------------------------------------------------------
(* What the operations are called with. *)

\* Vectors and buffers shorter than, as long as and longer than a digest.
Buffers == {Fill(n, 171) : n \in {0, 1, Size - 1, Size, Size + 1}}

\* The text of d cut or continued to n characters ("f" after the digest),
\* with a character that is no digit at position bad.
Text(d, n, bad) ==
    [k \in 1 .. n |->
        IF k = bad THEN Invalid ELSE IF k <= 2 * Size THEN str(d)[k] ELSE 15]

TextLengths == {0, 1, 2 * Size - 1, 2 * Size, 2 * Size + 1, 2 * Size + 2}

BadPositions == {0, 1, 2 * Size, 2 * Size + 1}

Shifts == {0, 1, 7, 8, 9, 8 * Size - 1, 8 * Size, 8 * Size + 1}

Operands == {Zero, Fill(Size, 255), hash(<<>>)}

------------------------------------------------------------------------------
Init ==
    /\ h = Zero
    /\ ctx = SHA_Init
    /\ status = "ok"
    /\ ops = 0

\* One more operation on an object of this class.
Op == Len(h) = Size /\ ops < MaxOps /\ ops' = ops + 1

Returns(d) == h' = d /\ status' = "ok" /\ UNCHANGED ctx

Throws == status' = "exception" /\ UNCHANGED <<h, ctx>>

Construct == Op /\ Returns(Zero)

ConstructFromData(data) ==
    \/ Op /\ from_data_throws(data) /\ Throws
    \/ Op /\ ~from_data_throws(data) /\ Returns(data)

ConstructFromHex(text, g) ==
    \/ Op /\ from_hex_throws(text, Size) /\ Throws
    \/ Op /\ ~from_hex_throws(text, Size) /\ Returns(from_hex_str(text, g))

Hash(d) == Op /\ Returns(hash(d))

HashDigest == Op /\ Returns(hash(h))

\* encoder() and encoder::reset().
Reset == Op /\ ctx' = SHA_Init /\ UNCHANGED <<h, status>>

Write(d) == Op /\ ctx' = SHA_Update(ctx, d) /\ UNCHANGED <<h, status>>

Result == Op /\ h' = SHA_Final(ctx) /\ ctx' = Wiped /\ status' = "ok"

ShiftLeft(i) == Op /\ Returns(shift_left(h, i))

ShiftRight(i) == Op /\ Returns(shift_right(h, i))

ExclusiveOr(other) == Op /\ Returns(xor(h, other))

FromVariant(ve) == Op /\ Returns(from_variant(ve))

Next ==
    \/ Construct
    \/ \E data \in Buffers : ConstructFromData(data)
    \/ \E n \in TextLengths, bad \in BadPositions, g \in Garbage :
           ConstructFromHex(Text(h, n, bad), g)
    \/ \E d \in Messages : Hash(d)
    \/ HashDigest
    \/ Reset
    \/ \E d \in Messages : Write(d)
    \/ Result
    \/ \E i \in Shifts : ShiftLeft(i)
    \/ \E i \in Shifts : ShiftRight(i)
    \/ \E other \in Operands : ExclusiveOr(other)
    \/ \E ve \in Buffers : FromVariant(ve)
    \/ FromVariant(to_variant(h))

Spec == Init /\ [][Next]_vars

------------------------------------------------------------------------------
\* The object is Size bytes whatever it is made from: from_variant copies
\* at most sizeof(bi) bytes of a longer vector, the constructor from data
\* refuses other sizes, from_hex stops at the end of _hash.
TypeOK ==
    /\ h \in [1 .. Size -> 0 .. 255]
    /\ ctx \in [started : BOOLEAN, data : Seq(0 .. 255)]
    /\ status \in {"ok", "exception"}
    /\ ops \in 0 .. MaxOps

\* operator ^ is the exclusive or of every byte of the two digests: the
\* words it lists, of the size they have, are the whole of _hash.
XorIsBytewise ==
    \A other \in Operands :
        xor(h, other) = [k \in 1 .. Size |-> h[k] ^^ other[k]]

\* sha256(hex_str) reads back the text str() made of a digest: the digest
\* when the text is whole, also with more characters after it; of a text
\* cut short, the bytes the text has (a last single digit as the high half
\* of its byte) and, from there on, whatever memory held before, for
\* nothing writes the rest of _hash.
TextRoundTrip ==
    \A n \in TextLengths, g \in Garbage :
        from_hex_str(Text(h, n, 2 * Size + 2), g) =
            [k \in 1 .. Size |->
                IF 2 * k <= n THEN h[k]
                ELSE IF 2 * k - 1 = n THEN 16 * (h[k] \div 16)
                ELSE g]

\* operator >> and the comparisons read a digest as the same big-endian
\* number: a digest shifted right is never greater than the digest.
ShiftRightNeverGrows ==
    \A i \in Shifts : ge(h, shift_right(h, i))
=============================================================================
