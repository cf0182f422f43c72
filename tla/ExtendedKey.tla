----------------------------- MODULE ExtendedKey -----------------------------
(***************************************************************************)
(* Text form of keys (libraries/fc/src/crypto/elliptic_common.cpp):        *)
(* extended_public_key and extended_private_key written by str() and read  *)
(* by from_base58, and public_key written by to_base58 and read by         *)
(* from_base58.                                                            *)
(*                                                                         *)
(* A byte is a number in 0..255 and a buffer a sequence of bytes; the      *)
(* first byte has index 1 here and 0 in the code.  The sizes are the ones  *)
(* of the code: 78 bytes of extended key, 33 of public key, 4 of checksum. *)
(*                                                                         *)
(* fc::to_base58 and fc::from_base58 belong to another file of the library *)
(* and are not modelled: the variable str holds the bytes the string       *)
(* decodes to, the value the functions of this file compute on, and        *)
(* nothing is claimed about the characters of the text.  sha256 stands for *)
(* the first four bytes of the digest, the ones the checksums use; it is   *)
(* some function of the data and not the real digest, so the model tells   *)
(* nothing about which changed strings a checksum lets through.  The curve *)
(* is left out: the data of a private key is its secret, the data of a     *)
(* public key its 33 bytes.                                                *)
(***************************************************************************)
EXTENDS Integers, Sequences, KeyBytes

CONSTANTS
    Keys,        \* the keys written: [kind, depth, parent_fp, child_num, c, key]
    Lengths,     \* lengths a string is cut or padded to before it is read
    Flips        \* positions of a string at which a byte is changed

VARIABLES
    key,         \* the key whose text form is made
    str,         \* the string, as the bytes it decodes to
    intact,      \* history: str is what the writer produced
    reader,      \* the from_base58 that was called
    buffer,      \* unsigned char buffer[78] of from_base58
    i,           \* unsigned int i of _parse_extended_data
    pc,
    parsed       \* the key from_base58 returns

vars == <<key, str, intact, reader, buffer, i, pc, parsed>>

BTC_EXT_PUB_MAGIC  == 76067358     \* 0x0488B21E
BTC_EXT_PRIV_MAGIC == 76066276     \* 0x0488ADE4

Extended == {"extended_public_key", "extended_private_key"}
Kinds    == Extended \cup {"public_key"}

Magic(kind) ==
    IF kind = "extended_public_key" THEN BTC_EXT_PUB_MAGIC ELSE BTC_EXT_PRIV_MAGIC

Zeroes(n) == [k \in 1 .. n |-> 0]

\* A byte that depends on every byte of data[lo .. hi] and its position.
RECURSIVE Mix(_, _, _)
Mix(data, lo, hi) ==
    IF lo >= hi
    THEN (data[lo] + lo) % 256
    ELSE LET mid == (lo + hi) \div 2
         IN  (Mix(data, lo, mid) * 31 + Mix(data, mid + 1, hi)) % 256

\* The first four bytes of sha256::hash(data).
sha256(data) == [n \in 1 .. 4 |-> (Mix(data, 1, Len(data)) * n + n) % 256]

\* The fields in front of the key, the same in both classes: magic, depth
\* (one byte), parent fingerprint, child number, chain code.
Header(k) ==
    _put(Magic(k.kind)) \o <<k.depth>> \o _put(k.parent_fp) \o _put(k.child_num)
        \o k.c

\* extended_public_key::serialize_extended: the 33 bytes of the key follow.
serialize_extended_public(k) == Header(k) \o k.key

\* extended_private_key::serialize_extended: a zero and the 32 bytes of the
\* secret follow.
serialize_extended_private(k) == Header(k) \o <<0>> \o k.key

\* _to_base58: the data and the first four bytes of its double hash.
_to_base58(data) == data \o sha256(sha256(data))

\* public_key::to_base58: the data and the first four bytes of its hash.
to_base58(data) == data \o sha256(data)

\* extended_public_key::str, extended_private_key::str and
\* public_key::to_base58, by the class of the key.
Text(k) ==
    CASE k.kind = "extended_public_key"  -> _to_base58(serialize_extended_public(k))
      [] k.kind = "extended_private_key" -> _to_base58(serialize_extended_private(k))
      [] k.kind = "public_key"           -> to_base58(k.key)

----------------------------------------------------------------------------
Init ==
    /\ key \in Keys
    /\ str = <<>>
    /\ intact = TRUE
    /\ reader \in Kinds
    /\ buffer = <<>>
    /\ i = 0
    /\ pc = "write"
    /\ parsed = <<>>

\* str() and to_base58.
Write ==
    /\ pc = "write"
    /\ str' = Text(key)
    /\ pc' = "written"
    /\ UNCHANGED <<key, intact, reader, buffer, i, parsed>>

\* The string reaches from_base58 cut short or padded: from_base58 takes
\* any string.
Resize ==
    /\ pc = "written" /\ intact
    /\ \E n \in Lengths \ {Len(str)} :
          str' = [k \in 1 .. n |-> IF k <= Len(str) THEN str[k] ELSE 90]
    /\ intact' = FALSE
    /\ UNCHANGED <<key, reader, buffer, i, pc, parsed>>

\* The string reaches from_base58 with one byte changed.
Flip ==
    /\ pc = "written" /\ intact
    /\ \E p \in Flips \cap DOMAIN str :
          str' = [str EXCEPT ![p] = (str[p] + 1) % 256]
    /\ intact' = FALSE
    /\ UNCHANGED <<key, reader, buffer, i, pc, parsed>>

\* Mutant: the loop has no bound of its own.
CopyEnds_NoBufferBound(n, size) == size >= 4 /\ n > size - 4

\* if ( i >= 78 || i > decoded.size() - 4 ) { break; }
\* decoded.size() is unsigned: below 4 the difference wraps to a number no
\* i exceeds.
CopyEnds(n, size) == n >= 78 \/ (size >= 4 /\ n > size - 4)

\* from_base58 of an extended key up to the loop of _parse_extended_data:
\* memset( buffer, 0, 78 ), the string decoded, i = 0.
ParseBegin ==
    /\ pc = "written" /\ reader \in Extended
    /\ buffer' = Zeroes(78)
    /\ i' = 0
    /\ pc' = "copy"
    /\ UNCHANGED <<key, str, intact, reader, parsed>>

\* One pass of the loop that is not the last: buffer[i++] = c.
CopyByte ==
    /\ pc = "copy" /\ i < Len(str)
    /\ ~CopyEnds(i, Len(str))
    /\ buffer' = [k \in DOMAIN buffer \cup {i + 1} |->
                     IF k = i + 1 THEN str[i + 1] ELSE buffer[k]]
    /\ i' = i + 1
    /\ UNCHANGED <<key, str, intact, reader, pc, parsed>>

\* depth, parent fingerprint, child number and chain code as both
\* from_base58 read them behind the magic.
HeaderFields(b) ==
    [depth |-> b[5], parent_fp |-> _get(SubSeq(b, 6, 9)),
     child_num |-> _get(SubSeq(b, 10, 13)), c |-> SubSeq(b, 14, 45)]

WithKey(kind, h, data) ==
    [kind |-> kind, depth |-> h.depth, parent_fp |-> h.parent_fp,
     child_num |-> h.child_num, c |-> h.c, key |-> data]

\* extended_public_key::from_base58 behind the FC_ASSERT.
extended_public_key_from_buffer(b) ==
    WithKey("extended_public_key", HeaderFields(b), SubSeq(b, 46, 78))

\* Mutant: the byte between chain code and secret is not skipped.
extended_private_key_from_buffer_NoSkip(b) ==
    WithKey("extended_private_key", HeaderFields(b), SubSeq(b, 46, 77))

\* extended_private_key::from_base58 behind the FC_ASSERT: ptr++ skips the
\* byte in front of the secret.
extended_private_key_from_buffer(b) ==
    WithKey("extended_private_key", HeaderFields(b), SubSeq(b, 47, 78))

\* The loop is left, by break or at the end of decoded; then the FC_ASSERT
\* on the magic and the fields.
ParseEnd ==
    /\ pc = "copy"
    /\ i >= Len(str) \/ CopyEnds(i, Len(str))
    /\ IF _get(SubSeq(buffer, 1, 4)) = Magic(reader)
       THEN /\ parsed' = IF reader = "extended_public_key"
                          THEN extended_public_key_from_buffer(buffer)
                          ELSE extended_private_key_from_buffer(buffer)
            /\ pc' = "returned"
       ELSE parsed' = parsed /\ pc' = "threw"
    /\ UNCHANGED <<key, str, intact, reader, buffer, i>>

\* The two FC_ASSERT of public_key::from_base58: 37 bytes, the last four
\* the hash of the first 33.
from_base58_accepts(s) ==
    /\ Len(s) = 37
    /\ sha256(SubSeq(s, 1, 33)) = SubSeq(s, 34, 37)

\* public_key::from_base58.
PublicKeyFromBase58 ==
    /\ pc = "written" /\ reader = "public_key"
    /\ IF from_base58_accepts(str)
       THEN parsed' = [kind |-> "public_key", key |-> SubSeq(str, 1, 33)]
            /\ pc' = "returned"
       ELSE parsed' = parsed /\ pc' = "threw"
    /\ UNCHANGED <<key, str, intact, reader, buffer, i>>

Next ==
    \/ Write \/ Resize \/ Flip
    \/ ParseBegin \/ CopyByte \/ ParseEnd
    \/ PublicKeyFromBase58

Spec == Init /\ [][Next]_vars

----------------------------------------------------------------------------
\* What was written is read back: from_base58 of the class that wrote an
\* untouched string returns the key that was written, with a negative
\* (hardened) child number, a negative fingerprint and depth 255 as they
\* were; from_base58 of another class throws.  This is
\* deserialize( serialize_extended() ) and from_base58( str() ).
ReadsBackWhatWasWritten ==
    (intact /\ pc \in {"returned", "threw"}) =>
        IF reader = key.kind THEN pc = "returned" /\ parsed = key
                             ELSE pc = "threw"

\* _parse_extended_data never writes outside buffer[78], whatever the
\* length of the decoded string: longer than 82 bytes, or shorter than 4,
\* where decoded.size() - 4 wraps.
CopyStaysInBuffer ==
    pc \in {"copy", "returned", "threw"} /\ reader \in Extended =>
        /\ i <= 78
        /\ DOMAIN buffer = 1 .. 78

\* _to_base58 ends a string with four bytes of checksum, and
\* _parse_extended_data leaves them out of the buffer
\* (decoded.size() - 4): the buffer holds no byte of the last four of the
\* string.
ChecksumLeftOut ==
    pc = "copy" => i <= IF Len(str) >= 4 THEN Len(str) - 4 ELSE 0
=============================================================================
