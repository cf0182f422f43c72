------------------------------- MODULE KeyBytes -------------------------------
(***************************************************************************)
(* detail::_put and detail::_get of                                        *)
(* libraries/fc/src/crypto/elliptic_common.cpp: a 32-bit word as four      *)
(* bytes.  A byte is a number in 0..255.  TLC computes with 32-bit signed  *)
(* integers, so a word is the int with the same bits.                      *)
(***************************************************************************)
EXTENDS Integers, Sequences

\* The four bytes of an unsigned int, the most significant first.  The int
\* arguments (parent_fp, child_num) are converted modulo 2^32, which the
\* floor division does for a negative i.
_put(word) ==
    << (word \div 16777216) % 256, (word \div 65536) % 256,
       (word \div 256) % 256, word % 256 >>

\* The unsigned int of four bytes, as the int the callers store it in
\* (int fp, int cn): a first byte of 128 or more gives a negative number.
_get(b) ==
    (IF b[1] >= 128 THEN b[1] - 256 ELSE b[1]) * 16777216
        + b[2] * 65536 + b[3] * 256 + b[4]
=============================================================================
