---------------------------- MODULE KeyDerivation ----------------------------
(***************************************************************************)
(* derive_child of extended_public_key and extended_private_key            *)
(* (libraries/fc/src/crypto/elliptic_common.cpp) up to the message that is *)
(* given to hmac_sha512 with the chain code.  The child is a function of   *)
(* chain code and message, so two derivations give the same child exactly  *)
(* when they hash the same message.  Both keys of one parent are asked for *)
(* the child of the same index, in either order.                           *)
(*                                                                         *)
(* extended_public_key::derive_normal_child is not part of the repository; *)
(* it hashes detail::_derive_message( serialize(), i ), the function this  *)
(* file exports for it.                                                    *)
(***************************************************************************)
EXTENDS Integers, Sequences, KeyBytes

CONSTANTS
    Parents,     \* [secret : 32 bytes, public : 33 bytes], public the key of secret
    Indexes      \* the int i of derive_child

VARIABLES
    parent,
    index,
    status,      \* of each class: "call", "derived" or "threw"
    message      \* of each class: the chr37 it hashes

vars == <<parent, index, status, message>>

Classes == {"extended_public_key", "extended_private_key"}

\* _derive_message( first, key32, i ): one byte, 32 bytes, the index.
_derive_message(first, key32, i) == <<first>> \o key32 \o _put(i)

\* _derive_message( const public_key_data& key, int i )
_derive_message_public(key, i) == _derive_message(Head(key), Tail(key), i)

\* _derive_message( const private_key_secret& key, int i )
_derive_message_secret(key, i) == _derive_message(0, key, i)

\* Mutant: index 0 is taken for a hardened one.
Hardened_WithZero(i) == i <= 0

\* extended_private_key::derive_child: i < 0, the int with bit 31 set.
Hardened(i) == i < 0

\* extended_public_key::derive_child: FC_ASSERT( !(i&0x80000000) ).
PublicRefuses(i) == i < 0

Init ==
    /\ parent \in Parents
    /\ index \in Indexes
    /\ status = [c \in Classes |-> "call"]
    /\ message = [c \in Classes |-> <<>>]

Derived(class, data) ==
    /\ status[class] = "call"
    /\ status' = [status EXCEPT ![class] = "derived"]
    /\ message' = [message EXCEPT ![class] = data]
    /\ UNCHANGED <<parent, index>>

\* extended_public_key::derive_child that returns.
PublicDeriveChild ==
    /\ ~PublicRefuses(index)
    /\ Derived("extended_public_key", _derive_message_public(parent.public, index))

\* extended_public_key::derive_child that throws.
PublicDeriveThrows ==
    /\ status["extended_public_key"] = "call"
    /\ PublicRefuses(index)
    /\ status' = [status EXCEPT !["extended_public_key"] = "threw"]
    /\ UNCHANGED <<parent, index, message>>

\* extended_private_key::derive_child, derive_normal_child.
PrivateDeriveNormalChild ==
    /\ ~Hardened(index)
    /\ Derived("extended_private_key", _derive_message_public(parent.public, index))

\* extended_private_key::derive_child, derive_hardened_child.
PrivateDeriveHardenedChild ==
    /\ Hardened(index)
    /\ Derived("extended_private_key", _derive_message_secret(parent.secret, index))

Next ==
    \/ PublicDeriveChild \/ PublicDeriveThrows
    \/ PrivateDeriveNormalChild \/ PrivateDeriveHardenedChild

Spec == Init /\ [][Next]_vars

----------------------------------------------------------------------------
\* Whoever holds the extended public key derives the children the holder
\* of the private key derives: when derive_child of both classes return for
\* the same parent and index, they hashed the same message.  The two
\* derive_child decide by different tests (i < 0 and i & 0x80000000).
PublicKeyFollowsPrivateKey ==
    (\A c \in Classes : status[c] = "derived")
        => message["extended_public_key"] = message["extended_private_key"]
=============================================================================
