---------------------------- MODULE MCExtendedKey ----------------------------
(***************************************************************************)
(* The two uses of a key in elliptic_common.cpp, checked together: a       *)
(* behaviour either writes a key as text and reads the text (ExtendedKey)  *)
(* or derives a child from a parent (KeyDerivation).  The part that is not *)
(* in use stays as Init leaves it: pc and status are "none".               *)
(***************************************************************************)
EXTENDS ExtendedKey

VARIABLES parent, index, status, message

derivationVars == <<parent, index, status, message>>

Bytes(n, first, rest) == [k \in 1 .. n |-> IF k = 1 THEN first ELSE rest]

\* depth 0 and 255; child numbers 0, the first hardened one (-2^31 as int)
\* and the last normal one; fingerprints with and without the top bit.
MCKeys ==
    [kind : {"extended_public_key"}, depth : {0, 255},
     parent_fp : {-1, 305419896},
     child_num : {0, -2147483647 - 1, 2147483647},
     c : {Bytes(32, 171, 205)}, key : {Bytes(33, 2, 17), Bytes(33, 3, 255)}]
    \cup
    [kind : {"extended_private_key"}, depth : {0, 255},
     parent_fp : {-1, 305419896},
     child_num : {0, -2147483647 - 1, 2147483647},
     c : {Bytes(32, 171, 205)}, key : {Bytes(32, 0, 1), Bytes(32, 255, 254)}]
    \cup
    [kind : {"public_key"}, key : {Bytes(33, 2, 17), Bytes(33, 3, 255)}]

MCLengths == {0, 3, 4, 5, 37, 77, 78, 81, 82, 83, 86}

MCFlips == {1, 4, 5, 13, 33, 37, 46, 78, 79, 82}

\* Parents with a secret that starts with 0, as the byte in front of it in
\* a hardened message, and with both parities of the public key.
MCParents ==
    { [secret |-> Bytes(32, s, 1), public |-> Bytes(33, p, s)] :
          s \in {0, 7, 255}, p \in {2, 3} }

\* The first and the last normal index, the first and the last hardened one
\* (the ints -2^31 and -1), and their neighbours.
MCIndexes == {0, 1, 2147483646, 2147483647,
              -2147483647 - 1, -2147483647, -2, -1}

D == INSTANCE KeyDerivation WITH Parents <- MCParents, Indexes <- MCIndexes

\* No text is written or read.
NoText ==
    /\ key = [kind |-> "public_key", key |-> <<>>]
    /\ str = <<>> /\ intact = TRUE /\ reader = "public_key"
    /\ buffer = <<>> /\ i = 0 /\ pc = "none" /\ parsed = <<>>

\* No child is derived.
NoDerivation ==
    /\ parent = [secret |-> <<>>, public |-> <<>>]
    /\ index = 0
    /\ status = [c \in D!Classes |-> "none"]
    /\ message = [c \in D!Classes |-> <<>>]

MCInit ==
    \/ Init /\ NoDerivation
    \/ D!Init /\ NoText

MCNext ==
    \/ Write /\ UNCHANGED derivationVars
    \/ Resize /\ UNCHANGED derivationVars
    \/ Flip /\ UNCHANGED derivationVars
    \/ ParseBegin /\ UNCHANGED derivationVars
    \/ CopyByte /\ UNCHANGED derivationVars
    \/ ParseEnd /\ UNCHANGED derivationVars
    \/ PublicKeyFromBase58 /\ UNCHANGED derivationVars
    \/ D!PublicDeriveChild /\ UNCHANGED vars
    \/ D!PublicDeriveThrows /\ UNCHANGED vars
    \/ D!PrivateDeriveNormalChild /\ UNCHANGED vars
    \/ D!PrivateDeriveHardenedChild /\ UNCHANGED vars

MCSpec == MCInit /\ [][MCNext]_<<vars, derivationVars>>

PublicKeyFollowsPrivateKey == D!PublicKeyFollowsPrivateKey
=============================================================================
