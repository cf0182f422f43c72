-------------------------------- MODULE MCFc --------------------------------
(***************************************************************************)
(* The fc library checked together.  A behaviour is one of: a key written  *)
(* as text and read (ExtendedKey), a child derived from an extended key    *)
(* (KeyDerivation), the operations on one digest object of class sha256,   *)
(* sha1 or sha512 (Digest, Sha1, Sha512), a private key, its public key    *)
(* and their children (EllipticKey), or two threads that use the logging   *)
(* macros while log levels are set (Logger).  The parts not in use stay as *)
(* Init leaves them.                                                       *)
(***************************************************************************)
EXTENDS MCExtendedKey, Logger

CONSTANTS Messages, Garbage, MaxOps

VARIABLES h, ctx, digestStatus, ops,
          class    \* the class of the digest object: sha256, sha1, sha512

VARIABLES priv, chain, pub, privPath, pubPath, keyStatus, unowned

digestVars == <<h, ctx, digestStatus, ops, class>>

keyVars == <<priv, chain, pub, privPath, pubPath, keyStatus, unowned>>

S256 == INSTANCE Digest WITH Size <- 32, WordBytes <- 8, XorWords <- 4,
                             status <- digestStatus
S1   == INSTANCE Sha1 WITH status <- digestStatus
S512 == INSTANCE Sha512 WITH status <- digestStatus

MCMessages == {<<>>, <<97>>, <<97, 98>>}

\* A curve of two-byte secrets: the order has two bytes, as the order of
\* secp256k1 has 32, and some digests are no scalars of it.
MCSecretSize == 2
MCOrder == 64300

\* Keys of one and of two bytes, the last one of the curve.
MCDrawn == {1, 255, MCOrder - 1}

MCDigests == {<<0, 0>>, <<0, 1>>, <<1, 0>>, <<255, 255>>}

MCOffsets == {<<0, 7>>, <<200, 3>>}

\* r or s of a signature: its first two bytes and the others.
Scalar(a, b, x) == [k \in 1 .. 32 |-> IF k = 1 THEN a ELSE IF k = 2 THEN b ELSE x]

MCSignatures ==
    { <<31>> \o Scalar(a, b, 17) \o Scalar(127, 0, 17) :
          a \in {0, 1, 127, 128}, b \in {0, 127, 128} }
    \cup
    { <<32>> \o Scalar(1, 128, 0) \o Scalar(a, b, 0) :
          a \in {0, 1, 127, 128}, b \in {0, 127, 128} }

K == INSTANCE EllipticKey WITH
         SecretSize <- MCSecretSize, Order <- MCOrder, Drawn <- MCDrawn,
         Digests <- MCDigests, Offsets <- MCOffsets,
         Signatures <- MCSignatures, MaxDepth <- 2, MaxUnowned <- 1,
         status <- keyStatus

\* No digest object is in use.
NoDigest ==
    /\ h = <<>> /\ ops = 0 /\ digestStatus = "ok"
    /\ ctx = [started |-> FALSE, data |-> <<>>]
    /\ class = "none"

\* No private key is in use.
Unused == -3

NoKey ==
    /\ priv = Unused /\ chain = <<>> /\ pub = K!NoPoint
    /\ privPath = <<>> /\ pubPath = <<>> /\ keyStatus = "ok"
    /\ unowned = 0

\* No thread logs: no logger has a level.
NoLogger ==
    /\ disabled = FALSE /\ level = <<>>
    /\ where = [t \in Threads |-> "idle"]
    /\ call = [t \in Threads |-> NoCall]
    /\ out = <<>> /\ calls = 0

FcInit ==
    \/ MCInit /\ NoDigest /\ NoKey /\ NoLogger
    \/ /\ NoText /\ NoDerivation /\ NoKey /\ NoLogger
       /\ \/ S256!Init /\ class = "sha256"
          \/ S1!Init /\ class = "sha1"
          \/ S512!Init /\ class = "sha512"
    \/ NoText /\ NoDerivation /\ NoDigest /\ NoLogger /\ K!Init
    \/ NoText /\ NoDerivation /\ NoDigest /\ NoKey /\ LoggerInit

\* The class of the digest object in use.
Sha256 == class = "sha256"
Sha1 == class = "sha1"
Sha512 == class = "sha512"

TextOnly == UNCHANGED <<derivationVars, digestVars, keyVars, loggerVars>>
DerivationOnly == UNCHANGED <<vars, digestVars, keyVars, loggerVars>>
DigestOnly == UNCHANGED <<vars, derivationVars, keyVars, loggerVars, class>>
KeyOnly ==
    priv # Unused /\ UNCHANGED <<vars, derivationVars, digestVars, loggerVars>>
LoggerOnly ==
    level # <<>> /\ UNCHANGED <<vars, derivationVars, digestVars, keyVars>>

ExtendedKeyNext ==
    \/ Write /\ TextOnly
    \/ Resize /\ TextOnly
    \/ Flip /\ TextOnly
    \/ ParseBegin /\ TextOnly
    \/ CopyByte /\ TextOnly
    \/ ParseEnd /\ TextOnly
    \/ PublicKeyFromBase58 /\ TextOnly
    \/ D!PublicDeriveChild /\ DerivationOnly
    \/ D!PublicDeriveThrows /\ DerivationOnly
    \/ D!PrivateDeriveNormalChild /\ DerivationOnly
    \/ D!PrivateDeriveHardenedChild /\ DerivationOnly

Sha256Next ==
    \/ Sha256 /\ S256!Construct /\ DigestOnly
    \/ Sha256 /\ \E data \in S256!Buffers : S256!ConstructFromData(data) /\ DigestOnly
    \/ Sha256 /\ \E n \in S256!TextLengths, bad \in S256!BadPositions, g \in Garbage :
           S256!ConstructFromHex(S256!Text(h, n, bad), g) /\ DigestOnly
    \/ Sha256 /\ \E d \in Messages : S256!Hash(d) /\ DigestOnly
    \/ Sha256 /\ S256!HashDigest /\ DigestOnly
    \/ Sha256 /\ S256!Reset /\ DigestOnly
    \/ Sha256 /\ \E d \in Messages : S256!Write(d) /\ DigestOnly
    \/ Sha256 /\ S256!Result /\ DigestOnly
    \/ Sha256 /\ \E s \in S256!Shifts : S256!ShiftLeft(s) /\ DigestOnly
    \/ Sha256 /\ \E s \in S256!Shifts : S256!ShiftRight(s) /\ DigestOnly
    \/ Sha256 /\ \E other \in S256!Operands : S256!ExclusiveOr(other) /\ DigestOnly
    \/ Sha256 /\ \E ve \in S256!Buffers : S256!FromVariant(ve) /\ DigestOnly
    \/ Sha256 /\ S256!FromVariant(S256!to_variant(h)) /\ DigestOnly

Sha1Next ==
    \/ Sha1 /\ S1!Construct /\ DigestOnly
    \/ Sha1 /\ \E n \in S1!D!TextLengths, bad \in S1!D!BadPositions, g \in Garbage :
           S1!ConstructFromHex(S1!D!Text(h, n, bad), g) /\ DigestOnly
    \/ Sha1 /\ \E d \in Messages : S1!Hash(d) /\ DigestOnly
    \/ Sha1 /\ S1!Reset /\ DigestOnly
    \/ Sha1 /\ \E d \in Messages : S1!Write(d) /\ DigestOnly
    \/ Sha1 /\ S1!Result /\ DigestOnly
    \/ Sha1 /\ \E s \in S1!D!Shifts : S1!ShiftLeft(s) /\ DigestOnly
    \/ Sha1 /\ \E other \in S1!D!Operands : S1!ExclusiveOr(other) /\ DigestOnly
    \/ Sha1 /\ \E ve \in S1!D!Buffers : S1!FromVariant(ve) /\ DigestOnly
    \/ Sha1 /\ S1!FromVariant(S1!D!to_variant(h)) /\ DigestOnly

Sha512Next ==
    \/ Sha512 /\ S512!Construct /\ DigestOnly
    \/ Sha512 /\ \E n \in S512!D!TextLengths, bad \in S512!D!BadPositions, g \in Garbage :
           S512!ConstructFromHex(S512!D!Text(h, n, bad), g) /\ DigestOnly
    \/ Sha512 /\ \E d \in Messages : S512!Hash(d) /\ DigestOnly
    \/ Sha512 /\ S512!Reset /\ DigestOnly
    \/ Sha512 /\ \E d \in Messages : S512!Write(d) /\ DigestOnly
    \/ Sha512 /\ S512!Result /\ DigestOnly
    \/ Sha512 /\ \E s \in S512!D!Shifts : S512!ShiftLeft(s) /\ DigestOnly
    \/ Sha512 /\ \E other \in S512!D!Operands : S512!ExclusiveOr(other) /\ DigestOnly
    \/ Sha512 /\ \E ve \in S512!D!Buffers : S512!FromVariant(ve) /\ DigestOnly
    \/ Sha512 /\ S512!FromVariant(S512!D!to_variant(h)) /\ DigestOnly

EllipticKeyNext ==
    \/ KeyOnly /\ K!Generate
    \/ KeyOnly /\ K!GenerateThrows
    \/ \E seed, offset \in MCDigests : KeyOnly /\ K!GenerateFromSeed(seed, offset)
    \/ \E seed \in MCDigests : KeyOnly /\ K!GenerateMaster(seed)
    \/ \E ve \in MCDigests \cup {<<>>, <<1>>} : KeyOnly /\ K!PrivateFromVariant(ve)
    \/ KeyOnly /\ K!PrivateFromVariant(K!private_to_variant(priv))
    \/ KeyOnly /\ K!GetPublicKey
    \/ KeyOnly /\ K!PublicFromVariant
    \/ \E offset \in MCOffsets : KeyOnly /\ K!PrivateChild(offset)
    \/ \E offset \in MCOffsets : KeyOnly /\ K!PublicChild(offset)

LoggerOnlyNext ==
    \/ \E t \in Threads, m \in Names, l \in Loggers, throws \in BOOLEAN :
           LoggerOnly /\ Use(t, m, l, throws)
    \/ \E t \in Threads : LoggerOnly /\ Log(t)
    \/ \E t \in Threads : LoggerOnly /\ Throw(t)
    \/ \E t \in Threads : LoggerOnly /\ Catch(t)
    \/ \E t \in Threads : LoggerOnly /\ Unwind(t)
    \/ \E l \in Loggers, e \in Settings :
           LoggerOnly /\ level[l] # e /\ set_log_level(l, e)

FcNext ==
    \/ ExtendedKeyNext \/ Sha256Next \/ Sha1Next \/ Sha512Next
    \/ EllipticKeyNext \/ LoggerOnlyNext

fcVars == <<vars, derivationVars, digestVars, keyVars, loggerVars>>

\* The threads differ in nothing but their names.
ThreadSymmetry == Permutations(Threads)

FcSpec == FcInit /\ [][FcNext]_fcVars

------------------------------------------------------------------------------
\* A digest object has the bytes of its class whatever it is made from:
\* from_variant copies at most sizeof(bi) bytes of a longer vector, the
\* sha256 constructor from data refuses other sizes, from_hex stops at the
\* end of _hash.
DigestTypeOK ==
    /\ Sha256 => S256!TypeOK
    /\ Sha1 => S1!D!TypeOK
    /\ Sha512 => S512!D!TypeOK

\* operator ^ of each class is the exclusive or of every byte of the two
\* digests: the words it lists (four, five, eight), of the size they have,
\* are the whole of _hash.
XorIsBytewise ==
    /\ Sha256 => S256!XorIsBytewise
    /\ Sha1 => S1!D!XorIsBytewise
    /\ Sha512 => S512!D!XorIsBytewise

\* The constructor from a hex string reads back the text str() made of a
\* digest: all of it when the text is whole or longer, and of a text cut
\* short the bytes it has, the rest of _hash being what memory held.
TextRoundTrip ==
    /\ Sha256 => S256!TextRoundTrip
    /\ Sha1 => S1!D!TextRoundTrip
    /\ Sha512 => S512!D!TextRoundTrip

\* operator >> of sha256 and the comparisons (memcmp) read a digest as the
\* same big-endian number: a digest shifted right is never greater.
ShiftRightNeverGrows == Sha256 => S256!ShiftRightNeverGrows

\* The public key follows the private key through child of both classes,
\* in whatever order the two are asked (generate_from_seed, get_secret and
\* add agree on the numbers).
ChildKeysAgree == priv # Unused => K!ChildKeysAgree

\* A private key read from the variant it was written to is the same key,
\* also when its number has fewer bytes than a secret.
VariantRoundTrip == priv # Unused => K!VariantRoundTrip

\* is_canonical accepts exactly the signatures whose r and s are 32 bytes
\* each as DER integers.
CanonicalIsMinimalDer == priv # Unused => K!CanonicalIsMinimalDer

\* The fingerprint an extended key is written with is the first four bytes
\* of the hash of the public key, in their order.
FingerprintIsWrittenAsHashed == priv # Unused => K!FingerprintIsWrittenAsHashed

\* An EC_KEY that generate() allocated is never left allocated with no
\* owner, also when EC_KEY_generate_key fails and generate() throws: the
\* other OpenSSL objects of elliptic_common.cpp are held by wrappers that
\* free them.
NoKeyLeftBehind == K!NoKeyLeftBehind
====
