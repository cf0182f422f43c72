----------------------------- MODULE EllipticKey -----------------------------
(***************************************************************************)
(* The keys of libraries/fc/src/crypto/elliptic_common.cpp as numbers: a   *)
(* private key made by generate, generate_from_seed, generate_master or    *)
(* from_variant, its children and the children of its public key, the      *)
(* canonical form of a signature and the fingerprint of a public key.      *)
(* to_base58 and the extended keys are modules ExtendedKey, KeyDerivation. *)
(*                                                                         *)
(* A secret is SecretSize bytes, the most significant first, and the       *)
(* BIGNUM of a key a natural number.  A point of the curve is the number   *)
(* of times the generator is added to itself, so the public key of secret  *)
(* s is s modulo Order and 0 is the point at infinity; the functions of    *)
(* the curve implementation the file calls (regenerate, get_public_key,    *)
(* add, serialize) are written for such points.  A behaviour follows one   *)
(* private key and the public key taken from it: both are asked for        *)
(* children, in any order, up to MaxDepth each.                            *)
(***************************************************************************)
EXTENDS Integers, Sequences, FiniteSetsExt, SequencesExt, KeyBytes

CONSTANTS
    SecretSize,  \* sizeof(private_key_secret), sizeof(fc::sha256)
    Order,       \* the order of the curve
    Drawn,       \* the numbers EC_KEY_generate_key draws
    Digests,     \* the seeds, offsets and vectors the callers pass
    Offsets,     \* the offsets of children
    Signatures,  \* compact signatures, 65 bytes
    MaxDepth,    \* bound on the children of a behaviour
    MaxUnowned   \* bound on the EC_KEYs a behaviour leaves without an owner

VARIABLES
    priv,        \* the BIGNUM of the private key, or NullKey
    chain,       \* the chain code generate_master gives with it
    pub,         \* the point of the public key, or NoPoint
    privPath,    \* history: the offsets of the children priv went through
    pubPath,     \* history: the same of pub, from the same private key
    status,      \* "ok", or "exception" when the last call threw
    unowned      \* the EC_KEYs allocated, not freed and held by no private_key

vars == <<priv, chain, pub, privPath, pubPath, status, unowned>>

\* The digest classes, for their functions alone: no object of theirs is
\* part of the state here.
S256 == INSTANCE Digest WITH
            Size <- SecretSize, WordBytes <- 1, XorWords <- SecretSize,
            Messages <- {}, Garbage <- {}, MaxOps <- 0,
            h <- <<>>, ctx <- <<>>, status <- "ok", ops <- 0

S512 == INSTANCE Digest WITH
            Size <- 2 * SecretSize, WordBytes <- 1, XorWords <- 2 * SecretSize,
            Messages <- {}, Garbage <- {}, MaxOps <- 0,
            h <- <<>>, ctx <- <<>>, status <- "ok", ops <- 0

R160 == INSTANCE Digest WITH
            Size <- 20, WordBytes <- 4, XorWords <- 5,
            Messages <- {}, Garbage <- {}, MaxOps <- 0,
            h <- <<>>, ctx <- <<>>, status <- "ok", ops <- 0

NullKey == -1    \* a private_key without an EC_KEY
NoBignum == -2   \* an EC_KEY without a private part
NoPoint == -1    \* a public_key without a point

------------------------------------------------------------------------------
(* OpenSSL and the curve implementation. *)

BN_bin2bn(bytes) == FoldLeft(LAMBDA a, b : a * 256 + b, 0, bytes)

\* For a number below 256 ^ (SecretSize + 1).
BN_num_bytes(n) == Cardinality({k \in 0 .. SecretSize : 256 ^ k <= n})

BN_bn2bin(n) ==
    [k \in 1 .. BN_num_bytes(n) |-> (n \div 256 ^ (BN_num_bytes(n) - k)) % 256]

\* bytes copied into buf after its first `at` bytes.
WriteAt(buf, at, bytes) ==
    [k \in DOMAIN buf |->
        IF at < k /\ k <= at + Len(bytes) THEN bytes[k - at] ELSE buf[k]]

hmac_sha512(key, text) == S512!hash(key \o text)

regenerate(secret) == BN_bin2bn(secret)

\* get_public_key throws for a key that has no point.
NoPublicKey(k) == k \in {NullKey, NoBignum} \/ k % Order = 0

get_public_key(k) == k % Order

\* public_key::serialize, a parity and a coordinate, and public_key(data).
serialize(point) ==
    <<2 + (point % 2)>>
        \o WriteAt(S256!Zero, SecretSize - BN_num_bytes(point), BN_bn2bin(point))

public_key(data) == BN_bin2bn(Tail(data))

\* public_key::add: the point of offset times the generator more.
add(point, tweak) == (point + BN_bin2bn(tweak)) % Order

------------------------------------------------------------------------------
(* The functions of elliptic_common.cpp. *)

_left(v) == WriteAt(S256!Zero, 0, SubSeq(v, 1, SecretSize))

_right(v) == WriteAt(S256!Zero, 0, SubSeq(v, SecretSize + 1, 2 * SecretSize))

\* The FC_ASSERT of _get_curve_order and _get_half_curve_order: the order
\* of the curve and its half have as many bytes as a secret.  They are
\* computed once (static) and would throw in every use: a curve they fail
\* for is no curve of the model.
ASSUME /\ BN_num_bytes(Order) = SecretSize
       /\ BN_num_bytes(Order \div 2) = SecretSize

\* _get_curve_order and _get_half_curve_order: the bytes of the number.
get_curve_order == BN_bn2bin(Order)

get_half_curve_order == BN_bn2bin(Order \div 2)

\* public_key::add throws for a tweak that is no scalar of the curve and
\* for a sum that is the point at infinity.
AddThrows(point, tweak) ==
    \/ BN_bin2bn(tweak) >= BN_bin2bn(get_curve_order)
    \/ (point + BN_bin2bn(tweak)) % Order = 0

\* The message of both child(): the public key, then the offset.
ChildDigest(point, offset) ==
    S256!SHA_Final(S256!SHA_Update(S256!SHA_Update(S256!SHA_Init,
                                                   serialize(point)), offset))

\* Mutant: its own bytes, not the low bytes of the word, are put together
\* from the last to the first.
fingerprint_LittleEndian(hash) == _get(<<hash[4], hash[3], hash[2], hash[1]>>)

\* fingerprint: the first four bytes of the hash, the first the highest.
fingerprint(hash) == _get(SubSeq(hash, 1, 4))

\* The hash it is taken from: ripemd160 of sha256 of the key.
FingerprintHash(point) == R160!hash(S256!hash(serialize(point)))

\* Mutant: a first byte of zero is refused whatever follows it.
is_canonical_NoLeadingZero(sig) ==
    /\ sig[2] < 128 /\ sig[2] # 0
    /\ sig[34] < 128 /\ sig[34] # 0

\* is_canonical, c[1], c[2], c[33] and c[34] of the signature.
is_canonical(sig) ==
    /\ ~(sig[2] >= 128)
    /\ ~(sig[2] = 0 /\ ~(sig[3] >= 128))
    /\ ~(sig[34] >= 128)
    /\ ~(sig[34] = 0 /\ ~(sig[35] >= 128))

SeedThrows(seed, offset) ==
    BN_num_bytes((BN_bin2bn(seed) + BN_bin2bn(offset)) % Order) > SecretSize

\* The secret generate_from_seed regenerates the key from: the bytes of
\* (seed + z) % order, at the end of a digest of zeroes.
SecretOfSeed(seed, offset) ==
    LET secexp == (BN_bin2bn(seed) + BN_bin2bn(offset)) % Order
    IN  WriteAt(S256!Zero, SecretSize - BN_num_bytes(secexp), BN_bn2bin(secexp))

generate_from_seed(seed, offset) == regenerate(SecretOfSeed(seed, offset))

\* Mutant: the number is written at the start of the digest.
get_secret_NoShift(k) ==
    IF k = NullKey THEN S256!Zero ELSE WriteAt(S256!Zero, 0, BN_bn2bin(k))

get_secret(k) ==
    IF k = NullKey THEN S256!Zero
    ELSE WriteAt(S256!Zero, SecretSize - BN_num_bytes(k), BN_bn2bin(k))

get_secret_throws(k) == k = NoBignum

\* Mutant: the child of a private key is made from its secret.
PrivateChildDigest_OfSecret(k, offset) ==
    S256!SHA_Final(S256!SHA_Update(S256!SHA_Update(S256!SHA_Init,
                                                   get_secret(k)), offset))

PrivateChildDigest(k, offset) == ChildDigest(get_public_key(k), offset)

\* to_variant and from_variant of a private key and of a public key.
private_to_variant(k) == S256!to_variant(get_secret(k))

private_from_variant(ve) == regenerate(S256!from_variant(ve))

public_to_variant(point) == serialize(point)

public_from_variant(ve) == public_key(ve)

------------------------------------------------------------------------------
Init ==
    /\ priv = NullKey /\ chain = S256!Zero
    /\ pub = NoPoint
    /\ privPath = <<>> /\ pubPath = <<>>
    /\ status = "ok"
    /\ unowned = 0

\* A new private key; the public key of the one before is dropped.  A
\* behaviour makes keys until it asks one for a child.
NewKey(k, code) ==
    /\ privPath = <<>>
    /\ priv' = k /\ chain' = code
    /\ pub' = NoPoint
    /\ privPath' = <<>> /\ pubPath' = <<>>
    /\ status' = "ok"
    /\ UNCHANGED unowned

Raises == status' = "exception" /\ UNCHANGED <<priv, chain, pub, privPath, pubPath>>

Throws == Raises /\ UNCHANGED unowned

\* The EC_KEY generate() allocated goes to the private_key it returns.
Generate == \E k \in Drawn : NewKey(k, chain)

\* EC_KEY_new_by_curve_name gives no EC_KEY, or EC_KEY_generate_key fails
\* on the one it gave: generate() throws with that EC_KEY still allocated.
GenerateThrows ==
    /\ Raises
    /\ \/ UNCHANGED unowned
       \/ unowned < MaxUnowned /\ unowned' = unowned + 1

GenerateFromSeed(seed, offset) ==
    \/ SeedThrows(seed, offset) /\ Throws
    \/ ~SeedThrows(seed, offset) /\ NewKey(generate_from_seed(seed, offset), chain)

GenerateMaster(seed) ==
    LET hash == hmac_sha512(<<66>>, seed)
    IN  NewKey(regenerate(_left(hash)), _right(hash))

PrivateFromVariant(ve) == NewKey(private_from_variant(ve), chain)

\* get_public_key of the private key as it is now.
GetPublicKey ==
    \/ NoPublicKey(priv) /\ Throws
    \/ /\ ~NoPublicKey(priv)
       /\ pub' = get_public_key(priv) /\ pubPath' = privPath
       /\ status' = "ok"
       /\ UNCHANGED <<priv, chain, privPath, unowned>>

PublicFromVariant ==
    /\ pub # NoPoint
    /\ pub' = public_from_variant(public_to_variant(pub))
    /\ status' = "ok"
    /\ UNCHANGED <<priv, chain, privPath, pubPath, unowned>>

\* private_key::child.
PrivateChild(offset) ==
    /\ Len(privPath) < MaxDepth
    /\ \/ (NoPublicKey(priv) \/ get_secret_throws(priv)) /\ Throws
       \/ /\ ~NoPublicKey(priv) /\ ~get_secret_throws(priv)
          /\ priv' = generate_from_seed(get_secret(priv),
                                        PrivateChildDigest(priv, offset))
          /\ privPath' = Append(privPath, offset)
          /\ status' = "ok"
          /\ UNCHANGED <<chain, pub, pubPath, unowned>>

\* public_key::child.
PublicChild(offset) ==
    /\ pub # NoPoint
    /\ Len(pubPath) < MaxDepth
    /\ \/ AddThrows(pub, ChildDigest(pub, offset)) /\ Throws
       \/ /\ ~AddThrows(pub, ChildDigest(pub, offset))
          /\ pub' = add(pub, ChildDigest(pub, offset))
          /\ pubPath' = Append(pubPath, offset)
          /\ status' = "ok"
          /\ UNCHANGED <<priv, chain, privPath, unowned>>

Next ==
    \/ Generate
    \/ GenerateThrows
    \/ \E seed, offset \in Digests : GenerateFromSeed(seed, offset)
    \/ \E seed \in Digests : GenerateMaster(seed)
    \/ \E ve \in Digests \cup {<<>>, <<1>>} : PrivateFromVariant(ve)
    \/ PrivateFromVariant(private_to_variant(priv))
    \/ GetPublicKey
    \/ PublicFromVariant
    \/ \E offset \in Offsets : PrivateChild(offset)
    \/ \E offset \in Offsets : PublicChild(offset)

Spec == Init /\ [][Next]_vars

------------------------------------------------------------------------------
\* The public key follows the private key: when the public key taken from
\* a private key has gone through the children the private key has gone
\* through (child of both classes, generate_from_seed, get_secret, add),
\* in whatever order the two were asked, it is the public key of the
\* private key.
ChildKeysAgree ==
    (pub # NoPoint /\ pubPath = privPath)
        => ~NoPublicKey(priv) /\ pub = get_public_key(priv)

\* A private key read from the variant it was written to is the same key,
\* also when its number has fewer bytes than a secret: get_secret writes
\* the number at the end of the digest, from_variant copies the digest.
VariantRoundTrip ==
    priv \notin {NullKey, NoBignum}
        => private_from_variant(private_to_variant(priv)) = priv

\* The length of a number as a DER integer: no leading zero bytes, and one
\* zero byte in front when the first bit is set.
DerLength(bytes) ==
    LET first == SelectInSeq(bytes, LAMBDA b : b # 0)
    IN  IF first = 0 THEN 1
        ELSE Len(bytes) - first + 1 + (IF bytes[first] >= 128 THEN 1 ELSE 0)

\* is_canonical accepts exactly the signatures whose r and s are 32 bytes
\* each as DER integers: the tests of c[1], c[2], c[33] and c[34] are that
\* and nothing else.
CanonicalIsMinimalDer ==
    \A sig \in Signatures :
        is_canonical(sig) <=> /\ DerLength(SubSeq(sig, 2, 33)) = 32
                              /\ DerLength(SubSeq(sig, 34, 65)) = 32

\* The fingerprint an extended key is written with (_put of parent_fp in
\* serialize_extended) is the first four bytes of the hash of the public
\* key, in their order, also when the first has its top bit set.
FingerprintIsWrittenAsHashed ==
    pub # NoPoint =>
        _put(fingerprint(FingerprintHash(pub))) = SubSeq(FingerprintHash(pub), 1, 4)

\* Every OpenSSL object of the file is held by something that frees it when
\* the function is left (ssl_bignum, bn_ctx, ec_group, and private_key for
\* the EC_KEY generate() returns): an EC_KEY that generate() allocated is
\* never left allocated with no owner, also when generate() throws.
NoKeyLeftBehind == unowned = 0
=============================================================================
