# Peerplays: a model-checking project

TLA+ models of the parts of the Peerplays node that this repository holds,
checked with TLC. Every module is translated from the source under `src/`.
Some parts of the system are used by that source and are not in the
repository: the betting engine and the proposal subsystem, the steps of the
chain around the queries of `db_getter.cpp`, and the libraries below the
crypto and logging code. The first two are modelled from `spec.md` and from
what `src/tests/betting/betting_tests.cpp` expects of them, the others from
the way the source calls them, and `PROJECT.json` marks all their definitions
`spec_modelled`.

Run a configuration with `tlc -workers 2 -config <cfg> <module>`; section 4
lists the pairs.

## 1. Inventory

### The system

Peerplays is a Graphene blockchain with an on-chain betting exchange, lottery
assets and sidechain operator nodes (SONs). A node applies *operations* packed
in transactions packed in blocks. Each operation is first validated without
state (`validate()` of the protocol library), then evaluated against the chain
database, which applies it atomically or rejects it. Privileged operations
(creating sports, events, markets, deregistering a SON) are wrapped in a
proposal that witnesses or SON nodes approve. The chain database runs on one
thread: operations are applied one after another in block order, so the hard
behaviours there are long sequences of legal operations, arithmetic at the
edge of fixed-width integers, bounds that several functions must agree on, and
loops that depend on data. Three things go beyond one thread: every node must
compute the same state from the same block (`Seeds`), SON nodes and the
evaluator judge the same SON at different times (`ChainDb`), and the logging
macros are used from every thread of the node (`Logger`).

### Components

| Component | Source | State | Operations |
|---|---|---|---|
| Betting engine (order book, matching, resolution, rake, cancellation) | not in `src/`; `spec.md`, `src/tests/betting/betting_tests.cpp` | balances, resting bets, matched positions and exposure held per bettor and market, verdict of each market, fee pool | `place_bet`, `cancel_bet`, `cancel_unmatched_bets`, `resolve_betting_market_group` |
| Betting tests | `src/tests/betting/betting_tests.cpp` | the engine's | the bets and resolutions of each test case |
| Proposal tests | `src/tests/betting/betting_tests.cpp` | approvals on the proposal, objects created | `proposal_update` adding or removing an approval |
| Lottery asset options | `src/libraries/protocol/asset_ops.cpp` | the `uint16_t` total | `lottery_asset_options::validate` |
| Lottery winner draw | `src/libraries/chain/db_getter.cpp` | the vector of winners, the hash words | `get_seeds`, `get_winner_numbers` |
| Asset symbol check | `src/libraries/protocol/asset_ops.cpp` | loop index, dot flag | `is_valid_symbol` |
| Asset operation validation | `src/libraries/protocol/asset_ops.cpp` | none (predicates on an operation) | `validate` of the options and of thirteen operations, `calculate_fee` |
| Market and committee validation | `src/libraries/protocol/market.cpp`, `committee_member.cpp` | none | six `validate` methods |
| Operation list | `operations.hpp` | none | `operation_validate` |
| SON deregistration queries | `src/libraries/chain/db_getter.cpp` | SON objects and statistics, SON proposals | `get_sons_to_be_deregistered`, `get_sons_being_deregistered`, `get_sons_being_reported_down`, `create_son_deregister_proposal`, `create_signed_transaction`, `is_son_dereg_valid` |
| Chain getters | `src/libraries/chain/db_getter.cpp` | dynamic global properties, undo history | `head_block_num`, `head_block_time`, `head_block_id`, `block_interval`, `last_non_undoable_block_num`, ... |
| Text form of keys | `src/libraries/fc/src/crypto/elliptic_common.cpp` | the 78-byte buffer and its index | `serialize_extended`, `str`, `_to_base58`, `_parse_extended_data`, `from_base58`, `to_base58` |
| Key derivation | `src/libraries/fc/src/crypto/elliptic_common.cpp` | none | `derive_child`, `derive_normal_child`, `derive_hardened_child`, `_derive_message` |
| Private and public keys | `src/libraries/fc/src/crypto/elliptic_common.cpp` | a private key, its chain code, a public key | `generate`, `generate_from_seed`, `generate_master`, `get_secret`, `child`, `fingerprint`, `is_canonical`, variants |
| Digests | `src/libraries/fc/src/crypto/sha1.cpp`, `sha256.cpp`, `sha512.cpp` | the digest bytes, the encoder context | constructors, `str`, `hash`, `write`, `result`, `reset`, shifts, exclusive or, comparisons, variants |
| Logger | `src/libraries/fc/include/fc/log/logger.hpp` | the level of each logger | the logging and dump macros |
| Sport operations, block header, account history plugin | headers | none | declarations |

### How they interact

A `bet_place_operation` debits the bettor, matches against the resting bets of
the other side of the same betting market, and rests what is left.
`betting_market_group_resolve` sweeps the unmatched bets of the group, pays
every matched position by the verdict of its market and takes the rake from
each bettor's net winnings in the group. Sports, events and markets come into
being through proposals that the witnesses approve.

A lottery asset carries `lottery_asset_options`; `validate()` checks the shares
of benefactors and winning tickets. When the lottery ends the database draws
one winner for each winning ticket with `get_winner_numbers`. The bound of 64
winning tickets in `validate()`, the bound of 64 winners in `get_seeds` and the
64 words `get_seeds` produces are the same number in three places.

`operation_validate` dispatches on the type of an operation to its
`validate()`; `asset_create_operation::validate` calls `is_valid_symbol`.

A SON node asks `get_sons_to_be_deregistered` which SONs were silent for too
long and raises a proposal for each with `create_son_deregister_proposal`;
when the proposal is applied, blocks later, the evaluator asks
`is_son_dereg_valid` again.

Keys travel as text: an extended key is 78 bytes and four bytes of checksum in
base58. `_put` and `_get` lay out its 32-bit fields and the index of
`_derive_message`. A child key is the parent plus a tweak taken from a
sha512 digest; the private and the public key derive it separately and must
arrive at the same pair. The digest classes are byte buffers with a text
form, shifts and comparisons.

### What is hard to test

`PROJECT.json` lists each hazard at its source line with the properties that
cover it. In short:

* `get_winner_numbers` re-seeds with `(s * 1103515245 + 12345) / 65536` until
  an index is free. The generator maps 32 bits to 16 and has fixed points
  (0, 43878) and a cycle of length 2 (960, 42918).
* `get_seeds` reads through a pointer into a destroyed temporary; what it
  finds depends on the build, and every node must find the same.
* `winner_num` is a `uint8_t`; the total of the lottery shares is a `uint16_t`;
  `last_non_undoable_block_num` subtracts in `uint32_t`.
* `_parse_extended_data` bounds its copy with `decoded.size() - 4` on an
  unsigned size, and with `>` where the last four bytes are to be left out.
* The private key tells a hardened index by `i < 0`, the public key by
  `i & 0x80000000`.
* `get_secret` writes a bignum of fewer than 32 bytes right-aligned;
  `is_canonical` reads four bytes of a signature at fixed offsets.
* The constructor of a digest from a hex string writes as many bytes as the
  string has, whatever the size of the digest.
* `asset_create`, `asset_update` and `asset_publish_feed` each check a price
  against a different pair of assets, with a dummy id standing for the asset
  that does not exist yet, and `asset * price` throws above the share supply.
* The engine must conserve funds through any sequence of place, match, cancel
  and resolve, with integer division in the matching and in the rake.
* A bet is funded from what the bettor already holds on the market before it
  is funded from the balance; a later match or cancellation changes what the
  earlier bets rely on, and what is held must still cover every outcome.
* A proposal is applied when more than half of the witnesses approve, and
  approvals that were removed are not counted.
* A SON that sends a heartbeat, or is deleted by its owner, between the
  proposal to deregister it and the evaluation of that proposal.
* A deregistration proposal that expires before it is voted on: it must
  leave the index, or the SON stays listed as being deregistered.
* A logging macro asks `is_enabled` and calls `log` in two steps, its
  arguments may throw in between, the catch block of a dump asks again, and
  `FC_DISABLE_LOGGING` redefines some macros after others were built from
  them.
* `generate()` allocates a key and then fills it: the second step can fail
  after the first succeeded.

## 2. Modules

| Module | Models | MC module, configurations |
|---|---|---|
| `WinnerNumbers` | `get_seeds`, `get_winner_numbers` on one node | `MCWinnerNumbers`, `WinnerNumbersTermination.cfg` |
| `LotteryOptions` | `lottery_asset_options::validate` | `MCLotteryOptions`, `LotteryOptionsExact.cfg` |
| `WinnerDraw` | what `get_winner_numbers` promises its caller: the abstract draw | refined by `Lottery` |
| `Lottery` | the two above composed: options checked, then the draw | `MCLottery`, `Lottery.cfg` |
| `Seeds` | `get_seeds` on several nodes with different builds | `SeedsAcrossBuilds.cfg` |
| `BettingEngine` | the engine of `spec.md` | `MCBettingEngine`, `BettingEngine.cfg` |
| `BettingTests` | the betting test cases replayed on `BettingEngine` | `MCBettingTests`, `BettingTestsCollateral.cfg`; `MCTestSuite` |
| `ProposalTests` | `try_create_sport`, `chained_market_create_test` | `MCTestSuite` |
| `MCTestSuite` | one test of `betting_tests.cpp`, of either kind | `TestSuite.cfg` |
| `AssetSymbol` | `is_valid_symbol` | instantiated by `OperationValidate` |
| `AssetOps` | the `validate()` of `asset_ops.cpp` | extended by `MarketOps` |
| `MarketOps` | the `validate()` of `market.cpp` and `committee_member.cpp` | extended by `OperationValidate` |
| `OperationValidate` | `operation_validate`, with the symbol scan inside the asset creations | `MCAssetOps`, `AssetOps.cfg` |
| `ChainDb` | the getters and SON queries of `db_getter.cpp`, and the chain around them | `MCChainDb`, `ChainDb.cfg` |
| `KeyBytes` | `_put`, `_get` | used by the key modules |
| `ExtendedKey` | text form of extended and public keys | `MCExtendedKey`, `ExtendedKeyChecksum.cfg`; `MCFc` |
| `KeyDerivation` | `derive_child` up to the message that is hashed | `MCExtendedKey`; `MCFc` |
| `Digest` | `sha256.cpp`, and by its constants the two other digest classes | `MCFc` |
| `Sha1`, `Sha512` | `sha1.cpp`, `sha512.cpp`: `Digest` at 20 and 64 bytes | `MCFc` |
| `EllipticKey` | `private_key`, `public_key`, the children of both, `is_canonical`, `fingerprint`, the `EC_KEY` of `generate` | `MCFc`, `KeyGenerationLeak.cfg` |
| `Logger` | the macros of `logger.hpp` | `MCFc` |
| `MCFc` | the fc library, keys, digests and logging macros: one behaviour uses one of its parts | `Fc.cfg`, `KeyGenerationLeak.cfg` |

### WinnerNumbers

State: `pc` (entry, for, while, assert, returned, threw), the two arguments,
`taken` (words consumed), `current_seed`, `result`.

| Action | Code |
|---|---|
| `Enter` | the clamp `count_winners = count_members`, the return of the empty vector, the `FC_ASSERT` of `get_seeds` |
| `NextSeed` | the head of the `for` loop: the next of the 64 words |
| `Rehash` | one pass of the `while` loop |
| `PushWinner` | leaving the `while` loop, `push_back`, `break` |
| `Return` | the closing `FC_ASSERT` and the return |

A 32-bit word is a record of two 16-bit halves, because TLC computes with
32-bit signed integers. `Reseed` is the generator in that representation and
`MCWinnerNumbers` checks it against values computed with `uint32_t`
arithmetic. The sha256 words are not computed: each is an arbitrary member of
`SeedValues`. That also covers what `get_seeds` reads through the pointers it
keeps into the `_hash` of temporaries.

### LotteryOptions

`pc` (sizes, benefactors, tickets, accepted, rejected), the sizes of the two
vectors, the ticket price, the loop index `i`, the accumulator `total` modulo
2^16 as in the code, and a history variable `sum` with the shares added as
integers. `CheckSizes` is the two leading `FC_ASSERT`, `AddBenefactor` and
`AddTicket` one pass of each loop, `CheckTotal` the closing `FC_ASSERT`.

### Lottery

The composition. `Init` is the start of `validate()`; the steps of
`LotteryOptions` run; `EndLottery` starts the draw for options that were
accepted, with `count_winners = winning_tickets.size()` and any number of
ticket holders; the steps of `WinnerNumbers` run. The call of
`get_winner_numbers` at the end of a lottery is not in the repository:
`EndLottery` is the assumption that it passes the number of winning tickets.
The three 64 of the code are three constants, `MaxWinningTickets` (the bound
of `validate()`), `MaxCountWinners` (the assertion of `get_seeds`) and
`NumSeeds` (the words `get_seeds` returns); an `ASSUME` states that they are
equal, as they are in the code.

### WinnerDraw and the refinement

`WinnerDraw` is the draw without its mechanism: `Call` starts it for a number
of ticket holders and of prizes, `Pick` adds a holder that has not won yet,
`Return` ends it when every prize has a winner, `Refuse` throws before the
first winner when more are asked for than a draw gives. `Lottery`
instantiates it with the mapping

| `WinnerDraw` | `Lottery` |
|---|---|
| `members` | `count_members` |
| `goal` | the smaller of `count_members` and `count_winners` |
| `winners` | `result` |
| `outcome` | `idle` before the call, `returned` or `threw` as `pc`, `pending` otherwise |

and checks `DrawsAsPromised`, the specification of `WinnerDraw`, as a
property. `EndLottery` is `Call`; `PushWinner` is `Pick`; `Enter` and `Return`
are `Return` or `Refuse` when they leave the function; the clamp of
`count_winners`, `NextSeed` and `Rehash` change nothing the caller sees. The
closing `FC_ASSERT` of the function has no step in `WinnerDraw`: that it
cannot fail is part of what is checked.

### BettingEngine and BettingTests

`BettingEngine` has one action for each operation: `PlaceBet` (deposit,
matching against the other side in price-time order at the maker's odds, rest
of the bet into the book, release), `CancelBet`, `CancelUnmatched`, `Resolve`
(sweep, payout by verdict, rake on net winnings per bettor and group, all in
one step). Where `spec.md` and the tests disagree the module follows the
tests, and the disagreement is a run of its own (section 5).

The exposure ledger is the variable `exposure`: what is held of a bettor on a
market. `Required` is the rule: the worst loss of the two outcomes of the
market, over the matched position and the resting bets of the bettor, never
below zero (a resting back bet counts against the outcome "not win", a
resting lay bet against "win"). `PlaceBet` deposits what `Required` asks for
with the new bet resting, less what is held already; after the matches, and
in `CancelBet` and `CancelUnmatched`, `Exposure` computes the records again
and `Released` returns the difference to the balance, which is what the test
calls refundable unmatched bets. `Resolve` pays `Settled`: what was held,
plus the payout of the position, less what the position paid. A bettor with
nothing else on a market deposits the amount of the bet, as the tests check.
The rule is the one under which every amount stated in the comments of
`simple_bet_test_fixture_2` comes out.

`BettingTests` instantiates the engine with alice, bob, the two markets and
the group of the test fixture. A test is a record of the funds transferred,
the `place_bet` calls in order and the resolutions the test makes; `PlaceNext`
applies the next bet and `Conclude` any cancellation or resolution. The
`BOOST_CHECK_EQUAL` on balances are the `Expect_` definitions.
`simple_bet_test_fixture_2` checks nothing itself; its `Expect_` definition
states the amounts of its comments (a deposit of 500 for a lay bet of 2500,
500 returned to bob twice, a lay bet of 1500 left in the book).

### ProposalTests

A proposal is the sequence of the operations it proposes, each known by the
type of object it creates. `Update` is `proposal_update_operation`: the
approval is added or removed, and a proposal that more than half of the
active witnesses approve is applied, once. `Play` is the next step of a test
in the order of the test, with the `break` of `chained_market_create_test`
when the sport exists; `Vote` lets any witness add or remove its approval in
any order. The proposal subsystem is not in the repository and is stated as
the tests use it. The code that resolves the relative ids the operations of
`chained_market_create_test` carry is not in the repository either: the ids
are left out, and nothing is checked about that test beyond its loop.

### AssetSymbol

`is_valid_symbol` as a scan: `CheckEnds` is the length checks, the `BIT`
prefix and the checks of the first and last character; `ScanPlain`, `ScanDot`
and `ScanOther` are one pass of the loop each; `ScanDone` the return. A
character is one of a few kinds (upper case, lower case, digit, dot, other).
`Reference` is the grammar of the comment above the function with the length
and prefix rules. The scan is not run alone: `OperationValidate` runs it
inside the asset creations.

### AssetOps

The state is the operation and the verdict; each `validate()` is one step from
`pending` to `accepted` or `threw`. An `fc::optional` is a set with no or one
element. `price::validate`, `price::is_null`, `asset * price`,
`price_feed::validate` and `price_feed::is_for` are library functions outside
the repository and are stated as Graphene defines them: `asset * price`
throws when the side that divides is not positive, when the result is above
`GRAPHENE_MAX_SHARE_SUPPLY`, and when the asset is on neither side of the
price. `is_valid_symbol` is used here by its contract, the grammar `Reference`
of `AssetSymbol`; the translation of its code is the scan of `AssetSymbol`,
and `VerdictIsReference` ties the two. `calculate_fee` is not modelled (it
depends on `fc::raw::pack_size`).

### MarketOps, OperationValidate

`MarketOps` adds the three `validate()` of `market.cpp` and the three of
`committee_member.cpp` to `AssetOps`, in the same form. A url is its length;
`chain_parameters::validate` is not in the repository and is a flag of the
operation. `OperationValidate` is `operation_validate`: one `Verdict` action
for the `validate()` of each type. The two asset creations call
`is_valid_symbol` once the fee is seen not to be negative; the scan of
`AssetSymbol` then runs on the symbol of the operation, step by step, and the
verdict waits for its return.

### Seeds

`get_seeds` keeps a pointer into the `_hash` of an `fc::sha256` that is
destroyed at the end of the statement, and reads a word through it in each
round of a loop that makes further temporaries. What the read finds is
undefined; the module gives it the two outcomes a build produces: the words of
the first digest (the storage is left alone) or those of the digest of the
round before (the storage is reused). `reuses[n]` is the build of node `n`.
`HashSeed` is the head of the function with its `FC_ASSERT`, `HashWord` one
round, `Return` the end. A digest is not computed: its word `k` is the pair
of the text and `k`.

### ChainDb

The first half of the module are the getters (`head_block_num`,
`head_block_time`, `head_block_id`, `block_interval`, `current_fee_schedule`,
`last_non_undoable_block_num`, ...) and the SON queries, as operators on the
state of the database. `last_non_undoable_block_num` subtracts in `uint32_t`;
its result is a pair of a high and a low part. The second half is what
changes that state and is not in `db_getter.cpp`: `push_block` (with missed
slots, the undo history capped at `MaxUndo`, expired proposals removed),
`push_transaction` (the pending session), `RaiseDeregister` and
`RaiseReportDown` (a SON node uses the queries, signs with
`create_signed_transaction` and pushes a proposal), `Approve` (the proposal
is applied: `is_son_dereg_valid` is asked again), `Heartbeat`,
`OwnerDeletes`. `PROJECT.json` marks the second half `spec_modelled`.
`FairSpec` adds the fairness of section 3, under which
`SilentSonIsDeregistered` is checked.

The second half is an environment, not a translation, and what the run shows
is relative to it. There is one database: a node's query, its signature and
the arrival of its proposal are one step, so two nodes that raise the same
proposal from two views of the chain are not in the model, and
`OneDeregistrationPending` says nothing about them. The clock moves only with
a block and a behaviour has at most `MaxBlockNum` blocks, so a proposal that
is pending after the last block never expires; `SilentSonIsDeregistered`
holds across the expiries and retries that fit in three blocks, and not
beyond.

### KeyBytes, ExtendedKey, KeyDerivation

A byte is a number in 0..255 and a buffer a sequence of bytes, at the sizes of
the code. `_put` writes a signed `int` big-endian; `_get` reads it back with
the sign of its first byte. `fc::to_base58` and `fc::from_base58` are in
another file of the library and are not modelled: the variable `str` holds the
bytes a string decodes to, which is what the functions of this file compute
on, and no property is about the characters of a text. `sha256` stands for
the first four bytes of the digest; it is some function of the data, so the
model shows that what was written is read back, and nothing about which
damaged strings a checksum refuses. The curve is left out.

`ExtendedKey`: `Write` is `str()` or `to_base58`; `Resize` and `Flip` cut,
pad or change the string on its way; `ParseBegin`, `CopyByte`, `ParseEnd` are
`from_base58` of an extended key with the loop of `_parse_extended_data`;
`PublicKeyFromBase58` is `public_key::from_base58`.

`KeyDerivation`: both classes are asked for the child of the same parent and
index; `message` is the `chr37` given to `hmac_sha512` with the chain code.
The child is a function of the two, so equal messages are equal children.

`MCExtendedKey` puts the two side by side: a behaviour either writes and
reads a text or derives a child, and the part not in use stays at `"none"`.

### Digest, Sha1, Sha512

The three files are the same code at three sizes, so `Digest` is `sha256.cpp`
with the sizes as constants (`Size` bytes, words of `WordBytes` bytes,
`XorWords` words in the exclusive or), and `Sha1` and `Sha512` instantiate
it at 20 and 64 bytes. The state is one digest object `h`, one encoder `ctx`,
and whether the last operation threw. Every function of the file is an
operator, and an action that applies it to the object: the constructors (from
nothing, from data with its size check, from a hex string), `str`, `hash`,
the encoder's `reset`, `write` and `result`, the two shifts, the exclusive
or, the comparisons through `memcmp`, and the two variant conversions.
`from_hex` writes as many bytes as the text has pairs of digits and stops at a
character that is no digit; the bytes of `_hash` it does not reach are
uninitialised and take any value of `Garbage`. The compression function of
OpenSSL is a stand-in that keeps the length of its result and tells inputs
apart; no property depends on its bits.

### EllipticKey

A private key is a number below the order of the curve, or null; a public key
is the multiple of the generator with that number, so the curve is the
integers modulo `Order` and a point is known by its scalar. That keeps what
the file does with keys (which parent and which digest give which child, which
calls throw, how a secret is laid out in its bytes) and leaves out the field
arithmetic, which is in the library below and not in the repository
(`regenerate`, `get_public_key`, `add`, `serialize` are `spec_modelled`). A
secret has `SecretSize` bytes.

| Action | Code |
|---|---|
| `Generate`, `GenerateThrows` | `private_key::generate`: the key goes to the `private_key` that is returned; or `EC_KEY_new_by_curve_name` gives none; or `EC_KEY_generate_key` fails and the function throws with the key still allocated |
| `GenerateFromSeed` | `generate_from_seed`: seed plus offset modulo the order, written right-aligned into a zeroed secret, or the `FC_ASSERT` on its size |
| `GenerateMaster` | `extended_private_key::generate_master` |
| `GetPublicKey` | `get_public_key` of the private key in hand |
| `PrivateChild`, `PublicChild` | `private_key::child`, `public_key::child`: the digest of the parent's public key and the offset, added to the secret or to the point |
| `PrivateFromVariant`, `PublicFromVariant` | the variant conversions, there and back |

`get_secret` writes the bignum right-aligned into the zeroed secret
(`BN_num_bytes`, then the shift). `is_canonical` and `fingerprint` are
operators on a signature and on a key. A behaviour makes new keys until it
asks one for a child (`NewKey` needs an empty path), and the chains of
children end at `MaxDepth`.

`unowned` is the heap as far as `generate` touches it: the number of
`EC_KEY`s that were allocated, were not freed and are held by no
`private_key`. It grows by the one path of `generate` that throws after the
allocation, up to `MaxUnowned`.

### MCFc

The fc library in one run. A behaviour uses one part: the text of a key
(`ExtendedKey`), a derivation (`KeyDerivation`), one digest object of one of
the three classes, one private key with its public key (`EllipticKey`), or
two threads at the logging macros (`Logger`). The parts share no state in
the code either: they call each other as functions, and the modules do the
same through operators. The variables of the parts not in use stay as
`FcInit` leaves them; the variable `class` is the C++ class of the digest
object in use, so that a digest is held to the size of its own class.
`MCFc` extends `MCExtendedKey` and `Logger`, whose definitions carry the name
of their module where the two would meet (`LoggerInit`, `LoggerNext`,
`where` for the place of a thread), and takes the other parts as instances.

### Logger

A use of a macro is up to four steps of a thread. `Use` is the condition of
the macro (`is_enabled`), or nothing at all where `FC_DISABLE_LOGGING` has
emptied the macro; `Log` evaluates the arguments and calls `log`; `Throw` is
an argument that throws, into the catch block of `idump`, `wdump` and `edump`
or out of the macro; `Catch` is the catch block, which uses the plain macro
and so asks `is_enabled` again; `Unwind` hands the exception to the code
around the macro. `set_log_level` changes the level of a logger between any
two of these steps.

What a macro expands to is computed from the header as the preprocessor
computes it. `Defines` is the sequence of the seventeen `#define` of the
header in the order of the file: a logging macro `Asks` a logger at a level,
a dump `Uses` another macro, the three caught dumps (`CaughtDump`) in a `try`
with the macro of their `catch`. `Disables` is the block of
`FC_DISABLE_LOGGING`, five definitions as `Nothing` that follow the others.
`InForce` is the last definition of a name, and `Expands` replaces the macro
a body names by the definition in force where the macro is used, not where
it was defined: that is why the dumps, defined above the block, are empty in
a disabled build. The class `logger` is only declared in the header:
`is_enabled` compares the level of the message with the level of the logger,
`log` takes the message, and names, parents and appenders are left out.

The record of a use carries `seen`, the level its logger had when the macro
asked first. It is a history variable: no action reads it, and
`SilentOnlyAfterSetLevel` compares it with the level at the second check of
a dump.

### MCTestSuite

`betting_tests.cpp` holds two kinds of tests. `MCTestSuite` starts either a
betting scenario (`BettingTests`) or a proposal test (`ProposalTests`) and
takes the steps of that module; both share `test` and `step`.

## 3. Bounds, deadlock, fairness

| Run | Bounds | Why they are enough |
|---|---|---|
| `lottery` | 4 for each of the three 64; 0 to 5 winning tickets; up to 3 benefactors; shares 0, 5000, 10000, 37768; 0, 1, 2, 3, 4, 5 and 300 ticket holders; 8 hash words | one size above the bound; two shares of 37768 wrap the total to 10000; fewer, as many and more holders than prizes; 300 holders for the narrowing of `winner_num`; words on the fixed points and the 2-cycle of the generator |
| `winners_termination` | 4 words and winners, 10 hash words | the short cycles are among the words |
| `seeds_across_builds` | 2 nodes, 3 words in a digest, `count_winners` 0, 64, 65 | one node of each build; the storage is overwritten from the second round on; both sides of the `FC_ASSERT` |
| `betting_engine` | 2 bettors with 5 each, 2 markets in 1 group, amounts 0..2, odds 1..3, fee 1, rake 50%, 4 bets | odds 2 and 3 make lay and back amounts differ and leave remainders that cannot match; four bets give a taker that crosses two makers, and a bettor who backs, is matched and lays against the own position, with and without a later match or cancellation; 50% makes the rounding of the rake visible |
| `betting_tests` | the values of the tests, rake 0, 3%, 10%, 20%; 10 witnesses | above 21% a product leaves TLC's integers; ten is the number `try_create_sport` counts with ("5 for", "6th", "7th") |
| `asset_ops` | asset ids 0, 1, 2; amounts around 0 and the maximal supply (1000); percents around 100%; every symbol of up to 5 characters over `B I T a 0 . -`, lengths 3 to 4 allowed; urls around 127 | the core asset, the dummy id 1 and another asset; each comparison at its boundary; one character of each kind the scan tells apart, two dots possible, both length limits crossed |
| `chain_db` | 2 SONs, 2 nodes, 1 witness, 3 blocks of 3 seconds with up to one missed slot, deregistration after 6 seconds, proposals and transactions good for 9, an undo history of 2 sessions | a SON reported down at genesis is to be deregistered after one block with a missed slot; a proposal raised then expires at the third block and is raised again; a heartbeat fits between proposal and vote; the history is full after two blocks and reaches genesis before. SONs and nodes are not declared symmetric, because TLC's symmetry reduction is not sound for liveness |
| `fc_library`: keys as text | 150 keys and readers, 11 lengths, 10 positions, 6 parents, 8 indexes | depth 0 and 255, fingerprints and child numbers with and without the top bit; lengths on both sides of 4, 78 and 82; the indexes at both ends of the normal and the hardened range |
| `fc_library`: digests | messages of 0, 1 and 2 bytes, `Garbage = {0, 205}`, `MaxOps = 3` operations on an object; texts of 0 and 1 characters and of one less to two more than the digest has digits, with a character that is no digit at either end; shifts by 0, 1, 7, 8, 9 bits and by one less to one more than the digest has bits | two values of uninitialised memory tell a byte that was written from one that was not; three operations reach a digest made, changed and read back |
| `fc_library`, `key_generation_leak`: keys | secrets of 2 bytes, `Order = 64300`, keys 1, 255 and `Order - 1`, four digests, two offsets, `MaxDepth = 2`, `MaxUnowned = 1`, 24 signatures of 65 bytes | keys of one and of two bytes for the shift of `get_secret`; digests above the order and sums that pass it; a child of a child on both sides; the first two bytes of `r` and of `s`, which `is_canonical` reads, at 0, 1, 127 and 128 |
| `fc_library`: logger | 2 threads, the loggers `default` and `user`, either of them given by name to the `fc_` macros, levels debug, warn and off, 2 uses of macros, both builds | every macro is enabled under one level and disabled under another; under warn a dump of warnings is enabled and the plain macro of information is not; two uses give a check of one thread on each side of a step of the other, and a catch block before and after a level was changed |

32 bytes of a secret are two in the model and the order of secp256k1 is a
number of two bytes, because TLC computes with 32-bit integers; the code
treats a secret as a buffer of `sizeof(secret)` bytes throughout, so no branch
depends on the 32.

The two threads of the logger do the same things, and `Fc.cfg` takes them as
a symmetry set (`ThreadSymmetry`). The one temporal property of the run,
`SilentOnlyAfterSetLevel`, is an action property that names no thread, so the
reduction is sound for it as it is for the invariants.

Deadlock is checked in `chain_db`, where a transaction can always be pushed.
The other runs have `CHECK_DEADLOCK FALSE`: each behaviour is one call, one
test, one market group, or a bounded number of operations on one object, and
it ends.

Fairness is used in two runs. `winners_termination` checks `Terminates` under
`WF_vars(Next)`: `get_winner_numbers` runs to completion on the thread that
applies the block and no step of it waits for anything. `chain_db` checks
`SilentSonIsDeregistered` under `Fairness` of `ChainDb`: for every SON, weak
fairness of the raising of a deregistration proposal by some node and of the
vote on a pending one. The SON nodes run the task that calls
`get_sons_to_be_deregistered` periodically and approve what the other nodes
propose, so a proposal that stays possible is raised and one that stays
pending is voted on. Blocks, heartbeats and deletions by the owner are not
fair: nothing in the code says that a block comes, that a SON returns or that
its owner acts, and the property holds without them. The clock of the model
stops at `MaxBlockNum`, so a SON that has fallen silent stays silent from
then on: the property says that a silence which lasts leads to the
deregistration, and nothing about a chain that outruns its SON nodes.

## 4. Runs

| Run | Module, configuration | Result | Shows |
|---|---|---|---|
| `lottery` | `MCLottery`, `Lottery.cfg` | pass | accepted options cover the jackpot (exactly, up to multiples of 2^16); `get_winner_numbers` implements `WinnerDraw`; the draw of an accepted lottery never throws |
| `winners_termination` | `MCWinnerNumbers`, `WinnerNumbersTermination.cfg` | violation | the re-seeding loop does not end for words on the short cycles |
| `lottery_options_exact` | `MCLotteryOptions`, `LotteryOptionsExact.cfg` | violation | shares adding up to 755.36% are accepted |
| `seeds_across_builds` | `Seeds`, `SeedsAcrossBuilds.cfg` | violation | two nodes whose builds treat the destroyed digest differently return different seeds |
| `betting_engine` | `MCBettingEngine`, `BettingEngine.cfg` | pass | what is held of a bettor on a market covers the loss of every outcome, whichever of the resting bets are matched first, and is no more than the worst of them; funds are conserved; a cancel-only resolution restores every bettor; the book is never crossed; matching respects price-time priority |
| `betting_tests` | `MCTestSuite`, `TestSuite.cfg` | pass | the engine gives the balances the tests check, and those the comments of `simple_bet_test_fixture_2` state, and conserves their funds; the requirements of `try_create_sport` hold |
| `betting_lay_collateral` | `MCBettingTests`, `BettingTestsCollateral.cfg` | violation | the tests debit a lay bet by its amount, `spec.md` by amount * (odds - 1) |
| `asset_ops` | `MCAssetOps`, `AssetOps.cfg` | pass | an accepted creation has a rate between the core asset and the new asset; an accepted update a rate between the asset and the core asset; an accepted feed prices the asset it is published for; `is_valid_symbol`, run inside the creation, accepts exactly the documented symbols |
| `chain_db` | `MCChainDb`, `ChainDb.cfg` | pass | the state keeps its types, pending proposals have not expired and a signed transaction refers to the head block and expires after it; `get_sons_to_be_deregistered` and `is_son_dereg_valid` agree on every SON; a SON has at most one deregistration pending, and one that has not expired; a SON that is to be deregistered does not stay so (under the fairness of section 3); a SON is deregistered only after the silence the parameters ask for, however late the proposal is applied; `last_non_undoable_block_num` is ahead of the head block only in the case of section 5 |
| `fc_library` | `MCFc`, `Fc.cfg` | pass | keys are read back as written; the parser stays in its buffer; public and private derivation of an extended key agree; a digest has the size of its class; the exclusive or of two digests is that of their bytes; a digest is read back from its own text, with or without characters after it, and from a text cut short the bytes of the text followed by what memory held; a digest shifted right is never greater than the digest; the children of a private key and of its public key agree; keys come back from their variants; `is_canonical` accepts exactly the signatures whose `r` and `s` are 32 bytes each as DER integers; the fingerprint is the first four bytes of the hash in their order; a build with `FC_DISABLE_LOGGING` writes only through the macros that are given their logger, the dumps being emptied with the macros they expand to; a dump swallows an exception without a word only when the level of its logger was set between its two checks |
| `key_generation_leak` | `MCFc`, `KeyGenerationLeak.cfg` | violation | `generate()` throws with the `EC_KEY` it allocated still allocated |
| `extended_key_checksum` | `MCExtendedKey`, `ExtendedKeyChecksum.cfg` | violation | `_parse_extended_data` copies a byte of the checksum into the key buffer |

Every property of a passing run has a mutant in `PROJECT.json`: a changed form
of a definition, written above it in the module, under which TLC finds the
property violated.

Some branches of the models are never taken, because the code cannot take
them either: the `FC_ASSERT` of `generate_from_seed` on the size of the sum
cannot fail once the sum is reduced below an order that has the bytes of a
secret, and `get_secret` cannot meet an `EC_KEY` without a private part in a
`private_key` made by the functions of the file.

## 5. Findings

* **The winner draw may never end** (`db_getter.cpp:138`). With a taken index
  and a word whose orbit under the generator stays on taken indexes (0 is a
  fixed point), the `while` loop never leaves. The node hangs while applying
  the block.
* **Nodes may draw different winners** (`db_getter.cpp:113`). `get_seeds`
  reads the seed words through a pointer into a destroyed temporary. A build
  that leaves the storage alone returns the words of the digest of the seed,
  a build that reuses it the words of the last digest made in the loop; two
  such nodes disagree on the state after the block.
* **`last_non_undoable_block_num` wraps** (`db_getter.cpp:106`).
  `undo_db.size()` counts the pending session; while the history still
  reaches back to genesis and a transaction is pending, the difference in
  `uint32_t` is 4294967295. `NonUndoableAheadOnlyAtGenesis` states that this
  is the only case.
* **The lottery total wraps** (`asset_ops.cpp:288`). Two shares of 37768 add
  up to 10000 in a `uint16_t`; the assertion that says the distribution equals
  100% accepts them.
* **Extended keys are read without their checksum**
  (`elliptic_common.cpp:250`). The loop test is `i > size - 4`, so the first
  checksum byte is copied for strings of 4 to 81 bytes, and for fewer than 4
  bytes the difference wraps. Neither `from_base58` of the extended keys
  compares the checksum. The copy stays inside the buffer in every case.
* **A digest made from a short hex string is partly uninitialised**
  (`sha256.cpp:21`, and the same constructor in `sha1.cpp` and `sha512.cpp`). The
  constructor hands the text to `from_hex` and does nothing else: the bytes
  the text does not reach keep what the memory held, and characters after the
  last byte are ignored. `TextRoundTrip` states both: the digest comes back
  from the texts `str()` writes and from longer ones, and a shorter text gives
  the bytes it has followed by the bytes of `Garbage`, one digest for each
  value of it.
* **Lay collateral** (`betting_tests.cpp:138`): the tests debit a lay bet by
  its amount, `spec.md` by amount * (odds - 1); see the run.
* **Resolution rule** (`betting_tests.cpp:526`): the test `not_win` resolves a
  group with no winner and one canceled market and checks the payouts;
  `spec.md` accepts only exactly one win, or all canceled. `BettingEngine`
  follows the test, and `TestExpectationsHold` is checked on that.
* **`generate()` leaves an `EC_KEY` behind** (`elliptic_common.cpp:227`).
  The key comes from `EC_KEY_new_by_curve_name`; when `EC_KEY_generate_key`
  fails the function throws without `EC_KEY_free`, and nothing holds the
  key. The other OpenSSL objects of the file are in wrappers that free them
  (`ssl_bignum`, `bn_ctx`, `ec_group`), and on the path that returns the key
  goes to the `private_key`. Run `key_generation_leak` shows the two steps.

Things the runs show that are not findings:

* The relative ids of `chained_market_create_test` (`betting_tests.cpp:391`)
  do not follow the rule its own comment gives: the event names operation 3,
  the betting market group, as its event group, and the second betting market
  names operation 4, a betting market, as its group. The code that resolves
  the ids is not in the repository, so no run decides whether the proposal is
  applied; the test requires nothing after its loop and passes either way.
* `asset_update_operation::validate` can never accept an update of the core
  asset, because the rate must be between the asset and the core asset and a
  price has two different assets.
* The closing assertion of `get_winner_numbers` cannot fail as long as
  `get_seeds` gives as many words as it allows winners.
* `private_key::child` reduces the digest modulo the order inside
  `generate_from_seed`; `public_key::child` hands it to `add`, which refuses a
  digest that is no scalar. `ChildKeysAgree` holds because it compares the
  two only when both children exist. What `add` refuses is stated from the
  library's interface, so this is no claim about the code.
* `generate_from_seed` can arrive at the secret 0, from which no public key
  can be taken; the key throws when it is first used.
* A message can reach a logger after `set_log_level` turned it off, and the
  error message of a dump can be dropped, when the level changes between the
  check and the call. Nothing in the source says either is wrong;
  `SilentOnlyAfterSetLevel` states that a change of level is the only way
  the error message is lost.

## 6. Not modelled

* The bits of the sha and elliptic-curve primitives and of base58: they are
  in OpenSSL and in libraries outside the repository, and out of TLC's reach.
  The modules keep their interfaces: lengths, who is given what, what throws.
* `calculate_fee` of the asset operations and the `FC_REFLECT` lines of
  `asset_ops.cpp`: they depend on serialisation code outside the repository.
* The getters of `db_getter.cpp` that return one object by its id
  (`get_core_asset`, `get_core_dynamic_data`, the node properties,
  `get_account_stats_by_owner`, `get_witness_schedule_object`): one lookup
  each, of objects no modelled operation changes.
* `get_curve`, `deserialize` and `get_extended_public_key` in
  `elliptic_common.cpp`: the first is a lookup in OpenSSL, the others read
  and copy the fields that `ExtendedKey` already covers in their text form.
* The heap beyond the `EC_KEY` of `generate()`: the other allocations of the
  modelled files are in wrappers and containers that free them.
* An order between `set_log_level` and a plain message already past its
  `is_enabled`: the interleaving is in `Logger`, but the header promises
  nothing about a late message that a property could state.
* That a proposal is applied whole or not at all, and that a settlement
  cannot stop half way: the proposal subsystem and the evaluators are not in
  the repository, the models take both as one step by assumption, and a
  property would hold by the shape of that step.
* Two SON nodes with two views of the chain: the node side of the SON
  protocol is not in the repository, and `ChainDb` has one database.
* A property of its own for `limit_order_create_operation::validate`: the
  action is part of `asset_ops` and fires there, and what it accepts is
  stated by its guard alone.
* The class `logger` beyond `is_enabled`, `log` and `set_log_level`: names,
  parents, appenders. The header only declares them.
* The other types of the `operation` variant and
  `operation_get_required_authorities`: their `validate()` are not in the
  repository.
* The sport operations and evaluators, the block header and the
  account-history plugin: the headers declare structures and methods, and
  the bodies are in files the repository does not hold. `spec.md` says
  nothing of them beyond what the betting tests use.

## 7. Roadmap

The project keeps to a dozen runs; new modules join the run of the component
they interact with, as `Lottery`, `MCFc` and `MCTestSuite` do.

| Next | Module | Models | Joins |
|---|---|---|---|
| 1 | `BettingEngine` | two groups, to show that resolving one leaves the other untouched | `betting_engine` |
| 2 | `ExtendedKey` | `deserialize` and `get_extended_public_key`, so that an extended private key, its text and its extended public key are one behaviour | `fc_library` |
| 3 | `Lottery` | the draw on two nodes: `Seeds` in place of arbitrary words, so that the winners, not only the seeds, are compared | `seeds_across_builds` |
| 4 | `BettingEngine` | an abstract ledger that pays every bet in full, and the netting shown to reach the same balances at resolution | `betting_engine`, as a refinement property |
