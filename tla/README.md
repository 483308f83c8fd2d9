# A TLA+ model of VaultLite

VaultLite (`src/vaultlite/`) is a secret manager in one Python process: a vault that is
sealed until the holders of its key shares open it, encrypted and versioned secrets, a tree
of tokens, leases, policies and a hash-chained audit log, behind a small HTTP server and a
command line. This directory models its state machines in TLA+, model-checks them with TLC
on small instances, and proves the properties that matter most with TLAPS.

1. [The system](#1-the-system) - components, state, interactions, what is hard
2. [The modules](#2-the-modules) - what models what, and how it corresponds to the code
3. [The runs](#3-the-runs) - what TLC checks, with which bounds and fairness
4. [The proofs](#4-the-proofs) - what TLAPS proves, from what, how
5. [Disagreements found](#5-disagreements-between-the-code-and-its-documentation)
6. [What is left out](#6-what-is-left-out-and-why)
7. [The plan](#7-the-plan)

How to run, in this directory: `tlc -workers 2 -config <run>.cfg <module>` and
`tlapm <module>Proofs.tla`. `PROJECT.json` lists the runs, maps every definition to the
lines it stands for, and lists the hazards the properties are for.

## 1. The system

| component | state | operations | what makes it correct |
|---|---|---|---|
| `seal.py` SealManager | key, its hash, threshold, shares collected so far, sealed flag | initialize, provide_unseal_share, seal, require_unsealed, to/load_from_dict | no unsealing without the shares that are required; the shares do suffice; nothing collected before a seal counts after it |
| `auth.py` TokenManager | token records by id, app roles | create (root, child), validate, revoke, renew, cleanup, create_approle, approle_login | a revoked token and everything below it are dead for good; use limits hold |
| `lease.py` LeaseManager | leases by id | create, renew, revoke, revoke_by_path, revoke_by_token, list, cleanup | a lease that has ended never comes back; none runs past the maximum |
| `versioning.py` VersionedSecret | list of versions, next number | write, read, soft_delete, undelete, destroy, metadata | numbers are given once; deleted data comes back unchanged, destroyed data never; the current version is the newest readable one |
| `vault.py` Vault | the managers above, `_secrets`, `_envelope`, a store | one method per request: require unsealed, authenticate, authorize, act, log | the same across several steps, threads, failures and restarts |
| `store.py` | ciphertexts and metadata by key (memory, files, SQLite) | put, get, delete, list_keys, exists | a key reads what was last put there, or nothing |
| `policy.py` PolicyManager | policies by name | add, delete, get, list, check_access, path patterns | a request is allowed exactly when a policy of its token covers path and capability |
| `audit.py` AuditLog | chained entries | log, verify_chain, query, to_list, load_from_list, clear | an altered entry is found, however much is logged after it |
| `crypto/` | key material | AES, CBC, PKCS#7, HMAC, PBKDF2, envelope encryption, key rotation | decrypt inverts encrypt; what was altered or is under another key is refused |
| `api.py` VaultServer | none of its own | HTTP routes to Vault methods | one request at a time |
| `cli.py`, `types.py`, `errors.py`, `utils.py` | none | argument parsing, records, exceptions, path clean-up | - |

**Interaction.** `Vault` owns everything else and calls it directly. TokenManager,
LeaseManager, AuditLog and each store have a lock of their own, held for one method;
PolicyManager, SealManager and VersionedSecret have none, and neither has Vault. A request is
therefore a sequence of atomic steps on different managers, and what it learned in one
(this token is valid, this path has no secret) may be stale in the next. `VaultServer` is a
plain `HTTPServer`, which answers one request after the other; but it can be started in a
background thread (api.py:347) beside other users of the same Vault, and Vault is documented
as a library. Both uses are modelled: a constant `Concurrent` tells them apart.

**What is hard here.**

* *Check, then act.* Authentication, then the operation (every method of Vault); no secret
  found, then one made (vault.py:206); a number read, then counted up (versioning.py:52-58).
* *Two objects, one operation.* A token is revoked and then its leases (vault.py:535-537); a
  version is in memory, then its ciphertext in the store, then the metadata (vault.py:210-223),
  and any of the puts may raise.
* *Sequences of legal calls.* Shares sent twice, out of turn, or before a seal; writes,
  deletes, undeletes and destroys over a list that is pruned at its front meanwhile.
* *Time.* Tokens and leases that expire, are renewed too late, or were cleaned up.
* *Restarts.* Secrets, tokens and the audit log live in memory only; the store outlives them.
* *What is stored.* Payloads of two master keys side by side, files half written, bytes that
  change on disk: nothing of it may be read as something that was never saved.
* *Termination.* The revocation walk appends to the list it iterates over, holding the lock.

## 2. The modules

| module | models | extends / uses |
|---|---|---|
| `Seal` | seal.py | |
| `SealCeremony` | the holders of the shares sending them in turn; strays, seals, restarts | `Seal` |
| `Clock` | time.time(), dict assignment | |
| `Tokens` | auth.py, one action per method | `Clock` |
| `Leases` | lease.py, one action per method | `Clock` |
| `Sessions` | vault.py's requests on tokens and leases, with threads | `Tokens`, `Leases` |
| `RevokeWalk` | the loop of `revoke_token`, round by round | instance of `Tokens` |
| `SecretHistory` | *abstract:* what a versioned secret promises | |
| `VersionList` | the list of versions and its queries | |
| `VersionedSecret` | versioning.py, one action per method | `VersionList`, instance of `SecretHistory` |
| `VaultSecrets` | vault.py's requests on one secret, statement by statement, with the store | `VersionList` |
| `Audit` | audit.py | |
| `Policies` | policy.py's validation, built-in policies and patterns (pure) | |
| `Access` | one request from its authorization to its log entry, while others change policies and log | `Audit`, `Policies` |
| `AES` | crypto/aes.py (pure) | |
| `CBC` | crypto/padding.py, crypto/modes.py (pure) | `AES` |
| `Envelope` | crypto/envelope.py (pure) | `CBC` |
| `KeyValue` | *abstract:* what a store that encrypts promises | |
| `Payloads` | every payload that can come to be stored, and what the envelope makes of it (pure) | `Envelope` |
| `AtRest` | the three stores holding payloads | instance of `KeyValue`; MCAtRest gives it `Payloads` |
| `MC*` | constants for TLC | the module they are named for |
| `*Proofs` | theorems | the module they are named for; `SealProofs` is about `SealCeremony` as well, `AccessProofs` about `Audit` and `Policies`, `AtRestProofs` about `AES`, `CBC`, `Envelope` and `Payloads` |
| `VersionListProofs` | lemmas about `VersionList`, for the proofs about `VersionedSecret` and `VaultSecrets` | `VersionList` |

Definitions called "Mutated form of X" are plausible slips in X's code. No specification uses
them: `PROJECT.json` ("mutants") says which property of which run notices each.

### Seal, SealCeremony

`split_key` draws all shares but one at random and makes the last one XOR to the key. A byte
string is the *set* of independent random values whose XOR it is and XOR is symmetric
difference; the key is `{0}`, a foreign string `{-1}`. What `unseal()` is sent (`Offered`) is
whatever decodes as base64: every XOR of shares that were handed out, one share or sixteen zero
bytes included, each of them masked by a foreign string or not, and what is too short. `MadeOf`
gives the numbers of the shares that a string is the XOR of; MCSealCeremony assumes, for up to
four shares, that their XOR is the string. So `Reconstruct` computes what
`reconstruct_key` does, duplicates that cancel and foreign bytes included, and a hash is
represented by its preimage. `raised` is how the last call ended. `ProvideUnsealShare` is one
action per outcome of the method (not initialized, already unsealed, collected, threshold
reached). `Reload` is `to_dict` into a new manager's `load_from_dict`.

`SealCeremony` adds the people: `HolderSends` sends the share of the holder whose turn it is,
`Disturb` is anybody else, with any string of `Offered`, as often as they like until
`CalmsDown`. `since` is history: the shares that what was sent since the last seal is made of.
The code keeps no record of who sent what; the ceremony recovers
because the whole progress is dropped when the threshold is reached without the key.

### Tokens, Leases, Sessions

A method that holds its manager's lock is one action. Ids are numbers in the order of issue
(the code's are random and never reused); `lineage` and `everRevoked` are history. `Reached(t)`
is what the walk of `revoke_token` marks: the live tokens below t that are connected to it
through live tokens. That the walk does compute this set, and ends, is what `RevokeWalk` shows.

In `Sessions` a thread authenticates (`Authenticate`), then acts in another step
(`DoCreateToken`, `DoRevokeToken` and then `DoRevokeLeases`, `DoRead`, `DoLease`, ...), then is
idle. `Housekeeping` switches on the methods of the two managers that nothing in vault.py
calls (renew_token, both cleanups, revoke_by_path). `Return` is an operation that touches
neither tokens nor leases or is refused by a policy. Sealing is left out: a request to a
sealed vault raises before it changes anything, so it adds no state to these tables.

### SecretHistory, VersionList, VersionedSecret

`SecretHistory` is the promise: each number, once given, stands for the data that was written,
and is active, deleted, or gone; destroying or pruning makes it gone for ever, deleting hides
it until it is undeleted, reading without a number gives the newest that is not destroyed.
`VersionedSecret` is the code's list with its pruning loop and its searches. `Fate` maps the
list to the promise (a number that is not in the list is gone) and
`KeepsPromise == Abstract!Spec` is the refinement. The `request` variable is the last call
and what it returned, so that replies are compared as well as states.

### VaultSecrets

Every request on one path, one statement of vault.py or versioning.py per step, for any
number of threads: find the secret or make one, take the number, count up, append, prune in
two statements a round, put the ciphertext, put the metadata; look up and fetch; change a
version and, for destroy, delete the ciphertext first. `x += 1` is one step. Store calls are
atomic; each may raise, leaving the old value or, for a put of FileStore (which writes in
place), a torn one. An envelope is the master key it was made from: a ciphertext under another
key fails authentication. `Restart` is a crash at any point and a new Vault on the same store,
which starts with no secrets, another key, and numbers from 1. The two attributes that
`seal()` and `unseal()` set are set in one step here, because a request checks both before it
starts; what two of them at once can leave is told in section 5.

### RevokeWalk

`pending` is `to_revoke[idx:]` as a set; a round takes any member, so the result does not
depend on the order. The initial states are *all* trees and *all* sets already revoked, a live
token below a revoked one included, which overlapping requests do leave.

### Audit

An entry is its content, the hash it names as its predecessor's, and its own hash; `Hash` is a
pair, that is, injective. `Hashes[n]` are the hashes that n links can give from GENESIS_HASH on;
`GenesisAssumption` says that none of them is GENESIS_HASH again. `Load` brings in a list as it was or altered: an entry left out, two
exchanged, an entry that says something else with the old hash, with a recomputed one, or with
everything after it logged anew. (test_audit.py alters `_entries` directly; nothing in
vaultlite calls load_from_list.) `Verify` is a reader who finds the chain valid and keeps the
last hash. `clear()` is also what a restart amounts to: nothing saves the log.

In `Access` the log's entries say "allow" or "deny".

### Policies, Access

A path is the sequence of its segments, a pattern one with `*` and `**` among them. The code
matches strings: `/**` is cut out wherever it is and the path compared with what remains
(`Base`, `AtOrBelow`), or the whole is given to fnmatch, whose `*` crosses slashes
(`Behind`: a wildcard segment takes one or more segments). `Documented` is what policy.py:7-10
and 67-72 say instead, `Confined` that nothing outside the pattern's literal beginning is
covered; the tables are computed once over the patterns and paths of the run.

`Access` follows one request: `Admit` (sealed, unauthenticated, or in), `CheckRoot` or
`Check` once per policy name, `Deny` with its entry, then the act - `Put`, `Delete` and
`RemovePolicy` on policies, `Use` for every request that is logged, `Look` for those that are
not - and `LogAndReturn`. Since PolicyManager has no lock, `OthersChange` may happen between
any two of them, and `OthersLog`, the alterations of `Audit` and `Restart` likewise. `granted`
and `steady` are history: whether any, and which of the token's policies all along, granted
the request since it began. `reply` is the HTTP status that api.py gives each exception.

### AES, CBC, Envelope, Payloads, KeyValue, AtRest

The cipher is computed byte by byte: a block is the sequence of its sixteen bytes, in which
the code's `state[r][c]` is `Place(r, c)`. The substitution table is the source's, its inverse
is made from it as in the source, and MCAtRest assumes the answer of FIPS-197 that
test_aes.py knows. What the cipher rests on is stated in `AES` as facts about its tables, which
TLC evaluates for every byte: the xor of two nibbles is that of their bits (`XorTable`), the
two substitutions undo each other (`SBoxTables`), multiplication distributes over xor and the two
matrices of MixColumns multiply to the identity (`MixTables`). `Unpad`, `DecryptCBC`, `Decrypt` and `Rewrap` return `ValueError` where the code raises. The fields
of a payload are the bytes that base64 is decoded to, and an HMAC is the pair of its key and
its data - SHA-256 without collisions.

`AtRest` puts payloads into one of the three stores. `PutFails` leaves FileStore's file half
written (`Torn`), the others as they were; `Crash` empties MemoryStore. With `DamageAtRest`
the first or the last byte of a field changes, the HMAC is replaced, or a cut between two of the
fields that the HMAC covers moves by a block or a byte (`DamagedTo`). `Save` stores the payload;
the list of versions that vault.py:223 puts beside it, as it is in memory, is `meta` of
`VaultSecrets`.
`RotateMasterKey` is the method; nothing in vaultlite calls it, so what its caller does with
the result is external: `PutBack` one by one, `UseNewKey` at the end, or `PutBackFails` and
`Crash` in between. The payloads are the bytes themselves: `Payloads`
computes, with fixed values for what os.urandom draws, all that can be stored and what
encrypting, decrypting and re-wrapping make of it; `AtRest` takes these tables as constants.
Of what is drawn `DrawnAssumption` says that it has the length of a block and that no master
key is drawn twice.

`KeyValue` is the promise: a key holds the value last saved, or nothing, or it is lost;
reading gives just that. `Holds` maps a payload to what it decrypts to under any of the keys.

## 3. The runs

| run | question | instance | states |
|---|---|---|---|
| `seal` | what it takes to unseal, under every sequence of calls, and does the ceremony open the vault? | (shares, threshold) pairs: all of up to 3 shares, 2 of 3, 3 of 4; rejected ones too | complete, 87 thousand |
| `seal_threshold` | *violation:* do `threshold` shares unseal? | as `seal` | |
| `sessions` | revocation and leases, one request at a time | 3 tokens, 1 lease, time 0..2 | 4.1 million |
| `sessions_concurrent` | what holds with two threads and housekeeping | 2 tokens, 1 lease, 2 threads | 541 thousand |
| `sessions_race` | *violation:* does a revocation reach every child? | 3 tokens, 2 threads | |
| `sessions_leases` | *violation:* do leases follow revoked children? | 3 tokens, 1 thread | |
| `revoke_walk` | does the walk end with `Reached`? | every tree of 5 tokens, every set revoked before | complete, 46 thousand |
| `versions` | does the list implement the promise? | 2 versions kept, 5 writes | 15 thousand |
| `vault_secrets` | requests statement by statement, failures, a crash anywhere | 1 thread, 2 versions kept, 3 writes a life, 2 lives | 2.6 million |
| `vault_race` | *violation:* is a write that returned kept? | 2 threads, no crash | |
| `access` | who may act, who is refused, what do patterns cover, what do a valid chain and a noted hash tell? | root and a token with two policies, 6 requests, 5 changes by others, 3 entries, 1 altered load | 1.2 million |
| `at_rest` | is what is read what was saved? | 3 stores, 2 keys in them, texts of 0, 15 and 16 bytes, 2 saves, 2 master keys, 1 damaged payload | 81 thousand |

**Why the bounds are enough.** *Seal:* up to three shares of three and up to three strings
of four, of which every string may be any XOR of shares, masked or not: every way to be absent, doubled,
combined or spoilt is reached below and at the threshold; the proofs cover every number. *Sessions:* three tokens are a grandparent, a parent and a child, the
least for a cascade two levels deep; a single lease can be created, renewed, expire and be
revoked; ttls of none, 1 and one above the maximum take both sides of each comparison within
two ticks. The proofs cover every number. *RevokeWalk:* five tokens give chains, forks and
dead tokens between live ones; proved for any finite tree. *Versions:* five writes through a
list of two push out three versions in every state of deletion. *VaultSecrets:* three writes
through a list of two prune once; the second life meets the ciphertexts of the first under
the same names. *Access:* two policies per token are the least for a change of one while the other is looked
up; the patterns have `**` at the end and in the middle, `*` in the middle and alone; three
entries have a beginning, an end and a middle. *AtRest:* the texts have no block, one not
full and one full, the cases of the padding, and take one or two blocks of ciphertext; two payloads of
different saves are the least that a broken-off rotation can leave under different keys. The
proofs cover texts of any length, all keys and drawn values, and any number of saves and keys.

**Properties.** The type invariants also hold the structure the rest relies on (parents are
older than children; the list is never longer than the bound). Beyond them:

* `seal`: `AllSharesRequired` (the strings of the attempt that opens the vault are made of all
  the shares, each by itself or within an XOR), `BelowTotalTakesCombined` (and when the
  threshold is below the number of shares, one of the strings is the XOR of several: with the
  shares as they were handed out the vault does not open), `AllSharesUnseal`, `SealCoherent`
  (key held exactly while unsealed; progress below threshold), `NoStaleShare` (all shares that
  opened the vault came after the last seal) and the liveness property `CeremonySucceeds`.
* `sessions`: `CascadeRevocation` (everything below a revoked token is revoked, at any depth,
  younger or older than the revocation), `NoRequestAfterRevocation`, `RevokedHoldsNoLease`
  (two threads break the first and the third, the unused cleanup the first: section 5).
* `sessions_concurrent`: what survives two threads: `UseCountBounded`, `LeaseWithinMax`,
  `LeaseNeverRevives`, `RevokedForever` (renewal and cleanup bring no revoked token back) and
  `ExpiredForGood` (nor, once it has expired, one that was created not renewable).
* `revoke_walk`: `RevokesReached`, `CountsRevoked`, and termination.
* `versions`: `NumberedInOrder`, `DataKeptOrErased`, and the refinement `KeepsPromise`.
* `vault_secrets`: `ReadReturnsWritten` (a read gives what *the* write of that number was
  given - not a failed write's number reused, not a former life's ciphertext),
  `WritesPreserved`, `DestroyedIsErased` (in the store, both under its key and in the
  metadata).
* `access`: `ActsAllowed` (whoever acts was granted it at some moment of the request),
  `DenialJustified` (and is not refused what one policy granted all along - two policies that
  change places between the lookups do refuse it), `GrantsAsDocumented` and `RulesConfined`
  (patterns cover all that is documented and nothing outside their literal beginning; what
  they cover beyond the documentation is in section 5), `TamperEvident` (a valid chain that
  still contains the noted hash says, up to there, what it said then) and `LogKeepsVerdict`
  (logging on neither hides nor moves a break). Entries cut off the end, or a list logged
  anew, verify: only the noted hash tells.
* `at_rest`: `StoredSoundly` (each payload that comes to be stored is read with one key at
  most; changed, it is refused or read as before; re-wrapped, only the new key reads it, as
  the same), `KeepsValues`, the refinement of `KeyValue` (a value may be lost to a failed put,
  damage, a crash or a rotation broken off, but never turns into another one or comes back
  without a save), `OnlyKeyInUseReads` (a rotation that was completed leaves nothing that the
  old key reads), and in `TypeOK` that only FileStore can be torn.

**Fairness.** `CeremonySpec` has weak fairness of `HolderSends`: the holders of the shares keep
sending them in turn while the vault is sealed, as people do who want it open; seals, restarts
and strays may go on for ever, and the property speaks of the time after they have stopped
(`calm`), if it comes. `RevokeWalk` has weak fairness of `Next`: a
`while` loop goes on. All other specifications state safety only and assume no fairness.

**Deadlock** is checked except in the `sessions*` runs, where all tokens the bound allows can
be used up and time be over, and in `revoke_walk`, where the walk ends.

**Two-threaded runs** that violate a property are in section 5. There is no passing two-thread
run of `VaultSecrets`: what it checks fails in short order, and the code makes no claim that
survives.

## 4. The proofs

All for every value of the constants, under the ASSUMEs of the modules (that `None` is not a
number or a key, ttls are natural numbers, and so on; TLC evaluates them in every run).

| theorem | statement | argument |
|---|---|---|
| `SealInvariant`, `SealTypes` | types and coherence | `SealInv`, a conjunction of the two, is inductive |
| `UnsealNeedsAllShares` | `AllSharesRequired` | `XorNeedsAll`: strings XOR to the key only if they are made of every share - were none of them made of the i-th, the i-th random value would be in just those that hold the key, and remain with it |
| `BelowTotalNeedsCombined` | `BelowTotalTakesCombined` | with `SingleSharesFit`: strings none of which combines two shares are at least as many as the shares they are made of, and an attempt ends at the threshold |
| `AllSharesAreEnough` | `AllSharesUnseal` | `EachShareOnce`: n shares in n places are there once each; `XorOfAll` then computes the XOR without induction, by counting where each value occurs |
| `SealVoidsShares` | `CeremonySpec => []NoStaleShare` | see below |
| `TypeInvariant` (Sessions) | `[]TypeOK` | inductive; any number of threads, housekeeping on or off |
| `SerialRevocation`, `SerialLeases`, `SerialAdmission` | `~Concurrent` and no housekeeping imply `[](CascadeRevocation /\ RevokedHoldsNoLease)` and `[]NoRequestAfterRevocation` | see below |
| `UsesBounded`, `RevocationIsFinal`, `ExpiryIsFinal`, `LeasesWithinMax`, `LeasesStayInactive` | `[]UseCountBounded`, `[]RevokedForever`, `ExpiredForGood`, `[]LeaseWithinMax`, `LeaseNeverRevives`; any number of threads, housekeeping on or off | see below |
| `WalkRevokesReached`, `WalkTypes`, `WalkCounts` | the walk marks `Reached(start)`, none twice, and counts it | see below |
| `ListInvariant`, `ListTypes`, `ListKeepsData` | types, `NumberedInOrder`, `DataKeptOrErased` | inductive as they stand together |
| `ListImplementsHistory` | `Spec => KeepsPromise` | initial states map to initial states, each method to the abstract operation of the same name with the same reply |
| `VaultTypes`, `SerialReads`, `SerialWrites`, `SerialDestroys` | `~Concurrent` implies `[]TypeOK`, `[]ReadReturnsWritten`, `[]WritesPreserved`, `[]DestroyedIsErased` | see below |
| `AccessTypes`, `OnlyAllowedAct`, `RefusalsJustified` | `[]AccessTypeOK`, `[]ActsAllowed`, `[]DenialJustified` | see below |
| `GrantsWhatIsMeant`, `RulesStayBelow` | `[]GrantsAsDocumented`, `[]RulesConfined` | see below |
| `LogTypes`, `TamperingShows`, `LogHidesNothing` | `[]TypeOK`, `[]TamperEvident`, `LogKeepsVerdict` of `Audit`, in `AccessSpec` | see below |
| `CipherInverts`, `ChainInverts` | block and CBC decryption give back what was encrypted, for every key, block, initialization vector and text | see below |
| `EnvelopeInverts` | so does the envelope | the key of the data is wrapped by one CBC and used by another |
| `RewrapKeepsMeaning` | a payload that can be moved to a new master key decrypts under it to what it was | see below |
| `DamageIsFound` | a payload damaged as `DamagedTo` says (the first or last byte of a field changed, the HMAC replaced, a cut moved by a block or a byte) is refused or decrypts as before | see below |
| `EnvelopeIsSound` | if AtRest's constants are the tables of `Payloads` (`EnvelopeTables`): `EnvelopeSound` | see below |
| `AtRestTypes`, `StoredPayloadsAreSound`, `OldKeysReadNothing`, `StoreKeepsValues` | with any envelope that is `EnvelopeSound`: `Spec` implies `[]TypeOK`, `[]StoredSoundly`, `[]OnlyKeyInUseReads`, `KeepsValues` | see below |
| `EncryptedStore` | with `EnvelopeTables`: `Spec => [](StoredSoundly /\ OnlyKeyInUseReads) /\ KeepsValues` | the two rows before together |

**SealVoidsShares.** `NoStaleShare` speaks of an open vault. The invariant adds
that every share the progress is made of was sent since the last seal or restart
(`ProgressSent`): `seal()` and a reload empty both. By `SealInv` and `XorNeedsAll` the strings
that open the vault are made of every share. `CeremonyUsesSeal` shows that the ceremony, its strays and restarts included, is a
behaviour of `Seal`.

**SerialRevocation.** `CascadeRevocation` alone is not inductive. `SerialInv` adds: the token
table is the whole tree (`Tree`: every token ever issued is still there, `lineage` unfolds
along `parent`, and `everRevoked` is exactly the tokens marked); at most one request is under
way (`OneRequest`); the token it was admitted with is not revoked, unless it is the one
`revoke_token` has just marked (`Admitted`). With `Admitted` a new child hangs below a live
token, so above it nothing is revoked. The step that matters is `RevokeToken`: the walk skips
revoked children, so it must be shown that no live token hides below one -
`WalkReachesBelow`, by least counterexample over the numbers of the tokens, *because*
`CascadeRevocation` held before. With threads `Admitted` is false, which is the violation of
`sessions_race`; with housekeeping `Tree` is, since the cleanup drops tokens.
`NoRequestAfterRevocation` needs no more: `validate_token` looks at the token's own flag only,
and `CascadeRevocation` says that the flag is set on everything below what was revoked.

**What threads do not break.** The other five theorems about `Sessions` hold whatever the flags,
since each rests on what one method does under its manager's lock: a use is counted in the step
that has checked the limit; `expires_at` is set from the time of the step and the lesser of the
ttl and the maximum. `RevokedForever` adds `MarkedStaysMarked` - a token that was revoked, while
it is held, is marked - and that no id is given out twice; `ExpiredForGood` that only `renew_token`
changes an expiry and that the clock does not go back; `LeaseNeverRevives` needs the same of
lease ids, since a cleaned-up lease must not come back under its number.

**WalkRevokesReached.** The set `Reached` is a least fixed point, so the invariant has two
halves: the walk stays within every closed set (`NotAstray`), and the live children of what
is marked are marked or pending (`NothingForgotten`). When nothing is pending what is marked
is itself closed, and both halves meet. This is what lets `Tokens` take the loop as one step.

**VaultSecretsProofs.** `VaultInv` says, for every statement at which the one request may be,
what it has done of its work so far: which number is the newest of the list (`Top`; between
counting up and appending it is yet to come), that the list is one too long only while it is
pruned, that a write about to put its metadata has its ciphertext under the current key, that a
destroy about to put its metadata has deleted the ciphertext. `StoreOK` relates memory and store:
a ciphertext under this vault's key is what the write of its number was given - one of a former
life is under another key, one of a failed put is `Torn` or what was there before - and each
version that a returned write promised is either destroyed or in the store with the list's data.
Every action is one lemma; each shows `Good` for the step it goes on to, and `Proceed` gives the
rest, since the other threads are idle. That last fact is where `~Concurrent` is used, and
`vault_race` shows that it cannot be dropped.

**AccessProofs, who may act.** `ActsAllowed` speaks of `granted`, which is history; the inductive
`HistoryOK` ties it to the present: whatever grants the request now makes `granted` true,
`steady` is contained in what grants it now, and no name already looked up is in `steady`.
When the list is at its end, all its names have been looked up, so `steady` is empty; when a
name's policy grants, `granted` is true. Every change by others is one to `policies` and, through
`Noting`, to the history in the same step. Nothing is used of the patterns.

**AccessProofs, what patterns cover.** `StoredInv`: every policy in place is built in or one that
some request may put, so its rules are among `Patterns`, and by `AccessTypeOK` none is empty. The
rest is about patterns and paths of any length. A left fold is defined by a choice of a function
on sets of places; `FoldExists` and `FoldTyped` show that this function exists and has its values
where they should be, `FoldSteps` that it is a walk from place to place, and `FnmatchSteps` and
`BaseSteps` say so of `Fnmatch` and `Base`. Then `DocumentedMatches`: where the documented share
of each segment ends is a place where fnmatch may stand behind it. `FnmatchConfined`: if fnmatch
succeeds it stands somewhere behind every segment, and behind the k-th, before the first wildcard,
at k only. `BaseConfined`: cutting out `/**` leaves that beginning as it is.

**AccessProofs, the log.** `LogInv` bounds the chains: a list's hashes are no longer than its
entries and the alterations so far. `NotedInv`: the noted hash is that of some chain that says
what was noted (`IsChain`). `ChainsMeet`: two chains with a hash in common say the same up to it -
hashes are pairs, so from where they meet both are walked back in step, and
`GenesisAssumption`, that no entry hashes to GENESIS_HASH, makes them end together. A list that
verifies is a chain (`ValidIsChain`), and that gives `TamperEvident`. For `LogKeepsVerdict`, an
appended entry is valid, and the validity of another depends only on those before it.

**AtRestProofs, the cipher.** `XorTable`, `SBoxTables` and `MixTables` are the only facts about
the tables that are used. SubBytes and ShiftRows are undone place by place. For MixColumns
`TimesSum4` makes multiplication linear over a sum of four, `RowsAndColumns` exchanges the sums,
and what is left is the product of the two matrices. A loop of the code is a recursive function
in the model: `Iteration` shows that such a function exists, and `UpTo` is induction up to the
number of rounds or blocks, by a least element. `KeyExpansionIs` and `RoundKeysAre` say that the
round keys are blocks; `CipherInverts` then goes back through the rounds, each undoing its
counterpart. `BlockAppended` says what the blocks of a text are when one more is put behind it; with it
`EncryptedIs` and `DecryptedIs` say what CBC makes of each block, and `ChainInverts` adds that
`Unpad` undoes `Pad` (`PadIs`).

**AtRestProofs, the envelope.** A payload carries its master key in the HMAC, so every other key refuses it
(`OtherKeysRefuse`). `Rewrap` unwraps the key of the data and wraps it anew, and signs: what the
new key unwraps is the same key (`ChainInverts`), and the ciphertext has not been touched. Damage:
the HMAC covers the bytes of three fields one behind the other, so a payload with a changed
byte has another one (`SameSigned`) and is refused. Divided otherwise the bytes are the same and
the HMAC still fits; but then either the wrapped key is a block shorter or longer and
never unwraps to 16 bytes, or it is as before and so are the iv and the ciphertext taken together,
which is all that decryption reads (`DividedOtherwise`). `Sound` and `Unsound` of `Payloads` are recursions over the changes of
the master key: `SoundIs` and `UnsoundIs` carry along that the payloads at `i` are read by
the i-th key alone. The HMAC being a pair stands for SHA-256 without collisions, and
`DrawnAssumption` for master keys that differ; both are used, and nothing else is assumed.

**AtRestProofs, the store.** This part takes the envelope as tables and asks only for
`EnvelopeSound`: what is encrypted is read back, and `SoundFor` of every payload that can be
stored. `at_rest.cfg` gives the constants the values that `EnvelopeTables` names, so
`EncryptedStore` is about the very specification that the run checks. The invariant adds
`RotationInv`: while rotated payloads are put back, every
key of the store whose turn is still to come is under the key in use and its new payload is
ready, and the others are under the new key already. So `OnlyKeyInUseReads` holds again when
`UseNewKey` ends the rotation, even after an earlier one was broken off. A payload has one key
that reads it, so re-wrapping keeps its `Meaning` and damage can only lose it; with that each
step maps to one of `KeyValue`.

**Only model-checked:** liveness (`CeremonySucceeds`, `Terminates`), since the prover handles
neither fairness nor ENABLED; and, by evaluation, the answer of FIPS-197 (`KnownAnswer`) and the
facts about the cipher's tables, of which there are finitely many. What overlapping requests do to
`VaultSecrets`, and to revocation, is not proved because
it is not true (section 5). Induction over data: the library's induction theorems take an operator
and cannot be instantiated here. Where the proofs need one they use least elements of sets of
numbers (`LeastElement`, `Induction`, `UpTo`).

## 5. Disagreements between the code and its documentation

* **Threshold** (`seal_threshold`). seal.py:16 says the vault unlocks "after threshold
  shares". The shares XOR to the key only all together, and the progress is dropped at the
  threshold: with a threshold below the number of shares (the server's and the command line's
  default is 3 of 5) the vault does not open with the shares as they were handed out, in
  whatever order and however often they are sent; only somebody who has several of them and
  XORs these into one string makes up for the missing places (`BelowTotalTakesCombined`).
  seal.py:44 says XOR "requires ALL shares".
* **Lost write** (`vault_race`). Two writes to a new path each make a VersionedSecret
  (vault.py:206-208) and the later replaces the earlier with its version, although
  versioning.py:3 says every write creates a version and old ones are preserved.
* **Child that outlives its parent** (`sessions_race`). create_token checks the parent and
  issues the child in two acquisitions of the lock (vault.py:510); a revocation in between
  misses the child, although auth.py:7 says children are revoked with their parent.
* **Leases of revoked children** (`sessions_leases`). revoke_token revokes the children but
  only the target's own leases (vault.py:537), where vault.py:536 says the associated leases
  are revoked too.

Seen while modelling, and true of the model too where it has them, but checked by no run:

* *A lease after the revocation:* a read whose token was validated before `revoke_token` may
  create its lease after both of its steps (vault.py:286). The lease of a revoked token then
  stays active, though vault.py:536 says its leases are revoked. `RevokedHoldsNoLease` holds one
  request at a time only: `sessions.cfg` with two threads and `Concurrent = TRUE` violates it,
  in six steps.
* *Children of cleaned-up tokens:* `cleanup_expired` drops a token that has expired without
  being revoked (auth.py:172); the walk from its parent, which goes by the tokens held, does not
  reach its children any more, although auth.py:7 says children are revoked with their parent.
  `sessions.cfg` with `Housekeeping = TRUE` violates `CascadeRevocation`. Nothing in vaultlite
  calls the method yet.
* *Plaintext in the store:* the metadata of a path is `vs.to_dict()`, with the data of every
  version (vault.py:223, types.py:53), and is stored as it is, although store.py:3 says "the
  store never sees plaintext" and vault.py:58 "All data is encrypted at rest". It is `meta` of
  `VaultSecrets`; what `AtRest` shows is about the encrypted copy beside it.
* *Patterns:* policy.py:8 says `*` matches one level; fnmatch lets it cross slashes
  (test_policy.py:21-23 expects that). A `/**` in the middle is cut out, so that `a/**/b` also
  covers everything below `a/b`. `GrantsAsDocumented` holds all the same: it asks for no less
  than the documentation, not for no more.
* *Lookups of a changing set:* a request can be refused although at every moment some policy
  of its token granted it, when two policies change between the lookups (policy.py:143).
* *delete_policy* looks and then deletes; the second of two at once gets a KeyError, answered
  500. put_policy authorizes `name` but stores under the policy's own name (vault.py:450-452;
  api.py makes the two equal). add_policy replaces the built-in policies that delete_policy
  protects.
* *"every operation"* (audit.py:3): renewing and revoking leases, metadata, reading policies,
  lookups and whatever fails are not logged.
* *Sealing:* seal() and unseal() set two attributes without a lock (vault.py:147, seal.py:226).
  Interleaved they can leave a vault that is sealed and still holds its envelope, or unsealed
  with no key.
* *FileStore's names:* `a/b` and `a///b` are two secrets (sanitize_path leaves `a//b`) and one
  file, so that one overwrites the other's versions; a secret named like a part of a path
  (`db` and `db/v1.json`) meets a directory; list_keys cuts ".json" out of the middle of keys,
  and SQLiteStore's treats `_` and `%` of the prefix as wildcards.
* *Payloads exchanged* between two keys of the store read well: the HMAC covers what is in
  the payload, not where it is. `DamageAtRest` leaves this out, since no document speaks of it.
* *A rotation broken off* cannot be repeated: rotate_master_key refuses the list as soon as
  one payload is under the new key already (`mixed` in AtRest).

## 6. What is left out, and why

* *SHA-256, PBKDF2:* an HMAC is the pair of its key and its data; kdf.py is used by nothing
  else in vaultlite. In `VaultSecrets` the envelope is "decrypts under the key it was encrypted
  with, raises otherwise", which `AtRest` shows of the real one.
* *Base64, hex and JSON of payloads:* they are decoded to what was encoded.
* *Deletes that raise* (store.py:126, 184): what they leave is what no delete or a delete
  leaves, so `AtRest` has no step of their own for them; `VaultSecrets` has
  (`DeleteCiphertextFails`).
* *Wildcards inside a segment* (`db*`, `?`, `[...]`): fnmatch is the standard library's.
* *HTTP routing, JSON, command line, logging:* no state of their own.
* *Reads without effect:* queries, listings, `to_dict`; the serialisation methods of the
  managers, which nothing calls (except SealManager's and AuditLog's, which are modelled).
* *list_secrets beside a writer:* Python may raise while iterating; nothing is lost.
* *Metadata of secrets and tokens, policy names:* data no property tells apart.
* *Pruned ciphertexts:* a version pushed out of the list keeps its ciphertext in the store, and
  no request reaches it. The model does the same; no property speaks of it yet.
* *ttl of 0:* means "never" for a token, "default" for a lease; modelled as the code does it, no
  document says what is meant.

## 7. The plan

Done since the first version: policies and the whole way of a request (`Policies`, `Access`),
stores and cryptography (`AES`, `CBC`, `Envelope`, `Payloads`, `KeyValue`, `AtRest`, and the
proofs about it). What would come next:

1. **Sealing in two statements**: `VaultSecrets` with `seal()` and `unseal()` taken apart, and
   `Seal` behind them.
2. **FileStore's names**: `_key_to_path` on segments, under `KeyValue`.
3. **Proofs**: of what 1 and 2 add; what still holds of revocation with housekeeping, when the
   tree has lost tokens (section 5).
