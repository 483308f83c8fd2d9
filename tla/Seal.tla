-------------------------------- MODULE Seal --------------------------------
(***************************************************************************)
(* SealManager of vaultlite/seal.py: the master key is split into shares   *)
(* whose XOR is the key, shares are collected one call at a time, the key  *)
(* is accepted when its hash matches, and seal() forgets it.               *)
(*                                                                         *)
(* Bytes.  split_key draws its shares independently at random, so a byte   *)
(* string is represented by the set of independent random values whose XOR *)
(* it is, and XOR is symmetric difference: KeyBit stands for the master    *)
(* key, i \in 1 .. n-1 for the i-th random share.  What this leaves out is *)
(* the 2^-128 chance of two independent draws coinciding.  SHA-256 is      *)
(* injective, so a hash is represented by what it was computed from.       *)
(***************************************************************************)
EXTENDS Integers, Sequences, FiniteSets, Functions

CONSTANTS
    Configs,   \* the <<shares, threshold>> pairs initialize() is called with
    None       \* Python's None / the empty key_hash of a new manager

ASSUME ConfigsAssumption == Configs \subseteq Int \X Int

KeyBit  == 0    \* the master key
Foreign == -1   \* sixteen bytes that split_key never produced
Short   == -2   \* a byte string shorter than the key, e.g. the empty string
Lost    == -3   \* a master key drawn by an initialize() that then failed

ASSUME NoneAssumption == None # {KeyBit} /\ None # {Lost}

VARIABLES
    initialized, sealed, masterKey, keyHash, threshold, totalShares,
    progress,  \* _unseal_progress
    raised     \* the exception the last call raised, "none" if it returned

vars == <<initialized, sealed, masterKey, keyHash, threshold, totalShares,
          progress, raised>>
config == <<initialized, keyHash, threshold, totalShares>>

-----------------------------------------------------------------------------
(* split_key: n-1 random shares, and a last one that makes them XOR to the key. *)
Share(i, n) == IF i < n THEN {i} ELSE KeyBit .. (n - 1)

Handed(n) == {Share(i, n) : i \in 1 .. n}

(* What reaches unseal(): whatever decodes as base64.  Besides the shares that
   is every XOR of some of them (sixteen zero bytes are the XOR of none), any
   of these masked by an outsider's sixteen bytes, and what is too short.  A
   string with a tail acts as its sixteen bytes or spoils the hash, as a mask
   does; masks that differ matter to one attempt only by whether they cancel.
   (What does not decode raises before any change.) *)
Offered == SUBSET ((KeyBit .. totalShares - 1) \cup {Foreign}) \cup {{Short}}

(* The shares, by number, that a string is the XOR of, its mask aside: only
   the last share holds the key, and it holds every other random value too. *)
MadeOf(s, n) == {i \in 1 .. n - 1 : (i \in s) # (KeyBit \in s)}
                \cup (IF KeyBit \in s THEN {n} ELSE {})

Holding(p, b) == {j \in DOMAIN p : b \in p[j]}

(* Mutated form of Reconstruct: the shares are merged, not XORed. *)
ReconstructByUnion(p) == UNION Range(p)

(* reconstruct_key: the XOR of the shares holds the values that occur an odd
   number of times; zip() truncates it to the shortest share. *)
Reconstruct(p) ==
    IF Holding(p, Short) # {}
    THEN {Short}
    ELSE {b \in UNION Range(p) :
              Cardinality(Holding(p, b)) % 2 = 1}

-----------------------------------------------------------------------------
Init ==
    /\ initialized = FALSE
    /\ sealed = TRUE
    /\ masterKey = None
    /\ keyHash = None
    /\ threshold = 0
    /\ totalShares = 0
    /\ progress = << >>
    /\ raised = "none"

InitializeAgain(n, t) ==
    /\ initialized
    /\ raised' = "InitializationError"
    /\ UNCHANGED <<config, sealed, masterKey, progress>>

(* split_key rejects the parameters after the new key's hash was stored. *)
InitializeRejected(n, t) ==
    /\ ~initialized
    /\ t > n \/ t < 1
    /\ keyHash' = {Lost}
    /\ raised' = "ValueError"
    /\ UNCHANGED <<initialized, sealed, masterKey, threshold, totalShares, progress>>

InitializeAccepted(n, t) ==
    /\ ~initialized
    /\ 1 <= t /\ t <= n
    /\ keyHash' = {KeyBit}
    /\ threshold' = t
    /\ totalShares' = n
    /\ initialized' = TRUE
    /\ sealed' = TRUE
    /\ masterKey' = None
    /\ raised' = "none"
    /\ UNCHANGED progress

Initialize(n, t) ==
    \/ InitializeAgain(n, t)
    \/ InitializeRejected(n, t)
    \/ InitializeAccepted(n, t)

ProvideUninitialized(s) ==
    /\ ~initialized
    /\ raised' = "InitializationError"
    /\ UNCHANGED <<config, sealed, masterKey, progress>>

ProvideUnsealed(s) ==
    /\ initialized
    /\ ~sealed
    /\ raised' = "none"
    /\ UNCHANGED <<config, sealed, masterKey, progress>>

(* Mutated form of ProvideCollected: one share too many is collected. *)
ProvideCollectedOneMore(s) ==
    /\ initialized
    /\ sealed
    /\ Len(progress) + 1 <= threshold
    /\ progress' = Append(progress, s)
    /\ raised' = "none"
    /\ UNCHANGED <<config, sealed, masterKey>>

ProvideCollected(s) ==
    /\ initialized
    /\ sealed
    /\ Len(progress) + 1 < threshold
    /\ progress' = Append(progress, s)
    /\ raised' = "none"
    /\ UNCHANGED <<config, sealed, masterKey>>

(* Mutated forms of ProvideReconstructs: the hash check is dropped; the
   progress survives a success; a failure drops its last share only. *)
ProvideReconstructsUnchecked(s) ==
    /\ initialized
    /\ sealed
    /\ Len(progress) + 1 >= threshold
    /\ masterKey' = Reconstruct(Append(progress, s))
    /\ sealed' = FALSE
    /\ progress' = << >>
    /\ raised' = "none"
    /\ UNCHANGED config

ProvideReconstructsKeepingProgress(s) ==
    /\ initialized
    /\ sealed
    /\ Len(progress) + 1 >= threshold
    /\ LET candidate == Reconstruct(Append(progress, s)) IN
         IF candidate = keyHash
         THEN masterKey' = candidate /\ sealed' = FALSE /\ progress' = Append(progress, s)
         ELSE UNCHANGED <<masterKey, sealed>> /\ progress' = << >>
    /\ raised' = "none"
    /\ UNCHANGED config

ProvideReconstructsDroppingLast(s) ==
    /\ initialized
    /\ sealed
    /\ Len(progress) + 1 >= threshold
    /\ LET candidate == Reconstruct(Append(progress, s)) IN
         IF candidate = keyHash
         THEN masterKey' = candidate /\ sealed' = FALSE /\ progress' = << >>
         ELSE UNCHANGED <<masterKey, sealed, progress>>
    /\ raised' = "none"
    /\ UNCHANGED config

ProvideReconstructs(s) ==
    /\ initialized
    /\ sealed
    /\ Len(progress) + 1 >= threshold
    /\ LET candidate == Reconstruct(Append(progress, s)) IN
         IF candidate = keyHash
         THEN masterKey' = candidate /\ sealed' = FALSE
         ELSE UNCHANGED <<masterKey, sealed>>
    /\ progress' = << >>
    /\ raised' = "none"
    /\ UNCHANGED config

ProvideUnsealShare(s) ==
    \/ ProvideUninitialized(s)
    \/ ProvideUnsealed(s)
    \/ ProvideCollected(s)
    \/ ProvideReconstructs(s)

(* Mutated form of SealVault: the shares collected so far are kept. *)
SealVaultKeepingProgress ==
    /\ masterKey' = None
    /\ sealed' = TRUE
    /\ raised' = "none"
    /\ UNCHANGED <<config, progress>>

SealVault ==
    /\ masterKey' = None
    /\ sealed' = TRUE
    /\ progress' = << >>
    /\ raised' = "none"
    /\ UNCHANGED config

RequireUnsealed ==
    /\ raised' = CASE ~initialized     -> "InitializationError"
                   [] initialized /\ (sealed \/ masterKey = None) -> "SealedError"
                   [] OTHER            -> "none"
    /\ UNCHANGED <<config, sealed, masterKey, progress>>

(* A new manager loaded, by load_from_dict, with the old one's to_dict(). *)
Reload ==
    /\ sealed' = TRUE
    /\ masterKey' = None
    /\ progress' = << >>
    /\ raised' = "none"
    /\ UNCHANGED config

Next ==
    \/ \E c \in Configs : Initialize(c[1], c[2])
    \/ \E s \in Offered : ProvideUnsealShare(s)
    \/ SealVault
    \/ RequireUnsealed
    \/ Reload

Spec == Init /\ [][Next]_vars

-----------------------------------------------------------------------------
(* Types.  The hash of a key lost by a rejected initialize() never survives
   in an initialised manager. *)
TypeOK ==
    /\ initialized \in BOOLEAN
    /\ sealed \in BOOLEAN
    /\ masterKey \in {None, {KeyBit}}
    /\ keyHash \in {None, {Lost}, {KeyBit}}
    /\ threshold \in Nat
    /\ totalShares \in Nat
    /\ progress \in Seq(Offered)
    /\ raised \in {"none", "InitializationError", "SealedError", "ValueError"}

(* The key is held exactly while the manager is unsealed, and it is the key the
   hash was taken of; no share lies around once it is; the progress reported
   by status() stays below the threshold. *)
SealCoherent ==
    /\ sealed <=> masterKey = None
    /\ ~sealed => initialized /\ masterKey = keyHash /\ progress = << >>
    /\ initialized =>
          /\ keyHash = {KeyBit}
          /\ 1 <= threshold /\ threshold <= totalShares
          /\ Len(progress) < threshold
    /\ ~initialized => progress = << >>

(* The shares that some strings are made of. *)
Gathered(S) == UNION {MadeOf(s, totalShares) : s \in S}

(* Nobody unseals but by a call of unseal() whose string and those collected
   are made of every one of the shares split_key handed out, whatever the
   threshold (seal.py:44, "requires ALL shares").  Several shares may be sent
   as one string, their XOR; none may be left out. *)
AllSharesRequired ==
    [][sealed /\ ~sealed' =>
         \E s \in Offered :
           /\ ProvideUnsealShare(s)
           /\ 1 .. totalShares \subseteq Gathered(Range(progress) \cup {s})]_vars

(* A vault whose threshold is below its number of shares does not unseal with
   the shares as they were handed out, however many are sent: the progress is
   dropped each time it reaches the threshold, so they are never all together.
   It unseals only for somebody who XORs some of them first. *)
BelowTotalTakesCombined ==
    [][sealed /\ ~sealed' /\ threshold < totalShares =>
         \E s \in Offered :
           /\ ProvideUnsealShare(s)
           /\ \E p \in Range(progress) \cup {s} :
                Cardinality(MadeOf(p, totalShares)) > 1]_vars

(* The step is unseal() with a share that makes `threshold' distinct genuine
   ones together with those collected. *)
Completes(s) ==
    /\ initialized
    /\ sealed
    /\ ProvideUnsealShare(s)
    /\ Range(progress) \cup {s} \subseteq Handed(totalShares)
    /\ Cardinality(Range(progress) \cup {s}) >= threshold

(* With a threshold of all the shares, all the shares unseal, in any order. *)
AllSharesUnseal ==
    [][\A s \in Handed(totalShares) :
         threshold = totalShares /\ Completes(s) => ~sealed']_vars

(* What seal.py:16 promises for every threshold: "After threshold shares ->
   master key reconstructed -> vault unlocks". *)
ThresholdSharesUnseal ==
    [][\A s \in Handed(totalShares) : Completes(s) => ~sealed']_vars

=============================================================================
