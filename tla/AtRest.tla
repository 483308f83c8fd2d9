------------------------------- MODULE AtRest -------------------------------
(***************************************************************************)
(* Encrypted values in a store: store.py's three backends holding what     *)
(* crypto/envelope.py makes, as vault.py (put and get) and                 *)
(* examples/envelope_encryption.py (rotate_master_key) use them, with puts *)
(* that fail, crashes, and payloads that change while they are stored.     *)
(*                                                                         *)
(* What encrypting, decrypting and re-wrapping make of the payloads is     *)
(* given by tables, which module Payloads computes from the envelope.      *)
(***************************************************************************)
EXTENDS Integers, Sequences, FiniteSets

CONSTANTS
    Texts,          \* what is encrypted
    Saves, Keks,    \* 1 .. how often, and under how many master keys in turn
    Encrypted,      \* [n][i][t]: the n-th save's payload of t under the i-th key
    SoundPayloads,  \* all that can be stored, as the envelope made it
    Damaged,        \* [p]: what the sound payload p can change into
    Payloads,       \* all that can be stored
    Decrypted,      \* [i][p]: what decrypt makes of p with the i-th key
    Rewrapped,      \* [i][p]: what a change to key i + 1 makes of p
    StoreKeys,      \* the keys of the store; no two name the same file
    MaxDamages,     \* bound on the payloads that change in the store
    Absent, Torn,   \* no such key; a file that was not written completely
    NoRotation, Nothing, Lost, Refused

ASSUME StoreAssumption ==
    /\ StoreKeys # {}
    /\ Saves \subseteq Nat /\ Keks \subseteq Nat /\ 1 \in Keks
    /\ MaxDamages \in Nat
    /\ Absent # Torn /\ Payloads \cap {Absent, Torn, Refused} = {}
    /\ Nothing # Lost /\ Texts \cap {Nothing, Lost, Refused} = {}
    /\ NoRotation \notin UNION {[ks -> Payloads] : ks \in SUBSET StoreKeys}

-----------------------------------------------------------------------------
VARIABLES
    backend,   \* which Store it is
    store,     \* per key: its payload, Absent or Torn
    keyInUse,  \* the master key of the envelope in use
    saves,     \* how often a value was encrypted
    damages,   \* how many payloads have changed
    pending,   \* NoRotation, or the rotated payloads not yet put back
    mixed,     \* whether a rotation was broken off
    reply      \* the request that ended with the last step, and what it returned

vars == <<backend, store, keyInUse, saves, damages, pending, mixed, reply>>

Init ==
    /\ backend \in {"MemoryStore", "FileStore", "SQLiteStore"}
    /\ store = [k \in StoreKeys |-> Absent]
    /\ keyInUse = 1
    /\ saves = 0
    /\ damages = 0
    /\ pending = NoRotation
    /\ mixed = FALSE
    /\ reply = [op |-> "none"]

Put(k, p) == store' = [store EXCEPT ![k] = p]

(* Mutated form of PutFails: no backend writes all or nothing. *)
PutFailsHalfway(k) == UNCHANGED store \/ Put(k, Torn)

(* FileStore writes in place: a put that fails may leave half a file. *)
PutFails(k) ==
    \/ UNCHANGED store
    \/ backend = "FileStore" /\ Put(k, Torn)

NoReply == reply' = [op |-> "none"]

Replies(op, k, value) == reply' = [op |-> op, key |-> k, value |-> value]

(* The payload of a value.  What vault.py:223 stores beside it, the list of
   versions as it is in memory, is `meta' of module VaultSecrets. *)
Save(k, t) ==
    /\ pending = NoRotation
    /\ saves + 1 \in Saves
    /\ Put(k, Encrypted[saves + 1][keyInUse][t])
    /\ saves' = saves + 1
    /\ Replies("save", k, t)
    /\ UNCHANGED <<backend, keyInUse, damages, pending, mixed>>

SaveFails(k) ==
    /\ pending = NoRotation
    /\ PutFails(k)
    /\ Replies("save", k, Refused)
    /\ UNCHANGED <<backend, keyInUse, saves, damages, pending, mixed>>

(* Half a file is no JSON. *)
Load(k) ==
    /\ pending = NoRotation
    /\ \/ store[k] = Absent /\ Replies("load", k, Nothing)
       \/ store[k] = Torn /\ Replies("load", k, Refused)
       \/ store[k] \in Payloads /\ Replies("load", k, Decrypted[keyInUse][store[k]])
    /\ UNCHANGED <<backend, store, keyInUse, saves, damages, pending, mixed>>

(* A delete that raises has removed the payload or left it: it is like this
   step, or like none. *)
Delete(k) ==
    /\ pending = NoRotation
    /\ Put(k, Absent)
    /\ Replies("delete", k, store[k] # Absent)
    /\ UNCHANGED <<backend, keyInUse, saves, damages, pending, mixed>>

-----------------------------------------------------------------------------
Present == {k \in StoreKeys : store[k] # Absent}

(* rotate_master_key on all that is stored: it raises unless every payload
   is intact and under the key in use.  The new payloads are then put back
   one by one, and the new key is used. *)
RotateMasterKey ==
    LET rotated == [k \in Present |-> Rewrapped[keyInUse][store[k]]]
        intact == \A k \in Present : store[k] # Torn /\ rotated[k] # Refused
    IN  /\ pending = NoRotation
        /\ keyInUse + 1 \in Keks
        /\ pending' = IF intact THEN rotated ELSE NoRotation
        /\ reply' = [op |-> "rotate", value |-> intact]
        /\ UNCHANGED <<backend, store, keyInUse, saves, damages, mixed>>

Rotating == pending # NoRotation

PutBack(k) ==
    /\ Rotating /\ k \in DOMAIN pending
    /\ Put(k, pending[k])
    /\ pending' = [other \in DOMAIN pending \ {k} |-> pending[other]]
    /\ UNCHANGED <<backend, keyInUse, saves, damages, mixed>>
    /\ NoReply

UseNewKey ==
    /\ Rotating /\ DOMAIN pending = {}
    /\ keyInUse' = keyInUse + 1
    /\ pending' = NoRotation
    /\ UNCHANGED <<backend, store, saves, damages, mixed>>
    /\ NoReply

(* Nothing is known of how far it got: either key may be used from now on. *)
BreakOff ==
    /\ pending' = NoRotation
    /\ mixed' = (mixed \/ Rotating)
    /\ keyInUse' \in IF Rotating THEN {keyInUse, keyInUse + 1} ELSE {keyInUse}
    /\ UNCHANGED <<backend, saves, damages>>
    /\ NoReply

PutBackFails(k) ==
    /\ Rotating /\ k \in DOMAIN pending
    /\ PutFails(k)
    /\ BreakOff

Crash ==
    /\ store' = IF backend = "MemoryStore" THEN [k \in StoreKeys |-> Absent] ELSE store
    /\ BreakOff

(* What is written to disk may change there.  (What changes while a rotation
   is being put back is overwritten, or like what changes after it.) *)
DamageAtRest(k) ==
    /\ ~Rotating
    /\ damages < MaxDamages
    /\ backend # "MemoryStore"
    /\ store[k] \in SoundPayloads
    /\ \E p \in Damaged[store[k]] : Put(k, p)
    /\ damages' = damages + 1
    /\ UNCHANGED <<backend, keyInUse, saves, pending, mixed>>
    /\ NoReply

Next ==
    \/ \E k \in StoreKeys :
        \/ \E t \in Texts : Save(k, t)
        \/ SaveFails(k) \/ Load(k) \/ Delete(k)
        \/ PutBack(k) \/ PutBackFails(k) \/ DamageAtRest(k)
    \/ RotateMasterKey
    \/ UseNewKey
    \/ Crash

Spec == Init /\ [][Next]_vars

-----------------------------------------------------------------------------
(* Every variable has its type; only a file can be torn, and a payload is
   under no later key than the one that is in use or being introduced. *)
TypeOK ==
    /\ store \in [StoreKeys -> Payloads \cup {Absent, Torn}]
    /\ keyInUse \in Keks
    /\ saves \in Saves \cup {0}
    /\ damages \in 0 .. MaxDamages
    /\ Rotating => pending \in UNION {[ks -> Payloads] : ks \in SUBSET StoreKeys}
    /\ mixed \in BOOLEAN
    /\ backend # "FileStore" => \A k \in StoreKeys : store[k] # Torn

(* A payload is read with one key at most; if it changes, it is refused or read
   as before; and rotate_master_key takes it only if it is under the old key,
   and returns what only the new one reads, as the same. *)
SoundFor(p) ==
    /\ \A i \in Keks :
          /\ Decrypted[i][p] \in Texts \cup {Refused}
          /\ Decrypted[i][p] # Refused => \A j \in Keks \ {i} : Decrypted[j][p] = Refused
    /\ p \in SoundPayloads =>
          \A damaged \in Damaged[p] :
             /\ damaged \in Payloads
             /\ \A i \in Keks : Decrypted[i][damaged] \in {Refused, Decrypted[i][p]}
    /\ \A i \in Keks :
          LET rewrapped == Rewrapped[i][p]
          IN  i + 1 \in Keks /\ rewrapped # Refused =>
                /\ rewrapped \in Payloads
                /\ Decrypted[i + 1][rewrapped] = Decrypted[i][p]
                /\ \A j \in Keks \ {i + 1} : Decrypted[j][rewrapped] = Refused
                /\ \A j \in Keks \ {i} : Decrypted[j][p] = Refused

HandledSoundly == {p \in Payloads : SoundFor(p)}

(* What the proofs assume of the envelope. *)
EnvelopeSound ==
    /\ \A n \in Saves, i \in Keks, t \in Texts :
          /\ Encrypted[n][i][t] \in SoundPayloads
          /\ Decrypted[i][Encrypted[n][i][t]] = t
    /\ SoundPayloads \subseteq Payloads
    /\ Payloads \subseteq HandledSoundly

(* What test_envelope.py tries with random bytes (test_wrong_master_key,
   test_tampered_ciphertext_detected, test_master_key_rotation) holds of
   whatever payload comes to be stored, changed and re-wrapped ones included. *)
StoredSoundly ==
    \A k \in StoreKeys : store[k] \in HandledSoundly \cup {Absent, Torn}

(* What a payload is read as, under whichever key. *)
Meaning(p) ==
    LET texts == {Decrypted[i][p] : i \in Keks} \ {Refused}
    IN  IF texts = {} THEN Lost ELSE CHOOSE t \in texts : TRUE

Holds == [k \in StoreKeys |->
            IF store[k] = Absent THEN Nothing
            ELSE IF store[k] = Torn THEN Lost
            ELSE Meaning(store[k])]

Promised == INSTANCE KeyValue WITH Values <- Texts, holds <- Holds

(* store.py and envelope.py together keep the promise of KeyValue: what is
   read is what was last saved under the key, whatever backend it went to and
   whatever master key it was moved to meanwhile; a failed put, a crash, a
   changed payload or a rotation broken off half-way may lose a value, but
   never turn it into another one or bring a lost one back. *)
KeepsValues == Promised!Spec

(* "Old key should NOT work on rotated payloads" (test_envelope.py:89), nor
   the new one on those of the old: unless a rotation was broken off, what is
   stored can only be read with the key in use. *)
OnlyKeyInUseReads ==
    ~Rotating /\ ~mixed =>
        \A k \in StoreKeys, i \in Keks \ {keyInUse} :
            store[k] \in Payloads => Decrypted[i][store[k]] = Refused

=============================================================================
