------------------------------ MODULE Envelope ------------------------------
(***************************************************************************)
(* crypto/envelope.py: every plaintext is encrypted under a key of its own *)
(* (dek), which is stored with it, encrypted under the master key (kek).   *)
(* The fields of a payload stand for the bytes that their base64 and hex   *)
(* forms are decoded to.  An HMAC is the pair of its key and its data:     *)
(* nothing else has it.                                                    *)
(***************************************************************************)
EXTENDS CBC

HmacSign(key, data) == <<key, data>>

MacData(iv, ciphertext, encrypted_dek) == iv \o ciphertext \o encrypted_dek

HmacVerify(key, p) == p.hmac = HmacSign(key, MacData(p.iv, p.ciphertext, p.encrypted_dek))

EncryptedPayload(key, iv, ciphertext, encrypted_dek) ==
    [iv |-> iv, ciphertext |-> ciphertext, encrypted_dek |-> encrypted_dek,
     hmac |-> HmacSign(key, MacData(iv, ciphertext, encrypted_dek))]

(* drawn: the dek and the two initialization vectors that os.urandom returns. *)
Encrypt(kek, plaintext, drawn) ==
    LET encrypted == EncryptCBC(KeyExpansion(drawn.dek), plaintext, drawn.iv)
    IN  EncryptedPayload(kek, BlockOf(encrypted, 1),
                         SubSeq(encrypted, BlockSize + 1, Len(encrypted)),
                         EncryptCBC(KeyExpansion(kek), drawn.dek, drawn.dek_iv))

Unwrap(kek, p) == DecryptCBC(KeyExpansion(kek), p.encrypted_dek)

(* Mutated form of Decrypt: the HMAC is not verified. *)
DecryptUnverified(kek, p) ==
    LET dek == Unwrap(kek, p)
    IN  IF dek = ValueError \/ Len(dek) # BlockSize
        THEN ValueError
        ELSE DecryptCBC(KeyExpansion(dek), p.iv \o p.ciphertext)

(* AES128() raises for a key that is not one block long. *)
Decrypt(kek, p) ==
    LET dek == Unwrap(kek, p)
    IN  IF ~HmacVerify(kek, p) \/ dek = ValueError \/ Len(dek) # BlockSize
        THEN ValueError
        ELSE DecryptCBC(KeyExpansion(dek), p.iv \o p.ciphertext)

(* Mutated form of Rewrap: the old HMAC is not verified. *)
RewrapUnverified(kek, new, p, dek_iv) ==
    LET dek == Unwrap(kek, p)
    IN  IF dek = ValueError
        THEN ValueError
        ELSE EncryptedPayload(new, p.iv, p.ciphertext,
                              EncryptCBC(KeyExpansion(new), dek, dek_iv))

(* Mutated form of Rewrap: the dek is wrapped and signed with the old key again. *)
RewrapWithOldKey(kek, new, p, dek_iv) ==
    LET dek == Unwrap(kek, p)
    IN  IF ~HmacVerify(kek, p) \/ dek = ValueError
        THEN ValueError
        ELSE EncryptedPayload(kek, p.iv, p.ciphertext,
                              EncryptCBC(KeyExpansion(kek), dek, dek_iv))

(* One round of rotate_master_key: only the wrapping of the dek changes. *)
Rewrap(kek, new, p, dek_iv) ==
    LET dek == Unwrap(kek, p)
    IN  IF ~HmacVerify(kek, p) \/ dek = ValueError
        THEN ValueError
        ELSE EncryptedPayload(new, p.iv, p.ciphertext,
                              EncryptCBC(KeyExpansion(new), dek, dek_iv))

=============================================================================
