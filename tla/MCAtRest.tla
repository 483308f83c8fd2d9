------------------------------ MODULE MCAtRest ------------------------------
(* Texts around a block's length, and two master keys, for AtRest. *)
EXTENDS Payloads, AtRest, TLC

Bytes(n) == [i \in 1 .. BlockSize |-> (7 * n * i + n) % 256]

MCTexts == {[i \in 1 .. n |-> 64 + i] : n \in {0, 15, 16}}
MCMasterKeys == <<Bytes(101), Bytes(102)>>
MCDrawnToSave == [n \in 1 .. 2 |->
    [dek |-> Bytes(3 * n), iv |-> Bytes(3 * n + 1), dek_iv |-> Bytes(3 * n + 2)]]
MCDrawnToWrap == <<Bytes(50)>>

(* The tables of Payloads, as the values of AtRest's constants. *)
MCEncrypted == LET table == EncryptTable IN table
MCSoundPayloads == LET table == AllSound IN table
MCDamaged == LET table == DamageTable IN table
MCPayloads == LET table == AllPayloads IN table
MCDecrypted == LET table == DecryptTable IN table
MCRewrapped == LET table == RewrapTable IN table

Symmetry == Permutations(StoreKeys)

(* The example of FIPS-197, appendix B (test_aes.py). *)
ASSUME KnownAnswer ==
    LET roundKeys == KeyExpansion(<<43, 126, 21, 22, 40, 174, 210, 166,
                                    171, 247, 21, 136, 9, 207, 79, 60>>)
        plaintext == <<50, 67, 246, 168, 136, 90, 48, 141,
                       49, 49, 152, 162, 224, 55, 7, 52>>
        ciphertext == <<57, 37, 132, 29, 2, 220, 9, 251,
                        220, 17, 133, 151, 25, 106, 11, 50>>
    IN  /\ EncryptBlock(roundKeys, plaintext) = ciphertext
        /\ DecryptBlock(roundKeys, ciphertext) = plaintext

=============================================================================
