------------------------------ MODULE Payloads ------------------------------
(***************************************************************************)
(* The payloads that can come to be stored, and what crypto/envelope.py    *)
(* makes of each, computed from the bytes.  os.urandom returns what the    *)
(* constants say: what is drawn for the n-th save, and for the n-th change *)
(* of the master key.                                                      *)
(***************************************************************************)
EXTENDS Envelope

CONSTANTS
    Plaintexts,    \* what is encrypted
    MasterKeys,    \* the master keys, in the order of their use
    DrawnToSave,   \* per save: its dek and initialization vectors
    DrawnToWrap    \* per change of the master key: the dek_iv

SaveNumbers == 1 .. Len(DrawnToSave)
KekNumbers == 1 .. Len(MasterKeys)

IsBlock(s) == s \in Seq(Byte) /\ Len(s) = BlockSize

(* os.urandom never returns the same 16 bytes twice when it draws a master key;
   of the other draws nothing is assumed. *)
ASSUME DrawnAssumption ==
    /\ Plaintexts \subseteq Seq(Byte)
    /\ ValueError \notin Seq(Byte)
    /\ Len(MasterKeys) \in Nat /\ Len(DrawnToSave) \in Nat
    /\ \A i \in KekNumbers : IsBlock(MasterKeys[i])
    /\ \A i \in KekNumbers, j \in KekNumbers : MasterKeys[i] = MasterKeys[j] => i = j
    /\ \A n \in SaveNumbers :
          LET drawn == DrawnToSave[n]
          IN  IsBlock(drawn.dek) /\ IsBlock(drawn.iv) /\ IsBlock(drawn.dek_iv)
    /\ DOMAIN DrawnToWrap = 1 .. Len(MasterKeys) - 1
    /\ \A i \in DOMAIN DrawnToWrap : IsBlock(DrawnToWrap[i])

-----------------------------------------------------------------------------
(* A payload whose HMAC is replaced, with the first or the last byte of a field
   changed, or with a cut between two fields moved by a block or a byte. *)
Flip(bytes, i) == [bytes EXCEPT ![i] = Xor(@, 255)]

BytesChanged(p) ==
    {[p EXCEPT !.hmac = <<p.hmac[1], << >> >>]}
    \cup UNION {{[p EXCEPT ![f] = Flip(@, i)] : i \in {1, Len(p[f])}} :
                  f \in {"iv", "ciphertext", "encrypted_dek"}}

DividedAt(p, bytes, m, n) ==
    [p EXCEPT !.iv = SubSeq(bytes, 1, m),
              !.ciphertext = SubSeq(bytes, m + 1, n),
              !.encrypted_dek = SubSeq(bytes, n + 1, Len(bytes))]

Divided(p) ==
    LET bytes == MacData(p.iv, p.ciphertext, p.encrypted_dek)
        ivEnds == {BlockSize - 1, BlockSize, 2 * BlockSize}
        end == BlockSize + Len(p.ciphertext)
        ciphertextEnds == {end - BlockSize, end, end + BlockSize}
    IN  {DividedAt(p, bytes, cut[1], cut[2]) :
            cut \in {c \in ivEnds \X ciphertextEnds : c[1] <= c[2]}}

DamagedTo(p) == (BytesChanged(p) \cup Divided(p)) \ {p}

-----------------------------------------------------------------------------
(* All that can be stored, by the master key it is under, and what the
   operations of the envelope make of it: the constants of AtRest. *)
EncryptTable == [n \in SaveNumbers |-> [i \in KekNumbers |-> [t \in Plaintexts |->
                    Encrypt(MasterKeys[i], t, DrawnToSave[n])]]]

AllEncrypted(i) == {EncryptTable[n][i][t] : n \in SaveNumbers, t \in Plaintexts}

RewrapAll(i, payloads) ==
    {Rewrap(MasterKeys[i], MasterKeys[i + 1], p, DrawnToWrap[i]) : p \in payloads} \ {ValueError}

Sound[i \in KekNumbers] ==
    AllEncrypted(i) \cup IF i = 1 THEN {} ELSE RewrapAll(i - 1, Sound[i - 1])

Unsound[i \in KekNumbers] ==
    (UNION {DamagedTo(p) : p \in Sound[i]})
    \cup IF i = 1 THEN {} ELSE RewrapAll(i - 1, Unsound[i - 1])

AllSound == UNION {Sound[i] : i \in KekNumbers}
AllPayloads == AllSound \cup UNION {Unsound[i] : i \in KekNumbers}

DamageTable == [p \in AllSound |-> DamagedTo(p)]

DecryptTable == [i \in KekNumbers |-> [p \in AllPayloads |-> Decrypt(MasterKeys[i], p)]]

RewrapTable == [i \in DOMAIN DrawnToWrap |-> [p \in AllPayloads |->
                    Rewrap(MasterKeys[i], MasterKeys[i + 1], p, DrawnToWrap[i])]]

=============================================================================
