-------------------------------- MODULE CBC --------------------------------
(***************************************************************************)
(* crypto/padding.py and crypto/modes.py: what has any length is filled up *)
(* to whole blocks, each of which is combined with the encrypted block     *)
(* before it.  A function that raises returns ValueError.                  *)
(***************************************************************************)
EXTENDS AES

CONSTANT ValueError

Pad(data) ==
    LET n == BlockSize - (Len(data) % BlockSize)
    IN  data \o [i \in 1 .. n |-> n]

Unpad(data) ==
    LET n == data[Len(data)]
    IN  IF /\ data # << >>
           /\ Len(data) % BlockSize = 0
           /\ n \in 1 .. BlockSize
           /\ \A i \in 0 .. n - 1 : data[Len(data) - i] = n
        THEN SubSeq(data, 1, Len(data) - n)
        ELSE ValueError

(* The b-th block of what consists of blocks, and how many there are. *)
BlockOf(data, b) == SubSeq(data, BlockSize * (b - 1) + 1, BlockSize * b)
Blocks(data) == Len(data) \div BlockSize

(* The initialization vector is the first block of the result. *)
EncryptCBC(roundKeys, plaintext, iv) ==
    LET padded == Pad(plaintext)
        Out[b \in 0 .. Blocks(padded)] ==
            IF b = 0 THEN iv
            ELSE LET out == Out[b - 1]
                 IN  out \o EncryptBlock(roundKeys, XorBytes(BlockOf(padded, b), BlockOf(out, b)))
    IN  Out[Blocks(padded)]

DecryptCBC(roundKeys, data) ==
    LET DecryptedBlock(b) == XorBytes(DecryptBlock(roundKeys, BlockOf(data, b + 1)), BlockOf(data, b))
        Out[b \in 0 .. Blocks(data) - 1] ==
            IF b = 0 THEN << >> ELSE Out[b - 1] \o DecryptedBlock(b)
    IN  IF Len(data) < 2 * BlockSize \/ Len(data) % BlockSize # 0
        THEN ValueError
        ELSE Unpad(Out[Blocks(data) - 1])

=============================================================================
