-------------------------------- MODULE AES --------------------------------
(***************************************************************************)
(* The block cipher of crypto/aes.py, byte by byte.  A block is the        *)
(* sequence of its sixteen bytes; the code's state[r][c] is the byte at    *)
(* Place(r, c) of it (_bytes_to_state and _state_to_bytes).                *)
(***************************************************************************)
EXTENDS Integers, Sequences

BlockSize == 16

Byte == 0 .. 255

(* Half a byte. *)
Nibble == 0 .. 15

XorNibbles == [a \in Nibble |-> [b \in Nibble |->
    LET Bit(n, k) == (n \div k) % 2
        Both(k) == k * ((Bit(a, k) + Bit(b, k)) % 2)
    IN  Both(1) + Both(2) + Both(4) + Both(8)]]

Xor(a, b) == 16 * XorNibbles[a \div 16][b \div 16] + XorNibbles[a % 16][b % 16]

-----------------------------------------------------------------------------
SBox == <<
     99, 124, 119, 123, 242, 107, 111, 197,  48,   1, 103,  43, 254, 215, 171, 118,
    202, 130, 201, 125, 250,  89,  71, 240, 173, 212, 162, 175, 156, 164, 114, 192,
    183, 253, 147,  38,  54,  63, 247, 204,  52, 165, 229, 241, 113, 216,  49,  21,
      4, 199,  35, 195,  24, 150,   5, 154,   7,  18, 128, 226, 235,  39, 178, 117,
      9, 131,  44,  26,  27, 110,  90, 160,  82,  59, 214, 179,  41, 227,  47, 132,
     83, 209,   0, 237,  32, 252, 177,  91, 106, 203, 190,  57,  74,  76,  88, 207,
    208, 239, 170, 251,  67,  77,  51, 133,  69, 249,   2, 127,  80,  60, 159, 168,
     81, 163,  64, 143, 146, 157,  56, 245, 188, 182, 218,  33,  16, 255, 243, 210,
    205,  12,  19, 236,  95, 151,  68,  23, 196, 167, 126,  61, 100,  93,  25, 115,
     96, 129,  79, 220,  34,  42, 144, 136,  70, 238, 184,  20, 222,  94,  11, 219,
    224,  50,  58,  10,  73,   6,  36,  92, 194, 211, 172,  98, 145, 149, 228, 121,
    231, 200,  55, 109, 141, 213,  78, 169, 108,  86, 244, 234, 101, 122, 174,   8,
    186, 120,  37,  46,  28, 166, 180, 198, 232, 221, 116,  31,  75, 189, 139, 138,
    112,  62, 181, 102,  72,   3, 246,  14,  97,  53,  87, 185, 134, 193,  29, 158,
    225, 248, 152,  17, 105, 217, 142, 148, 155,  30, 135, 233, 206,  85,  40, 223,
    140, 161, 137,  13, 191, 230,  66, 104,  65, 153,  45,  15, 176,  84, 187,  22>>

(* Filled by a loop: the place of i in it is SBox[i]. *)
InvSBox ==
    LET box == SBox
    IN  [b \in 1 .. 256 |-> (CHOOSE i \in 1 .. 256 : box[i] = b - 1) - 1]

(* The first bytes of the words of _RCON; the others are zero. *)
RCon == <<1, 2, 4, 8, 16, 32, 64, 128, 27, 54>>

-----------------------------------------------------------------------------
XTime(a) == IF a >= 128 THEN Xor((2 * a) % 256, 27) ELSE 2 * a

(* Eight rounds of: add the first factor to the result when the second is odd,
   double the first, halve the second. *)
Multiply(a, b) ==
    LET Round[k \in 0 .. 8] ==
            IF k = 0 THEN [result |-> 0, temp |-> a, b |-> b]
            ELSE LET s == Round[k - 1]
                 IN  [result |-> IF s.b % 2 = 1 THEN Xor(s.result, s.temp) ELSE s.result,
                      temp |-> XTime(s.temp), b |-> s.b \div 2]
    IN  Round[8].result

Times == [k \in {1, 2, 3, 9, 11, 13, 14} |-> [b \in Byte |-> Multiply(k, b)]]

Place(r, c) == r + 4 * (c % 4) + 1

Row(i) == (i - 1) % 4
Column(i) == (i - 1) \div 4

SubBytes(s) == [i \in DOMAIN s |-> SBox[s[i] + 1]]
InvSubBytes(s) == [i \in DOMAIN s |-> InvSBox[s[i] + 1]]

(* Row r is shifted by r places to the left, and back. *)
ShiftRows(s) == [i \in DOMAIN s |-> s[Place(Row(i), Column(i) + Row(i))]]
InvShiftRows(s) == [i \in DOMAIN s |-> s[Place(Row(i), Column(i) + 4 - Row(i))]]

(* Every column is multiplied by the matrix whose rows are the first one,
   shifted to the right by one place each: b times the k-th entry of row r. *)
Product(first, r, k, b) == Times[first[((k + 4 - r) % 4) + 1]][b]

MixBy(first, s) ==
    [i \in DOMAIN s |->
        LET Term(k) == Product(first, Row(i), k, s[Place(k, Column(i))])
        IN  Xor(Xor(Term(0), Term(1)), Xor(Term(2), Term(3)))]

MixColumns(s) == MixBy(<<2, 3, 1, 1>>, s)
InvMixColumns(s) == MixBy(<<14, 11, 13, 9>>, s)

(* Of two blocks or two words.  (As \o builds a sequence, TLC computes each
   byte of the result only once.) *)
XorBytes(a, b) == << >> \o [i \in DOMAIN a |-> Xor(a[i], b[i])]

AddRoundKey(s, key) == XorBytes(s, key)

-----------------------------------------------------------------------------
(* The words of the key schedule, four at a time: each is the word four places
   before it combined with the word before it, of which every fourth is first
   rotated, substituted and combined with a round constant. *)
WordOf(key, c) == SubSeq(key, 4 * c + 1, 4 * c + 4)

NextRoundKey(n) == [key \in Seq(Byte) |->
    LET last == WordOf(key, 3)
        temp == XorBytes(SubBytes(Tail(last) \o <<last[1]>>), <<RCon[n], 0, 0, 0>>)
        Words[c \in 0 .. 3] ==
            LET words == IF c = 0 THEN temp ELSE Words[c - 1]
            IN  words \o XorBytes(WordOf(key, c), WordOf(words, c))
    IN  SubSeq(Words[3], 5, 20)]

(* The n-th round key, for n from 0, is at n + 1. *)
KeyExpansion(key) ==
    LET Keys[n \in 0 .. 10] ==
            IF n = 0 THEN <<key>>
            ELSE LET keys == Keys[n - 1] IN Append(keys, NextRoundKey(n)[keys[n]])
    IN  Keys[10]

(* roundKeys is what KeyExpansion makes of a key: an AES128 object. *)
EncryptBlock(roundKeys, block) ==
    LET Round(n) == [s \in Seq(Byte) |->
                    AddRoundKey(MixColumns(ShiftRows(SubBytes(s))), roundKeys[n + 1])]
        After[n \in 0 .. 9] ==
            IF n = 0 THEN AddRoundKey(block, roundKeys[1]) ELSE Round(n)[After[n - 1]]
    IN  AddRoundKey(ShiftRows(SubBytes(After[9])), roundKeys[11])

DecryptBlock(roundKeys, block) ==
    LET Round(n) == [s \in Seq(Byte) |->
                    InvMixColumns(AddRoundKey(InvSubBytes(InvShiftRows(s)), roundKeys[n + 1]))]
        Before[n \in 1 .. 10] ==
            IF n = 10 THEN AddRoundKey(block, roundKeys[11]) ELSE Round(n)[Before[n + 1]]
    IN  AddRoundKey(InvSubBytes(InvShiftRows(Before[1])), roundKeys[1])

-----------------------------------------------------------------------------
(* What the proofs need of the tables, tried on every byte by each run that
   computes with them: ^ on half a byte is a commutative group in which each
   element is its own inverse; the inverse S-box undoes the S-box; and the
   multipliers of the inverse matrix respect ^ and undo those of the matrix. *)
ASSUME XorTable ==
    /\ \A a, b \in Nibble : XorNibbles[a][b] \in Nibble /\ XorNibbles[a][b] = XorNibbles[b][a]
    /\ \A a, b, c \in Nibble :
          XorNibbles[XorNibbles[a][b]][c] = XorNibbles[a][XorNibbles[b][c]]
    /\ \A a \in Nibble : XorNibbles[a][a] = 0 /\ XorNibbles[a][0] = a

ASSUME SBoxTables ==
    \A b \in Byte :
        /\ SBox[b + 1] \in Byte /\ InvSBox[b + 1] \in Byte
        /\ InvSBox[SBox[b + 1] + 1] = b

ASSUME MixTables ==
    /\ \A k \in {1, 2, 3, 9, 11, 13, 14}, b \in Byte : Times[k][b] \in Byte
    /\ \A k \in {9, 11, 13, 14}, a, b \in Byte :
          Times[k][Xor(a, b)] = Xor(Times[k][a], Times[k][b])
    /\ \A r, c \in 0 .. 3, b \in Byte :
          LET Term(k) == Product(<<14, 11, 13, 9>>, r, k, Product(<<2, 3, 1, 1>>, k, c, b))
          IN  Xor(Xor(Term(0), Term(1)), Xor(Term(2), Term(3))) = IF r = c THEN b ELSE 0

=============================================================================
