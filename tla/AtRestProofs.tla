---------------------------- MODULE AtRestProofs ----------------------------
(***************************************************************************)
(* Proofs about encrypted values at rest.  First the envelope: the block   *)
(* cipher, from what its tables are; the chaining of blocks; what becomes  *)
(* of a payload that is decrypted, damaged or moved to another master key; *)
(* and that the tables of module Payloads are EnvelopeSound, whatever is   *)
(* drawn and encrypted.  Then the store: AtRest, for any store, any number *)
(* of keys, saves, changes of the master key and damaged payloads, with    *)
(* any envelope that is EnvelopeSound.                                     *)
(***************************************************************************)
EXTENDS Payloads, AtRest, WellFoundedInduction, NaturalsInduction, SequenceTheorems, TLAPS

-----------------------------------------------------------------------------
(* The least element of a set of numbers. *)
LEMMA LeastElement ==
    ASSUME NEW T, T \subseteq Nat, T # {}
    PROVE  \E x \in T : \A y \in T : ~(y < x)
<1>1. IsWellFoundedOn(OpToRel(<, Nat), Nat)
    BY NatLessThanWellFounded, Zenon
<1>2. PICK x \in T : \A y \in T : ~(<<y, x>> \in OpToRel(<, Nat))
    BY <1>1, WFMin, Zenon
<1>3. \A y \in T : y < x => <<y, x>> \in OpToRel(<, Nat)
    BY DEF OpToRel
<1> QED BY <1>2, <1>3, Zenon

(* Induction up to a bound: a set with 0 in it and, up to n, with each number's
   successor has all of them. *)
LEMMA UpTo ==
    ASSUME NEW n \in Nat, NEW S, 0 \in S, \A b \in 1 .. n : b - 1 \in S => b \in S
    PROVE  0 .. n \subseteq S
<1> SUFFICES ASSUME NEW k \in 0 .. n, k \notin S  PROVE FALSE
    OBVIOUS
<1> DEFINE T == {b \in 0 .. n : b \notin S}
<1>1. T \subseteq Nat /\ T # {}
    OBVIOUS
<1>2. PICK x \in T : \A y \in T : ~(y < x)
    <2> HIDE DEF T
    <2> QED BY <1>1, LeastElement
<1>3. x \in 1 .. n /\ x - 1 \in 0 .. n /\ x - 1 < x
    BY <1>2
<1>4. x - 1 \in S
    BY <1>2, <1>3
<1> QED BY <1>2, <1>3, <1>4

(* What a loop of n rounds computes, when round b makes something of S[b] out
   of something of S[b - 1]. *)
Iterates(f, n, S, start, step) ==
    /\ f = [b \in 0 .. n |-> IF b = 0 THEN start ELSE step[b][f[b - 1]]]
    /\ \A b \in 0 .. n : f[b] \in S[b]

LEMMA Iteration ==
    ASSUME NEW n \in Nat, NEW S, NEW start \in S[0], NEW step,
           \A b \in 1 .. n : step[b] \in [S[b - 1] -> S[b]]
    PROVE  \E f : Iterates(f, n, S, start, step)
<1> DEFINE Done == {m \in 0 .. n : \E f : Iterates(f, m, S, start, step)}
<1>1. 0 \in Done
    <2> DEFINE f == [b \in 0 .. 0 |-> start]
    <2>1. Iterates(f, 0, S, start, step)
        <3>1. f = [b \in 0 .. 0 |-> IF b = 0 THEN start ELSE step[b][f[b - 1]]]
            OBVIOUS
        <3>2. \A b \in 0 .. 0 : f[b] \in S[b]
            OBVIOUS
        <3> QED BY <3>1, <3>2 DEF Iterates
    <2> QED BY <2>1
<1>2. ASSUME NEW m \in 1 .. n, m - 1 \in Done  PROVE m \in Done
    <2>1. PICK g : Iterates(g, m - 1, S, start, step)
        BY <1>2
    <2>2. /\ \A b \in 0 .. m - 1 : g[b] = IF b = 0 THEN start ELSE step[b][g[b - 1]]
          /\ \A b \in 0 .. m - 1 : g[b] \in S[b]
        BY <2>1 DEF Iterates
    <2> DEFINE f == [b \in 0 .. m |-> IF b = m THEN step[m][g[m - 1]] ELSE g[b]]
    <2>3. g[m - 1] \in S[m - 1] /\ step[m] \in [S[m - 1] -> S[m]]
        BY <2>2
    <2>4. f[m] = step[m][f[m - 1]] /\ f[m] \in S[m]
        BY <2>3
    <2>5. \A b \in 0 .. m - 1 : f[b] = g[b] /\ (b # 0 => f[b - 1] = g[b - 1])
        OBVIOUS
    <2>6. /\ \A b \in 0 .. m : f[b] = IF b = 0 THEN start ELSE step[b][f[b - 1]]
          /\ \A b \in 0 .. m : f[b] \in S[b]
        <3> SUFFICES ASSUME NEW b \in 0 .. m
                     PROVE  /\ f[b] = IF b = 0 THEN start ELSE step[b][f[b - 1]]
                            /\ f[b] \in S[b]
            OBVIOUS
        <3> HIDE DEF f
        <3>1. CASE b = m
            BY <3>1, <2>4
        <3>2. CASE b # m
            <4>1. b \in 0 .. m - 1
                BY <3>2
            <4> QED BY <4>1, <2>2, <2>5
        <3> QED BY <3>1, <3>2
    <2>7. f = [b \in 0 .. m |-> f[b]]
        OBVIOUS
    <2> HIDE DEF f
    <2>8. Iterates(f, m, S, start, step)
        BY <2>6, <2>7 DEF Iterates
    <2> QED BY <2>8
<1>3. 0 .. n \subseteq Done
    <2> HIDE DEF Done
    <2> QED BY <1>1, <1>2, UpTo
<1> QED BY <1>3

-----------------------------------------------------------------------------
(* ^ on bytes. *)
LEMMA Nibbles ==
    /\ \A a \in Byte : /\ a \div 16 \in Nibble /\ a % 16 \in Nibble
                       /\ a = 16 * (a \div 16) + (a % 16)
    /\ \A u, v \in Nibble : /\ 16 * u + v \in Byte
                            /\ (16 * u + v) \div 16 = u /\ (16 * u + v) % 16 = v
BY DEF Byte, Nibble

LEMMA XorIs ==
    ASSUME NEW a \in Byte, NEW b \in Byte
    PROVE  /\ Xor(a, b) \in Byte
           /\ Xor(a, b) \div 16 = XorNibbles[a \div 16][b \div 16]
           /\ Xor(a, b) % 16 = XorNibbles[a % 16][b % 16]
<1>1. /\ a \div 16 \in Nibble /\ a % 16 \in Nibble
      /\ b \div 16 \in Nibble /\ b % 16 \in Nibble
    BY Nibbles
<1>2. XorNibbles[a \div 16][b \div 16] \in Nibble /\ XorNibbles[a % 16][b % 16] \in Nibble
    BY <1>1, XorTable, Zenon
<1> QED BY <1>2, Nibbles DEF Xor

LEMMA SameNibbles ==
    ASSUME NEW a \in Byte, NEW b \in Byte, a \div 16 = b \div 16, a % 16 = b % 16
    PROVE  a = b
BY Nibbles

LEMMA XorType == \A a, b \in Byte : Xor(a, b) \in Byte
BY XorIs

LEMMA XorCommutes == \A a, b \in Byte : Xor(a, b) = Xor(b, a)
<1> SUFFICES ASSUME NEW a \in Byte, NEW b \in Byte  PROVE Xor(a, b) = Xor(b, a)
    OBVIOUS
<1>1. /\ a \div 16 \in Nibble /\ a % 16 \in Nibble
      /\ b \div 16 \in Nibble /\ b % 16 \in Nibble
    BY Nibbles
<1>2. /\ XorNibbles[a \div 16][b \div 16] = XorNibbles[b \div 16][a \div 16]
      /\ XorNibbles[a % 16][b % 16] = XorNibbles[b % 16][a % 16]
    BY <1>1, XorTable, Zenon
<1> QED BY <1>2 DEF Xor

LEMMA XorAssociates == \A a, b, c \in Byte : Xor(Xor(a, b), c) = Xor(a, Xor(b, c))
<1> SUFFICES ASSUME NEW a \in Byte, NEW b \in Byte, NEW c \in Byte
             PROVE  Xor(Xor(a, b), c) = Xor(a, Xor(b, c))
    OBVIOUS
<1> DEFINE left == Xor(Xor(a, b), c)
           right == Xor(a, Xor(b, c))
<1>1. /\ left \div 16 = XorNibbles[XorNibbles[a \div 16][b \div 16]][c \div 16]
      /\ left % 16 = XorNibbles[XorNibbles[a % 16][b % 16]][c % 16]
    BY XorIs
<1>2. /\ right \div 16 = XorNibbles[a \div 16][XorNibbles[b \div 16][c \div 16]]
      /\ right % 16 = XorNibbles[a % 16][XorNibbles[b % 16][c % 16]]
    BY XorIs
<1>3. /\ a \div 16 \in Nibble /\ a % 16 \in Nibble /\ b \div 16 \in Nibble
      /\ b % 16 \in Nibble /\ c \div 16 \in Nibble /\ c % 16 \in Nibble
    BY Nibbles
<1>4. /\ XorNibbles[XorNibbles[a \div 16][b \div 16]][c \div 16]
         = XorNibbles[a \div 16][XorNibbles[b \div 16][c \div 16]]
      /\ XorNibbles[XorNibbles[a % 16][b % 16]][c % 16]
         = XorNibbles[a % 16][XorNibbles[b % 16][c % 16]]
    <2>1. \A u, v, w \in Nibble :
             XorNibbles[XorNibbles[u][v]][w] = XorNibbles[u][XorNibbles[v][w]]
        BY XorTable, Zenon
    <2> QED BY <1>3, <2>1
<1>5. left \in Byte /\ right \in Byte
    BY XorType
<1> HIDE DEF left, right
<1>6. left = right
    BY <1>1, <1>2, <1>4, <1>5, SameNibbles, Zenon
<1> QED BY <1>6 DEF left, right

LEMMA XorItself == \A a \in Byte : Xor(a, a) = 0
<1> SUFFICES ASSUME NEW a \in Byte  PROVE Xor(a, a) = 0
    OBVIOUS
<1>1. XorNibbles[a \div 16][a \div 16] = 0 /\ XorNibbles[a % 16][a % 16] = 0
    BY Nibbles, XorTable, Zenon
<1> QED BY <1>1 DEF Xor

LEMMA XorZero == \A a \in Byte : Xor(a, 0) = a /\ Xor(0, a) = a
<1> SUFFICES ASSUME NEW a \in Byte  PROVE Xor(a, 0) = a /\ Xor(0, a) = a
    OBVIOUS
<1>1. 0 \div 16 = 0 /\ 0 % 16 = 0 /\ 0 \in Byte
    BY DEF Byte
<1>2. XorNibbles[a \div 16][0] = a \div 16 /\ XorNibbles[a % 16][0] = a % 16
    BY Nibbles, XorTable, Zenon
<1>3. Xor(a, 0) = a
    BY <1>1, <1>2, Nibbles DEF Xor
<1> QED BY <1>1, <1>3, XorCommutes

LEMMA XorTwice == \A a, b \in Byte : Xor(Xor(a, b), b) = a
BY XorType, XorAssociates, XorItself, XorZero

LEMMA XorSwap ==
    ASSUME NEW a \in Byte, NEW b \in Byte, NEW c \in Byte, NEW d \in Byte
    PROVE  Xor(Xor(a, b), Xor(c, d)) = Xor(Xor(a, c), Xor(b, d))
<1>1. Xor(Xor(a, b), Xor(c, d)) = Xor(a, Xor(b, Xor(c, d)))
    BY XorType, XorAssociates
<1>2. Xor(b, Xor(c, d)) = Xor(Xor(b, c), d)
    BY XorType, XorAssociates
<1>3. Xor(Xor(b, c), d) = Xor(Xor(c, b), d)
    BY XorCommutes
<1>4. Xor(Xor(c, b), d) = Xor(c, Xor(b, d))
    BY XorType, XorAssociates
<1>5. Xor(Xor(a, c), Xor(b, d)) = Xor(a, Xor(c, Xor(b, d)))
    BY XorType, XorAssociates
<1> QED BY <1>1, <1>2, <1>3, <1>4, <1>5

-----------------------------------------------------------------------------
(* Sequences of bytes, and blocks. *)
Bytes(n) == {s \in Seq(Byte) : Len(s) = n}
Block == Bytes(BlockSize)

LEMMA BytesAre ==
    ASSUME NEW n \in Nat, NEW s \in Bytes(n)
    PROVE  /\ s \in Seq(Byte) /\ Len(s) = n /\ DOMAIN s = 1 .. n
           /\ \A i \in 1 .. n : s[i] \in Byte
BY LenProperties, ElementOfSeq DEF Bytes

LEMMA SameBytes ==
    ASSUME NEW n \in Nat, NEW s \in Bytes(n), NEW t \in Bytes(n),
           \A i \in 1 .. n : s[i] = t[i]
    PROVE  s = t
BY BytesAre, SeqEqual

LEMMA TableIsBytes ==
    ASSUME NEW n \in Nat, NEW f \in [1 .. n -> Byte]
    PROVE  f \in Bytes(n)
BY DEF Bytes

LEMMA XorBytesAre ==
    ASSUME NEW n \in Nat, NEW s \in Bytes(n), NEW t \in Bytes(n)
    PROVE  /\ XorBytes(s, t) \in Bytes(n)
           /\ \A i \in 1 .. n : XorBytes(s, t)[i] = Xor(s[i], t[i])
<1> DEFINE x == [i \in 1 .. n |-> Xor(s[i], t[i])]
<1>1. DOMAIN s = 1 .. n
    BY BytesAre
<1>2. \A i \in 1 .. n : Xor(s[i], t[i]) \in Byte
    BY BytesAre, XorType
<1>3. x \in [1 .. n -> Byte]
    BY <1>2
<1>4. XorBytes(s, t) = << >> \o x
    BY <1>1 DEF XorBytes
<1>5. x \in Bytes(n)
    <2> HIDE DEF x
    <2> QED BY <1>3, TableIsBytes
<1>6. << >> \o x = x
    <2> HIDE DEF x
    <2> QED BY <1>5, ConcatEmptySeq DEF Bytes
<1> QED BY <1>4, <1>5, <1>6

LEMMA XorBytesTwice ==
    ASSUME NEW n \in Nat, NEW s \in Bytes(n), NEW t \in Bytes(n)
    PROVE  XorBytes(XorBytes(s, t), t) = s
<1> DEFINE x == XorBytes(s, t)
<1>1. x \in Bytes(n) /\ \A i \in 1 .. n : x[i] = Xor(s[i], t[i])
    BY XorBytesAre
<1> HIDE DEF x
<1>2. XorBytes(x, t) \in Bytes(n) /\ \A i \in 1 .. n : XorBytes(x, t)[i] = Xor(x[i], t[i])
    BY <1>1, XorBytesAre
<1>3. \A i \in 1 .. n : XorBytes(x, t)[i] = s[i]
    BY <1>1, <1>2, BytesAre, XorTwice
<1>4. XorBytes(x, t) = s
    BY <1>2, <1>3, SameBytes
<1> QED BY <1>4 DEF x

-----------------------------------------------------------------------------
(* The steps of a round, and that their inverses undo them. *)
LEMMA SubBytesUndone ==
    ASSUME NEW n \in Nat, NEW s \in Bytes(n)
    PROVE  /\ SubBytes(s) \in Bytes(n) /\ InvSubBytes(s) \in Bytes(n)
           /\ InvSubBytes(SubBytes(s)) = s
<1>1. DOMAIN s = 1 .. n /\ \A i \in 1 .. n : s[i] \in Byte
    BY BytesAre
<1> DEFINE sub == [i \in 1 .. n |-> SBox[s[i] + 1]]
           inv == [i \in 1 .. n |-> InvSBox[s[i] + 1]]
           back == [i \in 1 .. n |-> InvSBox[sub[i] + 1]]
<1>2. \A i \in 1 .. n : /\ SBox[s[i] + 1] \in Byte /\ InvSBox[s[i] + 1] \in Byte
                        /\ InvSBox[SBox[s[i] + 1] + 1] = s[i]
    BY <1>1, SBoxTables, Zenon
<1>3. sub \in [1 .. n -> Byte] /\ inv \in [1 .. n -> Byte]
    BY <1>2
<1>4. SubBytes(s) = sub /\ InvSubBytes(s) = inv
    BY <1>1 DEF SubBytes, InvSubBytes
<1>5. sub \in Bytes(n) /\ inv \in Bytes(n)
    <2> HIDE DEF sub, inv
    <2> QED BY <1>3, TableIsBytes
<1>6. InvSubBytes(sub) = back
    <2>1. DOMAIN sub = 1 .. n
        OBVIOUS
    <2> QED BY <2>1 DEF InvSubBytes
<1>7. back \in [1 .. n -> Byte] /\ \A i \in 1 .. n : back[i] = s[i]
    BY <1>1, <1>2
<1>8. back = s
    <2> HIDE DEF back
    <2> QED BY <1>7, TableIsBytes, SameBytes
<1> QED BY <1>4, <1>5, <1>6, <1>8

LEMMA Places ==
    /\ \A i \in 1 .. 16 : /\ Row(i) \in 0 .. 3 /\ Column(i) \in 0 .. 3
                          /\ Place(Row(i), Column(i)) = i
    /\ \A r \in 0 .. 3, c \in 0 .. 7 : /\ Place(r, c) \in 1 .. 16
                                       /\ Row(Place(r, c)) = r
                                       /\ Column(Place(r, c)) = c % 4
BY DEF Row, Column, Place

LEMMA ShiftRowsUndone ==
    ASSUME NEW s \in Block
    PROVE  /\ ShiftRows(s) \in Block /\ InvShiftRows(s) \in Block
           /\ InvShiftRows(ShiftRows(s)) = s
<1> DEFINE to(i) == Place(Row(i), Column(i) + Row(i))
           from(i) == Place(Row(i), Column(i) + 4 - Row(i))
           shifted == [i \in 1 .. 16 |-> s[to(i)]]
           unshifted == [i \in 1 .. 16 |-> s[from(i)]]
           back == [i \in 1 .. 16 |-> shifted[from(i)]]
<1>1. s \in Bytes(16) /\ 16 \in Nat
    BY DEF Block, BlockSize
<1>2. DOMAIN s = 1 .. 16 /\ \A i \in 1 .. 16 : s[i] \in Byte
    BY <1>1, BytesAre
<1>3. \A i \in 1 .. 16 : to(i) \in 1 .. 16 /\ from(i) \in 1 .. 16
    BY Places
<1>4. \A i \in 1 .. 16 : to(from(i)) = i
    <2> SUFFICES ASSUME NEW i \in 1 .. 16  PROVE to(from(i)) = i
        OBVIOUS
    <2>1. Row(i) \in 0 .. 3 /\ Column(i) \in 0 .. 3 /\ Place(Row(i), Column(i)) = i
        BY Places
    <2>2. Row(from(i)) = Row(i) /\ Column(from(i)) = (Column(i) + 4 - Row(i)) % 4
        BY <2>1, Places
    <2>3. \A r, c \in 0 .. 3 : (((c + 4 - r) % 4) + r) % 4 = c
        OBVIOUS
    <2>4. Place(Row(i), ((Column(i) + 4 - Row(i)) % 4) + Row(i)) = Place(Row(i), Column(i))
        BY <2>1, <2>3 DEF Place
    <2> QED BY <2>1, <2>2, <2>4
<1>5. ShiftRows(s) = shifted /\ InvShiftRows(s) = unshifted
    BY <1>2 DEF ShiftRows, InvShiftRows
<1>6. shifted \in [1 .. 16 -> Byte] /\ unshifted \in [1 .. 16 -> Byte]
    BY <1>2, <1>3
<1>7. shifted \in Bytes(16) /\ unshifted \in Bytes(16)
    <2> HIDE DEF shifted, unshifted
    <2> QED BY <1>1, <1>6, TableIsBytes
<1>8. InvShiftRows(shifted) = back
    <2>1. DOMAIN shifted = 1 .. 16
        OBVIOUS
    <2> QED BY <2>1 DEF InvShiftRows
<1>9. back \in [1 .. 16 -> Byte] /\ \A i \in 1 .. 16 : back[i] = s[i]
    BY <1>2, <1>3, <1>4
<1>10. back = s
    <2> HIDE DEF back
    <2>1. back \in Bytes(16)
        BY <1>1, <1>9, TableIsBytes
    <2> QED BY <1>1, <1>9, <2>1, SameBytes
<1> QED BY <1>5, <1>7, <1>8, <1>10 DEF Block, BlockSize

(* The sum of four bytes; of two rows; and of four rows, whose columns may be
   summed first. *)
Row4 == [0 .. 3 -> Byte]

Sum4(v) == Xor(Xor(v[0], v[1]), Xor(v[2], v[3]))

LEMMA Sum4Type == \A v \in Row4 : Sum4(v) \in Byte
<1> SUFFICES ASSUME NEW v \in Row4  PROVE Sum4(v) \in Byte
    OBVIOUS
<1>1. v[0] \in Byte /\ v[1] \in Byte /\ v[2] \in Byte /\ v[3] \in Byte
    BY DEF Row4
<1> QED BY <1>1, XorType DEF Sum4

LEMMA SumOfTwo ==
    ASSUME NEW v \in Row4, NEW w \in Row4
    PROVE  Xor(Sum4(v), Sum4(w)) = Sum4([c \in 0 .. 3 |-> Xor(v[c], w[c])])
<1>1. /\ v[0] \in Byte /\ v[1] \in Byte /\ v[2] \in Byte /\ v[3] \in Byte
      /\ w[0] \in Byte /\ w[1] \in Byte /\ w[2] \in Byte /\ w[3] \in Byte
    BY DEF Row4
<1>2. /\ Xor(v[0], v[1]) \in Byte /\ Xor(v[2], v[3]) \in Byte
      /\ Xor(w[0], w[1]) \in Byte /\ Xor(w[2], w[3]) \in Byte
    BY <1>1, XorType
<1>3. Xor(Sum4(v), Sum4(w))
      = Xor(Xor(Xor(v[0], v[1]), Xor(w[0], w[1])), Xor(Xor(v[2], v[3]), Xor(w[2], w[3])))
    BY <1>2, XorSwap DEF Sum4
<1>4. Xor(Xor(v[0], v[1]), Xor(w[0], w[1])) = Xor(Xor(v[0], w[0]), Xor(v[1], w[1]))
    BY <1>1, XorSwap
<1>5. Xor(Xor(v[2], v[3]), Xor(w[2], w[3])) = Xor(Xor(v[2], w[2]), Xor(v[3], w[3]))
    BY <1>1, XorSwap
<1>6. Sum4([c \in 0 .. 3 |-> Xor(v[c], w[c])])
      = Xor(Xor(Xor(v[0], w[0]), Xor(v[1], w[1])), Xor(Xor(v[2], w[2]), Xor(v[3], w[3])))
    BY DEF Sum4
<1> QED BY <1>3, <1>4, <1>5, <1>6, Zenon

LEMMA RowsAndColumns ==
    ASSUME NEW a \in [0 .. 3 -> Row4]
    PROVE  Sum4([r \in 0 .. 3 |-> Sum4(a[r])])
           = Sum4([c \in 0 .. 3 |-> Sum4([r \in 0 .. 3 |-> a[r][c]])])
<1> DEFINE top == [c \in 0 .. 3 |-> Xor(a[0][c], a[1][c])]
           bottom == [c \in 0 .. 3 |-> Xor(a[2][c], a[3][c])]
<1>1. a[0] \in Row4 /\ a[1] \in Row4 /\ a[2] \in Row4 /\ a[3] \in Row4
    OBVIOUS
<1>2. \A c \in 0 .. 3 : /\ a[0][c] \in Byte /\ a[1][c] \in Byte
                        /\ a[2][c] \in Byte /\ a[3][c] \in Byte
    BY <1>1 DEF Row4
<1>3. top \in Row4 /\ bottom \in Row4
    BY <1>2, XorType DEF Row4
<1>4. Sum4([r \in 0 .. 3 |-> Sum4(a[r])]) = Xor(Xor(Sum4(a[0]), Sum4(a[1])), Xor(Sum4(a[2]), Sum4(a[3])))
    <2> DEFINE rows == [r \in 0 .. 3 |-> Sum4(a[r])]
    <2>1. /\ rows[0] = Sum4(a[0]) /\ rows[1] = Sum4(a[1])
          /\ rows[2] = Sum4(a[2]) /\ rows[3] = Sum4(a[3])
        OBVIOUS
    <2> HIDE DEF rows
    <2>2. Sum4(rows) = Xor(Xor(rows[0], rows[1]), Xor(rows[2], rows[3]))
        BY Zenon DEF Sum4
    <2>3. Sum4(rows) = Xor(Xor(Sum4(a[0]), Sum4(a[1])), Xor(Sum4(a[2]), Sum4(a[3])))
        BY <2>1, <2>2, Zenon
    <2> QED BY <2>3 DEF rows
<1>5. Xor(Sum4(a[0]), Sum4(a[1])) = Sum4(top) /\ Xor(Sum4(a[2]), Sum4(a[3])) = Sum4(bottom)
    BY <1>1, SumOfTwo
<1>6. Xor(Sum4(top), Sum4(bottom)) = Sum4([c \in 0 .. 3 |-> Xor(top[c], bottom[c])])
    <2> HIDE DEF top, bottom
    <2> QED BY <1>3, SumOfTwo
<1>7. \A c \in 0 .. 3 : Xor(top[c], bottom[c]) = Sum4([r \in 0 .. 3 |-> a[r][c]])
    BY DEF Sum4
<1>8. [c \in 0 .. 3 |-> Xor(top[c], bottom[c])] = [c \in 0 .. 3 |-> Sum4([r \in 0 .. 3 |-> a[r][c]])]
    BY <1>7, Zenon
<1> HIDE DEF top, bottom
<1> QED BY <1>4, <1>5, <1>6, <1>8, Zenon

(* A multiplier of the inverse matrix respects sums. *)
LEMMA TimesSum4 ==
    ASSUME NEW k \in {9, 11, 13, 14}, NEW v \in Row4
    PROVE  Times[k][Sum4(v)] = Sum4([c \in 0 .. 3 |-> Times[k][v[c]]])
<1>1. \A x, y \in Byte : Times[k][Xor(x, y)] = Xor(Times[k][x], Times[k][y])
    BY MixTables, Zenon
<1>2. v[0] \in Byte /\ v[1] \in Byte /\ v[2] \in Byte /\ v[3] \in Byte
    BY DEF Row4
<1>3. Times[k][Sum4(v)]
      = Xor(Xor(Times[k][v[0]], Times[k][v[1]]), Xor(Times[k][v[2]], Times[k][v[3]]))
    <2>1. Xor(v[0], v[1]) \in Byte /\ Xor(v[2], v[3]) \in Byte
        BY <1>2, XorType
    <2>2. Times[k][Xor(v[0], v[1])] = Xor(Times[k][v[0]], Times[k][v[1]])
        BY <1>1, <1>2, Zenon
    <2>3. Times[k][Xor(v[2], v[3])] = Xor(Times[k][v[2]], Times[k][v[3]])
        BY <1>1, <1>2, Zenon
    <2>4. Times[k][Sum4(v)] = Xor(Times[k][Xor(v[0], v[1])], Times[k][Xor(v[2], v[3])])
        BY <1>1, <2>1, Zenon DEF Sum4
    <2> QED BY <2>2, <2>3, <2>4, Zenon
<1> QED BY <1>3 DEF Sum4

Mix(r, k, b) == Product(<<2, 3, 1, 1>>, r, k, b)
Unmix(r, k, b) == Product(<<14, 11, 13, 9>>, r, k, b)

LEMMA MixTypes ==
    \A r, k \in 0 .. 3, b \in Byte : Mix(r, k, b) \in Byte /\ Unmix(r, k, b) \in Byte
<1> SUFFICES ASSUME NEW r \in 0 .. 3, NEW k \in 0 .. 3, NEW b \in Byte
             PROVE  Mix(r, k, b) \in Byte /\ Unmix(r, k, b) \in Byte
    OBVIOUS
<1>1. ((k + 4 - r) % 4) + 1 \in 1 .. 4
    OBVIOUS
<1>2. /\ <<2, 3, 1, 1>>[((k + 4 - r) % 4) + 1] \in {1, 2, 3, 9, 11, 13, 14}
      /\ <<14, 11, 13, 9>>[((k + 4 - r) % 4) + 1] \in {1, 2, 3, 9, 11, 13, 14}
    BY <1>1
<1> QED BY <1>2, MixTables, Zenon DEF Mix, Unmix, Product

LEMMA UnmixSum4 ==
    ASSUME NEW r \in 0 .. 3, NEW k \in 0 .. 3, NEW v \in Row4
    PROVE  Unmix(r, k, Sum4(v)) = Sum4([c \in 0 .. 3 |-> Unmix(r, k, v[c])])
<1>1. ((k + 4 - r) % 4) + 1 \in 1 .. 4
    OBVIOUS
<1>2. <<14, 11, 13, 9>>[((k + 4 - r) % 4) + 1] \in {9, 11, 13, 14}
    BY <1>1
<1> QED BY <1>2, TimesSum4, Zenon DEF Unmix, Product

LEMMA UnmixMix ==
    \A r, c \in 0 .. 3, b \in Byte :
        Sum4([k \in 0 .. 3 |-> Unmix(r, k, Mix(k, c, b))]) = IF r = c THEN b ELSE 0
<1> SUFFICES ASSUME NEW r \in 0 .. 3, NEW c \in 0 .. 3, NEW b \in Byte
             PROVE  Sum4([k \in 0 .. 3 |-> Unmix(r, k, Mix(k, c, b))]) = IF r = c THEN b ELSE 0
    OBVIOUS
<1>1. Xor(Xor(Unmix(r, 0, Mix(0, c, b)), Unmix(r, 1, Mix(1, c, b))),
          Xor(Unmix(r, 2, Mix(2, c, b)), Unmix(r, 3, Mix(3, c, b)))) = IF r = c THEN b ELSE 0
    BY MixTables, Zenon DEF Unmix, Mix
<1> QED BY <1>1 DEF Sum4

(* A column that was mixed, and what is in row r when it is mixed back. *)
LEMMA ColumnUndone ==
    ASSUME NEW s \in Row4, NEW m, NEW r \in 0 .. 3,
           m = [k \in 0 .. 3 |-> Sum4([c \in 0 .. 3 |-> Mix(k, c, s[c])])]
    PROVE  m \in Row4 /\ Sum4([k \in 0 .. 3 |-> Unmix(r, k, m[k])]) = s[r]
<1> DEFINE mixture(k) == [c \in 0 .. 3 |-> Mix(k, c, s[c])]
           a == [k \in 0 .. 3 |-> [c \in 0 .. 3 |-> Unmix(r, k, Mix(k, c, s[c]))]]
           only == [c \in 0 .. 3 |-> IF r = c THEN s[c] ELSE 0]
<1>1. \A k, c \in 0 .. 3 : s[c] \in Byte /\ Mix(k, c, s[c]) \in Byte
                           /\ Unmix(r, k, Mix(k, c, s[c])) \in Byte
    BY MixTypes DEF Row4
<1>2. a \in [0 .. 3 -> Row4]
    BY <1>1 DEF Row4
<1>3. \A k \in 0 .. 3 : mixture(k) \in Row4
    BY <1>1 DEF Row4
<1>4. m \in Row4
    BY <1>3, Sum4Type DEF Row4
<1>5. \A k \in 0 .. 3 : Unmix(r, k, m[k]) = Sum4(a[k])
    <2> SUFFICES ASSUME NEW k \in 0 .. 3  PROVE Unmix(r, k, m[k]) = Sum4(a[k])
        OBVIOUS
    <2>1. m[k] = Sum4(mixture(k))
        OBVIOUS
    <2>2. Unmix(r, k, Sum4(mixture(k))) = Sum4([c \in 0 .. 3 |-> Unmix(r, k, mixture(k)[c])])
        <3> HIDE DEF mixture
        <3> QED BY <1>3, UnmixSum4
    <2>3. [c \in 0 .. 3 |-> Unmix(r, k, mixture(k)[c])] = a[k]
        OBVIOUS
    <2> QED BY <2>1, <2>2, <2>3, Zenon
<1>6. [k \in 0 .. 3 |-> Unmix(r, k, m[k])] = [k \in 0 .. 3 |-> Sum4(a[k])]
    <2> HIDE DEF a
    <2> QED BY <1>5
<1>7. \A c \in 0 .. 3 : Sum4([k \in 0 .. 3 |-> a[k][c]]) = only[c]
    <2> SUFFICES ASSUME NEW c \in 0 .. 3  PROVE Sum4([k \in 0 .. 3 |-> a[k][c]]) = only[c]
        OBVIOUS
    <2>1. [k \in 0 .. 3 |-> a[k][c]] = [k \in 0 .. 3 |-> Unmix(r, k, Mix(k, c, s[c]))]
        OBVIOUS
    <2>2. Sum4([k \in 0 .. 3 |-> Unmix(r, k, Mix(k, c, s[c]))]) = IF r = c THEN s[c] ELSE 0
        BY <1>1, UnmixMix
    <2>3. only[c] = IF r = c THEN s[c] ELSE 0
        OBVIOUS
    <2> QED BY <2>1, <2>2, <2>3, Zenon
<1>8. [c \in 0 .. 3 |-> Sum4([k \in 0 .. 3 |-> a[k][c]])] = only
    <2> HIDE DEF a
    <2> QED BY <1>7
<1>9. Sum4([k \in 0 .. 3 |-> Unmix(r, k, m[k])]) = Sum4(only)
    <2> HIDE DEF a, only
    <2> QED BY <1>2, <1>6, <1>8, RowsAndColumns, Zenon
<1>10. Sum4(only) = s[r]
    <2>1. 0 \in Byte /\ Xor(0, 0) = 0
        BY XorZero DEF Byte
    <2>2. s[0] \in Byte /\ s[1] \in Byte /\ s[2] \in Byte /\ s[3] \in Byte
        BY <1>1
    <2> QED BY <2>1, <2>2, XorZero DEF Sum4
<1> QED BY <1>4, <1>9, <1>10

LEMMA MixedBy ==
    ASSUME NEW first, NEW s \in Block
    PROVE  /\ DOMAIN MixBy(first, s) = 1 .. 16
           /\ \A i \in 1 .. 16 :
                 MixBy(first, s)[i] = Sum4([k \in 0 .. 3 |->
                     Product(first, Row(i), k, s[Place(k, Column(i))])])
<1>1. DOMAIN s = 1 .. 16
    BY BytesAre DEF Block, BlockSize
<1> QED BY <1>1 DEF MixBy, Sum4

LEMMA MixedIs ==
    ASSUME NEW s \in Block, NEW i \in 1 .. 16
    PROVE  /\ MixColumns(s)[i] = Sum4([k \in 0 .. 3 |-> Mix(Row(i), k, s[Place(k, Column(i))])])
           /\ InvMixColumns(s)[i] = Sum4([k \in 0 .. 3 |-> Unmix(Row(i), k, s[Place(k, Column(i))])])
<1>1. MixColumns(s)[i] = Sum4([k \in 0 .. 3 |-> Mix(Row(i), k, s[Place(k, Column(i))])])
    BY MixedBy, Zenon DEF MixColumns, Mix
<1>2. InvMixColumns(s)[i] = Sum4([k \in 0 .. 3 |-> Unmix(Row(i), k, s[Place(k, Column(i))])])
    BY MixedBy, Zenon DEF InvMixColumns, Unmix
<1> QED BY <1>1, <1>2

LEMMA MixColumnsUndone ==
    ASSUME NEW s \in Block
    PROVE  /\ MixColumns(s) \in Block /\ InvMixColumns(s) \in Block
           /\ InvMixColumns(MixColumns(s)) = s
<1>1. s \in Bytes(16) /\ 16 \in Nat /\ \A i \in 1 .. 16 : s[i] \in Byte
    BY BytesAre DEF Block, BlockSize
<1> DEFINE column(x, c) == [k \in 0 .. 3 |-> x[Place(k, c)]]
           mixture == MixColumns(s)
<1>2. \A k \in 0 .. 3, i \in 1 .. 16 : Place(k, Column(i)) \in 1 .. 16
    BY Places
<1>3. \A x \in Block : /\ MixColumns(x) \in Block /\ InvMixColumns(x) \in Block
    <2> SUFFICES ASSUME NEW x \in Block
                 PROVE  MixColumns(x) \in Block /\ InvMixColumns(x) \in Block
        OBVIOUS
    <2>1. \A i \in 1 .. 16 : x[i] \in Byte
        BY BytesAre DEF Block, BlockSize
    <2>2. \A i \in 1 .. 16 : /\ [k \in 0 .. 3 |-> Mix(Row(i), k, x[Place(k, Column(i))])] \in Row4
                             /\ [k \in 0 .. 3 |-> Unmix(Row(i), k, x[Place(k, Column(i))])] \in Row4
        BY <1>2, <2>1, Places, MixTypes DEF Row4
    <2>3. \A i \in 1 .. 16 : MixColumns(x)[i] \in Byte /\ InvMixColumns(x)[i] \in Byte
        BY <2>2, MixedIs, Sum4Type
    <2>4. MixColumns(x) \in [1 .. 16 -> Byte] /\ InvMixColumns(x) \in [1 .. 16 -> Byte]
        BY <2>3, MixedBy DEF MixColumns, InvMixColumns, MixBy
    <2> QED BY <1>1, <2>4, TableIsBytes DEF Block, BlockSize
<1>4. ASSUME NEW i \in 1 .. 16  PROVE InvMixColumns(mixture)[i] = s[i]
    <2> DEFINE c == Column(i)
    <2>1. /\ c \in 0 .. 3 /\ Row(i) \in 0 .. 3 /\ Place(Row(i), c) = i
          /\ \A k \in 0 .. 3 : /\ Place(k, c) \in 1 .. 16 /\ Row(Place(k, c)) = k
                               /\ Column(Place(k, c)) = c
        BY Places
    <2> HIDE DEF c
    <2>2. column(s, c) \in Row4
        BY <1>1, <2>1 DEF Row4
    <2>3. \A k \in 0 .. 3 : mixture[Place(k, c)] = Sum4([j \in 0 .. 3 |-> Mix(k, j, column(s, c)[j])])
        <3> SUFFICES ASSUME NEW k \in 0 .. 3
                     PROVE  mixture[Place(k, c)] = Sum4([j \in 0 .. 3 |-> Mix(k, j, column(s, c)[j])])
            OBVIOUS
        <3>1. mixture[Place(k, c)] = Sum4([j \in 0 .. 3 |-> Mix(k, j, s[Place(j, c)])])
            BY <2>1, MixedIs
        <3>2. [j \in 0 .. 3 |-> Mix(k, j, s[Place(j, c)])]
              = [j \in 0 .. 3 |-> Mix(k, j, column(s, c)[j])]
            OBVIOUS
        <3> QED BY <3>1, <3>2, Zenon
    <2>4. column(mixture, c) = [k \in 0 .. 3 |-> Sum4([j \in 0 .. 3 |-> Mix(k, j, column(s, c)[j])])]
        BY <2>3
    <2>5. Sum4([k \in 0 .. 3 |-> Unmix(Row(i), k, column(mixture, c)[k])]) = column(s, c)[Row(i)]
        <3> HIDE DEF column, mixture
        <3> QED BY <2>1, <2>2, <2>4, ColumnUndone
    <2>6. InvMixColumns(mixture)[i] = Sum4([k \in 0 .. 3 |-> Unmix(Row(i), k, mixture[Place(k, c)])])
        BY <1>3, MixedIs DEF c
    <2>7. [k \in 0 .. 3 |-> Unmix(Row(i), k, mixture[Place(k, c)])]
          = [k \in 0 .. 3 |-> Unmix(Row(i), k, column(mixture, c)[k])]
        OBVIOUS
    <2>8. column(s, c)[Row(i)] = s[i]
        BY <2>1
    <2> QED BY <2>5, <2>6, <2>7, <2>8, Zenon
<1>5. InvMixColumns(mixture) = s
    <2>1. InvMixColumns(mixture) \in Bytes(16)
        BY <1>3 DEF Block, BlockSize
    <2> QED BY <1>1, <1>4, <2>1, SameBytes
<1> QED BY <1>3, <1>5

-----------------------------------------------------------------------------
(* The key schedule: eleven round keys, each a block. *)
LEMMA ConcatBytes ==
    ASSUME NEW m \in Nat, NEW n \in Nat, NEW s \in Bytes(m), NEW t \in Bytes(n)
    PROVE  s \o t \in Bytes(m + n)
BY ConcatProperties DEF Bytes

LEMMA SubSeqBytes ==
    ASSUME NEW l \in Nat, NEW s \in Bytes(l), NEW m \in 1 .. l + 1, NEW n \in m - 1 .. l
    PROVE  /\ SubSeq(s, m, n) \in Bytes(n - m + 1)
           /\ \A i \in 1 .. n - m + 1 : SubSeq(s, m, n)[i] = s[m + i - 1]
<1>1. \A i \in m .. n : s[i] \in Byte
    BY BytesAre
<1>2. n - m + 1 = IF m <= n THEN n - m + 1 ELSE 0
    OBVIOUS
<1> QED BY <1>1, <1>2, SubSeqProperties DEF Bytes

Temp(key, n) ==
    LET last == WordOf(key, 3)
    IN  XorBytes(SubBytes(Tail(last) \o <<last[1]>>), <<RCon[n], 0, 0, 0>>)

KeyWordsAre(Words, key, temp) ==
    Words = [c \in 0 .. 3 |->
                LET words == IF c = 0 THEN temp ELSE Words[c - 1]
                IN  words \o XorBytes(WordOf(key, c), WordOf(words, c))]

KeyWords(key, temp) == CHOOSE Words : KeyWordsAre(Words, key, temp)

LEMMA NextRoundKeyIs ==
    ASSUME NEW key \in Seq(Byte), NEW n
    PROVE  NextRoundKey(n)[key] = SubSeq(KeyWords(key, Temp(key, n))[3], 5, 20)
BY Zenon DEF NextRoundKey, KeyWords, KeyWordsAre, Temp

LEMMA WordIs ==
    ASSUME NEW l \in Nat, NEW s \in Bytes(l), NEW c \in 0 .. 3, 4 * c + 4 <= l
    PROVE  WordOf(s, c) \in Bytes(4)
<1>1. 4 * c + 1 \in 1 .. l + 1 /\ 4 * c + 4 \in 4 * c .. l
    OBVIOUS
<1>2. WordOf(s, c) \in Bytes((4 * c + 4) - (4 * c + 1) + 1)
    BY <1>1, SubSeqBytes DEF WordOf
<1> QED BY <1>2

LEMMA TempIs ==
    ASSUME NEW key \in Block, NEW n \in 1 .. 10
    PROVE  Temp(key, n) \in Bytes(4)
<1> DEFINE last == WordOf(key, 3)
<1>1. last \in Bytes(4)
    BY WordIs DEF Block, BlockSize
<1> HIDE DEF last
<1>2. last \in Seq(Byte) /\ Len(last) = 4 /\ last # << >> /\ last[1] \in Byte
    <2>1. last \in Seq(Byte) /\ Len(last) = 4
        BY <1>1 DEF Bytes
    <2>2. last # << >>
        BY <2>1
    <2>3. last[1] \in Byte
        BY <2>1, ElementOfSeq
    <2> QED BY <2>1, <2>2, <2>3
<1> HIDE DEF last
<1>3. Tail(last) \in Bytes(3)
    <2>1. Tail(last) \in Seq(Byte) /\ Len(Tail(last)) = Len(last) - 1
        BY <1>2, HeadTailProperties
    <2>2. Len(Tail(last)) = 3
        BY <1>2, <2>1
    <2> QED BY <2>1, <2>2 DEF Bytes
<1>4. <<last[1]>> \in Bytes(1)
    BY <1>2 DEF Bytes
<1>5. Tail(last) \o <<last[1]>> \in Bytes(4)
    <2>1. Tail(last) \o <<last[1]>> \in Bytes(3 + 1)
        BY <1>3, <1>4, ConcatBytes
    <2> QED BY <2>1
<1>6. <<RCon[n], 0, 0, 0>> \in Bytes(4)
    <2>1. RCon[n] \in Byte /\ 0 \in Byte
        BY DEF RCon, Byte
    <2> QED BY <2>1 DEF Bytes
<1>7. XorBytes(SubBytes(Tail(last) \o <<last[1]>>), <<RCon[n], 0, 0, 0>>) \in Bytes(4)
    BY <1>5, <1>6, SubBytesUndone, XorBytesAre
<1> QED BY <1>7 DEF last, Temp

LEMMA RoundKeyMade ==
    ASSUME NEW key \in Block, NEW n \in 1 .. 10
    PROVE  NextRoundKey(n)[key] \in Block
<1> DEFINE temp == Temp(key, n)
           after(c, words) == words \o XorBytes(WordOf(key, c), WordOf(words, c))
           S == [c \in 0 .. 3 |-> Bytes(4 * c + 8)]
           step == [c \in 1 .. 3 |-> [words \in Bytes(4 * c + 4) |-> after(c, words)]]
           W == KeyWords(key, temp)
<1>1. temp \in Bytes(4) /\ key \in Bytes(16)
    BY TempIs DEF Block, BlockSize
<1> HIDE DEF temp
<1>2. \A c \in 0 .. 3 : \A words \in Bytes(4 * c + 4) : after(c, words) \in Bytes(4 * c + 8)
    <2> SUFFICES ASSUME NEW c \in 0 .. 3, NEW words \in Bytes(4 * c + 4)
                 PROVE  after(c, words) \in Bytes(4 * c + 8)
        OBVIOUS
    <2>1. WordOf(key, c) \in Bytes(4) /\ WordOf(words, c) \in Bytes(4)
        BY <1>1, WordIs
    <2>2. XorBytes(WordOf(key, c), WordOf(words, c)) \in Bytes(4)
        BY <2>1, XorBytesAre
    <2>3. words \o XorBytes(WordOf(key, c), WordOf(words, c)) \in Bytes((4 * c + 4) + 4)
        BY <2>2, ConcatBytes
    <2> QED BY <2>3
<1>3. \E f : Iterates(f, 3, S, after(0, temp), step)
    <2> HIDE DEF after
    <2>1. after(0, temp) \in S[0]
        BY <1>1, <1>2
    <2>2. \A c \in 1 .. 3 : step[c] \in [S[c - 1] -> S[c]]
        BY <1>2
    <2> HIDE DEF S, step
    <2> QED BY <2>1, <2>2, Iteration
<1>4. PICK f : Iterates(f, 3, S, after(0, temp), step)
    BY <1>3
<1>5. KeyWordsAre(f, key, temp)
    <2>1. \A c \in 0 .. 3 : f[c] = after(c, IF c = 0 THEN temp ELSE f[c - 1])
        <3> SUFFICES ASSUME NEW c \in 0 .. 3  PROVE f[c] = after(c, IF c = 0 THEN temp ELSE f[c - 1])
            OBVIOUS
        <3> HIDE DEF after
        <3>1. c # 0 => c - 1 \in 0 .. 3 /\ S[c - 1] = Bytes(4 * c + 4)
            OBVIOUS
        <3>2. f[c] = IF c = 0 THEN after(0, temp) ELSE step[c][f[c - 1]]
            BY <1>4 DEF Iterates
        <3>3. c # 0 => f[c - 1] \in Bytes(4 * c + 4)
            BY <1>4, <3>1 DEF Iterates
        <3> QED BY <3>2, <3>3
    <2>2. f = [c \in 0 .. 3 |-> f[c]]
        BY <1>4 DEF Iterates
    <2> QED BY <2>1, <2>2 DEF KeyWordsAre
<1>6. KeyWordsAre(W, key, temp)
    BY <1>5, Zenon DEF KeyWords
<1> HIDE DEF W
<1>7. \A c \in 0 .. 3 : W[c] = after(c, IF c = 0 THEN temp ELSE W[c - 1])
    BY <1>6 DEF KeyWordsAre
<1> HIDE DEF after
<1>8. W[0] \in Bytes(8)
    BY <1>1, <1>2, <1>7
<1>9. W[1] \in Bytes(12)
    BY <1>2, <1>7, <1>8
<1>10. W[2] \in Bytes(16)
    BY <1>2, <1>7, <1>9
<1>11. W[3] \in Bytes(20)
    BY <1>2, <1>7, <1>10
<1>12. SubSeq(W[3], 5, 20) \in Bytes(16)
    <2>1. SubSeq(W[3], 5, 20) \in Bytes(20 - 5 + 1)
        BY <1>11, SubSeqBytes
    <2> QED BY <2>1
<1>13. key \in Seq(Byte)
    BY <1>1, BytesAre
<1> QED BY <1>12, <1>13, NextRoundKeyIs DEF Block, BlockSize, W, temp

KeysAre(Keys, key) ==
    Keys = [n \in 0 .. 10 |->
               IF n = 0 THEN <<key>>
               ELSE LET keys == Keys[n - 1] IN Append(keys, NextRoundKey(n)[keys[n]])]

LEMMA KeyExpansionIs ==
    ASSUME NEW key
    PROVE  KeyExpansion(key) = (CHOOSE Keys : KeysAre(Keys, key))[10]
BY Zenon DEF KeyExpansion, KeysAre

RoundKeys(n) == {keys \in Seq(Block) : Len(keys) = n}

LEMMA RoundKeyAppended ==
    ASSUME NEW n \in 1 .. 10, NEW keys \in RoundKeys(n)
    PROVE  Append(keys, NextRoundKey(n)[keys[n]]) \in RoundKeys(n + 1)
<1>1. keys \in Seq(Block) /\ Len(keys) = n
    BY DEF RoundKeys
<1>2. keys[n] \in Block
    BY <1>1, ElementOfSeq
<1>3. NextRoundKey(n)[keys[n]] \in Block
    BY <1>2, RoundKeyMade
<1> QED BY <1>1, <1>3 DEF RoundKeys

LEMMA RoundKeysAre ==
    ASSUME NEW key \in Block
    PROVE  KeyExpansion(key) \in RoundKeys(11)
<1> DEFINE after(n, keys) == Append(keys, NextRoundKey(n)[keys[n]])
           S == [n \in 0 .. 10 |-> RoundKeys(n + 1)]
           step == [n \in 1 .. 10 |-> [keys \in RoundKeys(n) |-> after(n, keys)]]
           K == CHOOSE Keys : KeysAre(Keys, key)
<1>1. \A n \in 1 .. 10 : \A keys \in RoundKeys(n) : after(n, keys) \in RoundKeys(n + 1)
    BY RoundKeyAppended
<1>2. <<key>> \in RoundKeys(1)
    BY DEF RoundKeys
<1> HIDE DEF after
<1>3. \E f : Iterates(f, 10, S, <<key>>, step)
    <2>1. <<key>> \in S[0]
        BY <1>2
    <2>2. \A n \in 1 .. 10 : step[n] \in [S[n - 1] -> S[n]]
        BY <1>1
    <2> HIDE DEF S, step
    <2> QED BY <2>1, <2>2, Iteration
<1>4. PICK f : Iterates(f, 10, S, <<key>>, step)
    BY <1>3
<1>5. \A n \in 0 .. 10 : f[n] = IF n = 0 THEN <<key>> ELSE after(n, f[n - 1])
    <2> SUFFICES ASSUME NEW n \in 0 .. 10
                 PROVE  f[n] = IF n = 0 THEN <<key>> ELSE after(n, f[n - 1])
        OBVIOUS
    <2>1. n # 0 => n - 1 \in 0 .. 10 /\ S[n - 1] = RoundKeys(n)
        OBVIOUS
    <2>2. f[n] = IF n = 0 THEN <<key>> ELSE step[n][f[n - 1]]
        BY <1>4 DEF Iterates
    <2>3. n # 0 => f[n - 1] \in RoundKeys(n)
        BY <1>4, <2>1 DEF Iterates
    <2> QED BY <2>2, <2>3
<1>6. KeysAre(f, key)
    <2>1. f = [n \in 0 .. 10 |-> f[n]]
        BY <1>4 DEF Iterates
    <2> QED BY <1>5, <2>1 DEF KeysAre, after
<1>7. KeysAre(K, key)
    BY <1>6, Zenon
<1> HIDE DEF K
<1>8. \A n \in 0 .. 10 : K[n] = IF n = 0 THEN <<key>> ELSE after(n, K[n - 1])
    BY <1>7 DEF KeysAre, after
<1> DEFINE Made == {n \in 0 .. 10 : K[n] \in RoundKeys(n + 1)}
<1>9. 0 \in Made /\ \A n \in 1 .. 10 : n - 1 \in Made => n \in Made
    BY <1>1, <1>2, <1>8
<1>10. 0 .. 10 \subseteq Made
    <2> HIDE DEF Made
    <2> QED BY <1>9, UpTo
<1> QED BY <1>10, KeyExpansionIs DEF K

-----------------------------------------------------------------------------
(* The rounds: decrypting goes through what encrypting went through, backwards. *)
EncryptRound(keys, n, s) == AddRoundKey(MixColumns(ShiftRows(SubBytes(s))), keys[n + 1])
DecryptRound(keys, n, s) == InvMixColumns(AddRoundKey(InvSubBytes(InvShiftRows(s)), keys[n + 1]))

AfterIs(After, keys, block) ==
    After = [n \in 0 .. 9 |->
                IF n = 0 THEN AddRoundKey(block, keys[1])
                ELSE [s \in Seq(Byte) |-> EncryptRound(keys, n, s)][After[n - 1]]]

BeforeIs(Before, keys, block) ==
    Before = [n \in 1 .. 10 |->
                IF n = 10 THEN AddRoundKey(block, keys[11])
                ELSE [s \in Seq(Byte) |-> DecryptRound(keys, n, s)][Before[n + 1]]]

LEMMA CipherIs ==
    ASSUME NEW keys, NEW block
    PROVE  /\ EncryptBlock(keys, block)
              = AddRoundKey(ShiftRows(SubBytes((CHOOSE After : AfterIs(After, keys, block))[9])), keys[11])
           /\ DecryptBlock(keys, block)
              = AddRoundKey(InvSubBytes(InvShiftRows((CHOOSE Before : BeforeIs(Before, keys, block))[1])),
                            keys[1])
BY Zenon DEF EncryptBlock, DecryptBlock, AfterIs, BeforeIs, EncryptRound, DecryptRound

LEMMA KeyAdded ==
    ASSUME NEW s \in Block, NEW key \in Block
    PROVE  /\ AddRoundKey(s, key) \in Block
           /\ AddRoundKey(AddRoundKey(s, key), key) = s
BY XorBytesAre, XorBytesTwice DEF AddRoundKey, Block, BlockSize

LEMMA KeyIs ==
    ASSUME NEW keys \in RoundKeys(11), NEW n \in 1 .. 11
    PROVE  keys[n] \in Block
BY ElementOfSeq DEF RoundKeys

LEMMA Substituted ==
    ASSUME NEW s \in Block
    PROVE  /\ ShiftRows(SubBytes(s)) \in Block /\ InvSubBytes(InvShiftRows(s)) \in Block
           /\ InvSubBytes(InvShiftRows(ShiftRows(SubBytes(s)))) = s
<1>1. SubBytes(s) \in Block /\ InvSubBytes(SubBytes(s)) = s
    BY SubBytesUndone DEF Block, BlockSize
<1>2. ShiftRows(SubBytes(s)) \in Block /\ InvShiftRows(ShiftRows(SubBytes(s))) = SubBytes(s)
    BY <1>1, ShiftRowsUndone
<1>3. InvShiftRows(s) \in Block
    BY ShiftRowsUndone
<1>4. InvSubBytes(InvShiftRows(s)) \in Block
    BY <1>3, SubBytesUndone DEF Block, BlockSize
<1> QED BY <1>1, <1>2, <1>4

LEMMA RoundIs ==
    ASSUME NEW keys \in RoundKeys(11), NEW n \in 1 .. 9, NEW s \in Block
    PROVE  /\ EncryptRound(keys, n, s) \in Block /\ DecryptRound(keys, n, s) \in Block
           /\ InvMixColumns(AddRoundKey(EncryptRound(keys, n, s), keys[n + 1])) = ShiftRows(SubBytes(s))
<1>1. n + 1 \in 1 .. 11
    OBVIOUS
<1>2. keys[n + 1] \in Block
    BY <1>1, KeyIs
<1>3. ShiftRows(SubBytes(s)) \in Block /\ InvSubBytes(InvShiftRows(s)) \in Block
    BY Substituted
<1>4. /\ MixColumns(ShiftRows(SubBytes(s))) \in Block
      /\ InvMixColumns(MixColumns(ShiftRows(SubBytes(s)))) = ShiftRows(SubBytes(s))
    BY <1>3, MixColumnsUndone
<1>5. /\ EncryptRound(keys, n, s) \in Block
      /\ AddRoundKey(EncryptRound(keys, n, s), keys[n + 1]) = MixColumns(ShiftRows(SubBytes(s)))
    BY <1>2, <1>4, KeyAdded DEF EncryptRound
<1>6. AddRoundKey(InvSubBytes(InvShiftRows(s)), keys[n + 1]) \in Block
    BY <1>2, <1>3, KeyAdded
<1>7. DecryptRound(keys, n, s) \in Block
    BY <1>6, MixColumnsUndone DEF DecryptRound
<1> QED BY <1>4, <1>5, <1>7

LEMMA AfterExists ==
    ASSUME NEW keys \in RoundKeys(11), NEW block \in Block
    PROVE  \E After : AfterIs(After, keys, block) /\ \A n \in 0 .. 9 : After[n] \in Block
<1> DEFINE S == [n \in 0 .. 9 |-> Block]
           step == [n \in 1 .. 9 |-> [s \in Block |-> EncryptRound(keys, n, s)]]
           start == AddRoundKey(block, keys[1])
<1>1. start \in S[0]
    BY KeyIs, KeyAdded
<1>2. \A n \in 1 .. 9 : step[n] \in [S[n - 1] -> S[n]]
    <2>1. \A n \in 1 .. 9, s \in Block : EncryptRound(keys, n, s) \in Block
        BY RoundIs
    <2> QED BY <2>1
<1>3. PICK f : Iterates(f, 9, S, start, step)
    <2> HIDE DEF S, step, start
    <2> QED BY <1>1, <1>2, Iteration
<1>4. \A n \in 0 .. 9 : f[n] \in Block
    BY <1>3 DEF Iterates
<1>5. Block \subseteq Seq(Byte)
    BY DEF Block, Bytes
<1>6. \A n \in 0 .. 9 : f[n] = IF n = 0 THEN start
                               ELSE [s \in Seq(Byte) |-> EncryptRound(keys, n, s)][f[n - 1]]
    <2> SUFFICES ASSUME NEW n \in 0 .. 9
                 PROVE  f[n] = IF n = 0 THEN start
                               ELSE [s \in Seq(Byte) |-> EncryptRound(keys, n, s)][f[n - 1]]
        OBVIOUS
    <2>1. f[n] = IF n = 0 THEN start ELSE step[n][f[n - 1]]
        BY <1>3 DEF Iterates
    <2>2. n # 0 => n - 1 \in 0 .. 9 /\ f[n - 1] \in Block /\ f[n - 1] \in Seq(Byte)
        BY <1>4, <1>5
    <2> QED BY <2>1, <2>2
<1>7. f = [n \in 0 .. 9 |-> f[n]]
    BY <1>3 DEF Iterates
<1>8. AfterIs(f, keys, block)
    BY <1>6, <1>7 DEF AfterIs
<1> QED BY <1>4, <1>8

LEMMA BeforeExists ==
    ASSUME NEW keys \in RoundKeys(11), NEW block \in Block
    PROVE  \E Before : BeforeIs(Before, keys, block) /\ \A n \in 1 .. 10 : Before[n] \in Block
<1> DEFINE S == [n \in 0 .. 9 |-> Block]
           step == [n \in 1 .. 9 |-> [s \in Block |-> DecryptRound(keys, 10 - n, s)]]
           start == AddRoundKey(block, keys[11])
<1>1. start \in S[0]
    BY KeyIs, KeyAdded
<1>2. \A n \in 1 .. 9 : step[n] \in [S[n - 1] -> S[n]]
    <2>1. \A n \in 1 .. 9, s \in Block : DecryptRound(keys, n, s) \in Block
        BY RoundIs
    <2>2. \A n \in 1 .. 9 : 10 - n \in 1 .. 9
        OBVIOUS
    <2>3. \A n \in 1 .. 9, s \in Block : DecryptRound(keys, 10 - n, s) \in Block
        BY <2>1, <2>2
    <2> QED BY <2>3
<1>3. PICK f : Iterates(f, 9, S, start, step)
    <2> HIDE DEF S, step, start
    <2> QED BY <1>1, <1>2, Iteration
<1>4. \A n \in 0 .. 9 : f[n] \in Block
    BY <1>3 DEF Iterates
<1>5. Block \subseteq Seq(Byte)
    BY DEF Block, Bytes
<1> DEFINE g == [n \in 1 .. 10 |-> f[10 - n]]
<1>6. \A n \in 1 .. 10 : g[n] = f[10 - n] /\ g[n] \in Block
    BY <1>4
<1>7. \A n \in 1 .. 10 : g[n] = IF n = 10 THEN start
                                ELSE [s \in Seq(Byte) |-> DecryptRound(keys, n, s)][g[n + 1]]
    <2> SUFFICES ASSUME NEW n \in 1 .. 10
                 PROVE  g[n] = IF n = 10 THEN start
                               ELSE [s \in Seq(Byte) |-> DecryptRound(keys, n, s)][g[n + 1]]
        OBVIOUS
    <2> HIDE DEF g
    <2>1. CASE n = 10
        <3>1. f[0] = start
            BY <1>3 DEF Iterates
        <3> QED BY <1>6, <2>1, <3>1
    <2>2. CASE n # 10
        <3>1. 10 - n \in 1 .. 9 /\ n + 1 \in 1 .. 10 /\ 10 - n - 1 = 10 - (n + 1)
            BY <2>2
        <3>2. f[10 - n] = step[10 - n][f[10 - n - 1]]
            BY <1>3, <3>1 DEF Iterates
        <3>3. g[n + 1] = f[10 - n - 1] /\ g[n + 1] \in Block /\ g[n + 1] \in Seq(Byte)
            BY <1>5, <1>6, <3>1
        <3>4. step[10 - n] = [s \in Block |-> DecryptRound(keys, n, s)]
            BY <3>1
        <3>5. f[10 - n] = DecryptRound(keys, n, g[n + 1])
            BY <3>2, <3>3, <3>4
        <3> QED BY <1>6, <2>2, <3>3, <3>5
    <2> QED BY <2>1, <2>2
<1>8. g = [n \in 1 .. 10 |-> g[n]]
    OBVIOUS
<1> HIDE DEF g
<1>9. BeforeIs(g, keys, block)
    BY <1>7, <1>8 DEF BeforeIs
<1> QED BY <1>6, <1>9

(* What the block cipher encrypts it decrypts to the same, for every key and
   every block. *)
THEOREM CipherInverts ==
    ASSUME NEW key \in Block, NEW block \in Block
    PROVE  /\ EncryptBlock(KeyExpansion(key), block) \in Block
           /\ DecryptBlock(KeyExpansion(key), block) \in Block
           /\ DecryptBlock(KeyExpansion(key), EncryptBlock(KeyExpansion(key), block)) = block
<1> DEFINE keys == KeyExpansion(key)
           A == CHOOSE After : AfterIs(After, keys, block)
           encrypted == AddRoundKey(ShiftRows(SubBytes(A[9])), keys[11])
           B(b) == CHOOSE Before : BeforeIs(Before, keys, b)
<1>1. keys \in RoundKeys(11)
    BY RoundKeysAre
<1> HIDE DEF keys
<1>2. AfterIs(A, keys, block)
    BY <1>1, AfterExists, Zenon
<1>3. \A b \in Block : BeforeIs(B(b), keys, b)
    BY <1>1, BeforeExists, Zenon
<1>4. EncryptBlock(keys, block) = encrypted
    BY CipherIs, Zenon
<1>5. \A b : DecryptBlock(keys, b) = AddRoundKey(InvSubBytes(InvShiftRows(B(b)[1])), keys[1])
    BY CipherIs, Zenon
<1> HIDE DEF A, B
<1>6. Block \subseteq Seq(Byte)
    BY DEF Block, Bytes
<1>7. /\ A[0] = AddRoundKey(block, keys[1])
      /\ \A n \in 1 .. 9 : A[n] = [s \in Seq(Byte) |-> EncryptRound(keys, n, s)][A[n - 1]]
    BY <1>2 DEF AfterIs
<1>8. \A n \in 0 .. 9 : A[n] \in Block
    <2> DEFINE Done == {n \in 0 .. 9 : A[n] \in Block}
    <2>1. 0 \in Done
        BY <1>1, <1>7, KeyIs, KeyAdded
    <2>2. ASSUME NEW n \in 1 .. 9, n - 1 \in Done  PROVE n \in Done
        <3>1. A[n] = EncryptRound(keys, n, A[n - 1])
            BY <1>6, <1>7, <2>2
        <3> QED BY <1>1, <2>2, <3>1, RoundIs
    <2>3. 0 .. 9 \subseteq Done
        <3> HIDE DEF Done
        <3> QED BY <2>1, <2>2, UpTo
    <2> QED BY <2>3
<1>9. \A n \in 1 .. 9 : A[n] = EncryptRound(keys, n, A[n - 1])
    <2> SUFFICES ASSUME NEW n \in 1 .. 9  PROVE A[n] = EncryptRound(keys, n, A[n - 1])
        OBVIOUS
    <2>1. A[n - 1] \in Seq(Byte)
        <3>1. n - 1 \in 0 .. 9
            OBVIOUS
        <3> QED BY <1>6, <1>8, <3>1
    <2> QED BY <1>7, <2>1
<1>10. \A b \in Block : /\ B(b)[10] = AddRoundKey(b, keys[11])
                        /\ \A n \in 1 .. 9 : B(b)[n + 1] \in Block =>
                               B(b)[n] = DecryptRound(keys, n, B(b)[n + 1])
    <2> SUFFICES ASSUME NEW b \in Block
                 PROVE  /\ B(b)[10] = AddRoundKey(b, keys[11])
                        /\ \A n \in 1 .. 9 : B(b)[n + 1] \in Block =>
                               B(b)[n] = DecryptRound(keys, n, B(b)[n + 1])
        OBVIOUS
    <2>1. B(b) = [n \in 1 .. 10 |->
                     IF n = 10 THEN AddRoundKey(b, keys[11])
                     ELSE [s \in Seq(Byte) |-> DecryptRound(keys, n, s)][B(b)[n + 1]]]
        BY <1>3 DEF BeforeIs
    <2>2. \A n \in 1 .. 9 : B(b)[n] = [s \in Seq(Byte) |-> DecryptRound(keys, n, s)][B(b)[n + 1]]
        <3> SUFFICES ASSUME NEW n \in 1 .. 9
                     PROVE  B(b)[n] = [s \in Seq(Byte) |-> DecryptRound(keys, n, s)][B(b)[n + 1]]
            OBVIOUS
        <3>1. n \in 1 .. 10 /\ n # 10
            OBVIOUS
        <3> QED BY <2>1, <3>1, Zenon
    <2>3. B(b)[10] = AddRoundKey(b, keys[11])
        BY <2>1
    <2> QED BY <1>6, <2>2, <2>3
<1>11. encrypted \in Block /\ AddRoundKey(encrypted, keys[11]) = ShiftRows(SubBytes(A[9]))
    BY <1>1, <1>8, KeyIs, Substituted, KeyAdded
<1> HIDE DEF encrypted
(* The code counts the rounds down when it decrypts. *)
<1>12. \A n \in 0 .. 9 : B(encrypted)[10 - n] = ShiftRows(SubBytes(A[9 - n]))
    <2> DEFINE Done == {n \in 0 .. 9 : B(encrypted)[10 - n] = ShiftRows(SubBytes(A[9 - n]))}
    <2>1. 0 \in Done
        BY <1>10, <1>11
    <2>2. ASSUME NEW n \in 1 .. 9, n - 1 \in Done  PROVE n \in Done
        <3> DEFINE m == 10 - n
        <3>1. m \in 1 .. 9 /\ 9 - n = m - 1 /\ 10 - (n - 1) = m + 1 /\ 9 - (n - 1) = m
            OBVIOUS
        <3>2. B(encrypted)[m + 1] = ShiftRows(SubBytes(A[m]))
            BY <2>2, <3>1
        <3> HIDE DEF m
        <3>3. A[m] \in Block /\ A[m - 1] \in Block /\ A[m] = EncryptRound(keys, m, A[m - 1])
            BY <1>8, <1>9, <3>1
        <3>4. /\ ShiftRows(SubBytes(A[m])) \in Block
              /\ InvSubBytes(InvShiftRows(ShiftRows(SubBytes(A[m])))) = A[m]
            BY <3>3, Substituted
        <3>5. B(encrypted)[m] = DecryptRound(keys, m, ShiftRows(SubBytes(A[m])))
            BY <1>10, <1>11, <3>1, <3>2, <3>4
        <3>6. B(encrypted)[m] = InvMixColumns(AddRoundKey(A[m], keys[m + 1]))
            BY <3>4, <3>5, Zenon DEF DecryptRound
        <3>7. B(encrypted)[m] = ShiftRows(SubBytes(A[m - 1]))
            BY <1>1, <3>1, <3>3, <3>6, RoundIs
        <3> QED BY <3>1, <3>7 DEF m
    <2>3. 0 .. 9 \subseteq Done
        <3> HIDE DEF Done
        <3> QED BY <2>1, <2>2, UpTo
    <2> QED BY <2>3
<1>13. DecryptBlock(keys, encrypted) = block
    <2>1. B(encrypted)[1] = ShiftRows(SubBytes(A[0]))
        BY <1>12
    <2>2. InvSubBytes(InvShiftRows(B(encrypted)[1])) = A[0]
        BY <1>8, <2>1, Substituted
    <2>3. AddRoundKey(A[0], keys[1]) = block
        BY <1>1, <1>7, KeyIs, KeyAdded
    <2> QED BY <1>5, <2>2, <2>3
<1>14. DecryptBlock(keys, block) \in Block
    <2> DEFINE Done == {n \in 0 .. 9 : B(block)[10 - n] \in Block}
    <2>1. 0 \in Done
        BY <1>1, <1>10, KeyIs, KeyAdded
    <2>2. ASSUME NEW n \in 1 .. 9, n - 1 \in Done  PROVE n \in Done
        <3> DEFINE m == 10 - n
        <3>1. m \in 1 .. 9 /\ 10 - (n - 1) = m + 1
            OBVIOUS
        <3>2. B(block)[m + 1] \in Block
            BY <2>2, <3>1
        <3> HIDE DEF m
        <3>3. B(block)[m] \in Block
            BY <1>1, <1>10, <3>1, <3>2, RoundIs
        <3> QED BY <3>3 DEF m
    <2>3. 0 .. 9 \subseteq Done
        <3> HIDE DEF Done
        <3> QED BY <2>1, <2>2, UpTo
    <2>4. B(block)[1] \in Block
        BY <2>3
    <2>5. InvSubBytes(InvShiftRows(B(block)[1])) \in Block
        BY <2>4, Substituted
    <2> QED BY <1>1, <1>5, <2>5, KeyIs, KeyAdded
<1> QED BY <1>4, <1>11, <1>13, <1>14 DEF keys

-----------------------------------------------------------------------------
(* Padding. *)
LEMMA PadIs ==
    ASSUME NEW x \in Seq(Byte)
    PROVE  /\ Pad(x) \in Bytes(BlockSize * (Len(x) \div BlockSize + 1))
           /\ Unpad(Pad(x)) = x
<1> DEFINE n == 16 - (Len(x) % 16)
           fill == [i \in 1 .. n |-> n]
           p == x \o fill
<1>1. Len(x) \in Nat /\ n \in 1 .. 16 /\ Len(x) + n = 16 * (Len(x) \div 16 + 1)
    BY LenProperties
<1>2. fill \in [1 .. n -> Byte]
    BY <1>1 DEF Byte
<1>3. fill \in Seq(Byte) /\ Len(fill) = n /\ \A i \in 1 .. n : fill[i] = n
    <2>1. fill \in Bytes(n)
        <3> HIDE DEF fill
        <3> QED BY <1>1, <1>2, TableIsBytes
    <2>2. \A i \in 1 .. n : fill[i] = n
        OBVIOUS
    <2> HIDE DEF fill
    <2> QED BY <2>1, <2>2 DEF Bytes
<1> HIDE DEF fill
<1>4. /\ p \in Seq(Byte) /\ Len(p) = Len(x) + n
      /\ \A i \in 1 .. Len(x) + n : p[i] = IF i <= Len(x) THEN x[i] ELSE fill[i - Len(x)]
    BY <1>3, ConcatProperties
<1>5. Pad(x) = p
    BY Zenon DEF Pad, BlockSize, fill
<1> HIDE DEF p
<1>6. p[Len(p)] = n
    <2>1. Len(x) + n \in 1 .. Len(x) + n /\ ~(Len(x) + n <= Len(x)) /\ Len(x) + n - Len(x) = n
        BY <1>1
    <2>2. n \in 1 .. n
        BY <1>1
    <2> HIDE DEF n
    <2> QED BY <1>3, <1>4, <2>1, <2>2
<1>7. \A i \in 0 .. n - 1 : p[Len(p) - i] = n
    <2> SUFFICES ASSUME NEW i \in 0 .. n - 1  PROVE p[Len(p) - i] = n
        OBVIOUS
    <2>1. /\ Len(x) + n - i \in 1 .. Len(x) + n /\ ~(Len(x) + n - i <= Len(x))
          /\ Len(x) + n - i - Len(x) = n - i /\ n - i \in 1 .. n
        BY <1>1
    <2> HIDE DEF n
    <2> QED BY <1>3, <1>4, <2>1
<1>8. p # << >> /\ Len(p) % 16 = 0
    <2> DEFINE b == Len(x) \div 16 + 1
    <2>1. b \in Nat \ {0} /\ Len(p) = 16 * b
        BY <1>1, <1>4
    <2> HIDE DEF b, n
    <2>2. Len(p) # 0 /\ Len(p) % 16 = 0
        BY <2>1
    <2>3. Len(<< >>) = 0
        OBVIOUS
    <2> QED BY <2>2, <2>3
<1>9. Unpad(p) = SubSeq(p, 1, Len(x))
    <2>1. Len(p) - n = Len(x)
        BY <1>1, <1>4
    <2> HIDE DEF n
    <2> QED BY <1>1, <1>6, <1>7, <1>8, <2>1 DEF Unpad, BlockSize
<1>10. SubSeq(p, 1, Len(x)) = x
    <2>1. Len(x) \in 0 .. Len(x) + n
        BY <1>1
    <2>2. /\ SubSeq(p, 1, Len(x)) \in Bytes(Len(x))
          /\ \A i \in 1 .. Len(x) : SubSeq(p, 1, Len(x))[i] = p[i]
        <3>1. p \in Bytes(Len(x) + n) /\ Len(x) + n \in Nat
            BY <1>1, <1>4 DEF Bytes
        <3>2. 1 \in 1 .. Len(x) + n + 1 /\ Len(x) \in 1 - 1 .. Len(x) + n
            BY <1>1
        <3> HIDE DEF n
        <3>3. /\ SubSeq(p, 1, Len(x)) \in Bytes(Len(x) - 1 + 1)
              /\ \A i \in 1 .. Len(x) - 1 + 1 : SubSeq(p, 1, Len(x))[i] = p[1 + i - 1]
            BY <3>1, <3>2, SubSeqBytes
        <3> QED BY <1>1, <3>3
    <2>3. \A i \in 1 .. Len(x) : p[i] = x[i]
        BY <1>1, <1>4
    <2>4. x \in Bytes(Len(x))
        BY DEF Bytes
    <2> QED BY <1>1, <2>2, <2>3, <2>4, SameBytes
<1> QED BY <1>1, <1>4, <1>5, <1>9, <1>10 DEF Bytes, BlockSize

LEMMA UnpadIs ==
    ASSUME NEW b \in Nat \ {0}, NEW data \in Bytes(BlockSize * b), Unpad(data) # ValueError
    PROVE  /\ Unpad(data) \in Seq(Byte)
           /\ Len(Unpad(data)) \in BlockSize * b - BlockSize .. BlockSize * b - 1
<1> DEFINE n == data[Len(data)]
<1>1. /\ n \in 1 .. 16 /\ Unpad(data) = SubSeq(data, 1, Len(data) - n)
    BY DEF Unpad, BlockSize
<1>2. data \in Bytes(16 * b) /\ Len(data) = 16 * b /\ 16 * b \in Nat
    BY DEF Bytes, BlockSize
<1>3. 1 \in 1 .. 16 * b + 1 /\ 16 * b - n \in 1 - 1 .. 16 * b
    BY <1>1, <1>2
<1> HIDE DEF n
<1>4. SubSeq(data, 1, 16 * b - n) \in Bytes(16 * b - n - 1 + 1)
    BY <1>2, <1>3, SubSeqBytes
<1> QED BY <1>1, <1>2, <1>4 DEF Bytes, BlockSize

-----------------------------------------------------------------------------
(* Blocks of sequences. *)
LEMMA BlockOfIs ==
    ASSUME NEW n \in Nat, NEW s \in Bytes(BlockSize * n), NEW b \in 1 .. n
    PROVE  /\ BlockOf(s, b) \in Block
           /\ \A i \in 1 .. BlockSize : BlockOf(s, b)[i] = s[BlockSize * (b - 1) + i]
<1> DEFINE from == 16 * (b - 1) + 1
           to == 16 * b
<1>1. /\ 16 * n \in Nat /\ s \in Bytes(16 * n)
      /\ from \in 1 .. 16 * n + 1 /\ to \in from - 1 .. 16 * n /\ to - from + 1 = 16
    BY DEF BlockSize
<1> HIDE DEF from, to
<1>2. /\ SubSeq(s, from, to) \in Bytes(to - from + 1)
      /\ \A i \in 1 .. to - from + 1 : SubSeq(s, from, to)[i] = s[from + i - 1]
    BY <1>1, SubSeqBytes
<1>3. \A i \in 1 .. 16 : from + i - 1 = 16 * (b - 1) + i
    BY DEF from
<1> QED BY <1>1, <1>2, <1>3 DEF BlockOf, BlockSize, Block, from, to

LEMMA SameBlocks ==
    ASSUME NEW n \in Nat, NEW s \in Bytes(BlockSize * n), NEW t \in Bytes(BlockSize * n),
           \A b \in 1 .. n : BlockOf(s, b) = BlockOf(t, b)
    PROVE  s = t
<1>1. ASSUME NEW i \in 1 .. 16 * n  PROVE s[i] = t[i]
    <2> DEFINE b == (i - 1) \div 16 + 1
               j == ((i - 1) % 16) + 1
    <2>1. b \in 1 .. n /\ j \in 1 .. 16 /\ 16 * (b - 1) + j = i
        OBVIOUS
    <2> HIDE DEF b, j
    <2>2. BlockOf(s, b)[j] = s[16 * (b - 1) + j] /\ BlockOf(t, b)[j] = t[16 * (b - 1) + j]
        BY <2>1, BlockOfIs DEF BlockSize
    <2> QED BY <2>1, <2>2
<1>2. 16 * n \in Nat /\ s \in Bytes(16 * n) /\ t \in Bytes(16 * n)
    BY DEF BlockSize
<1> QED BY <1>1, <1>2, SameBytes

(* A sequence of blocks followed by one more. *)
LEMMA BlockAppended ==
    ASSUME NEW n \in Nat, NEW s \in Bytes(BlockSize * n), NEW block \in Block
    PROVE  /\ s \o block \in Bytes(BlockSize * (n + 1))
           /\ \A b \in 1 .. n : BlockOf(s \o block, b) = BlockOf(s, b)
           /\ BlockOf(s \o block, n + 1) = block
<1> DEFINE t == s \o block
<1>1. 16 * n \in Nat /\ 16 \in Nat /\ s \in Bytes(16 * n) /\ block \in Bytes(16) /\ n + 1 \in Nat
    BY DEF BlockSize, Block
<1>2. /\ s \in Seq(Byte) /\ Len(s) = 16 * n /\ block \in Seq(Byte) /\ Len(block) = 16
    BY <1>1 DEF Bytes
<1>3. /\ t \in Seq(Byte) /\ Len(t) = 16 * n + 16
      /\ \A i \in 1 .. 16 * n + 16 : t[i] = IF i <= 16 * n THEN s[i] ELSE block[i - 16 * n]
    <2>1. /\ t \in Seq(Byte) /\ Len(t) = Len(s) + Len(block)
          /\ \A i \in 1 .. Len(s) + Len(block) : t[i] = IF i <= Len(s) THEN s[i] ELSE block[i - Len(s)]
        BY <1>2, ConcatProperties
    <2> HIDE DEF t
    <2> QED BY <1>2, <2>1
<1> HIDE DEF t
<1>4. t \in Bytes(BlockSize * (n + 1))
    BY <1>3 DEF Bytes, BlockSize
<1>5. ASSUME NEW b \in 1 .. n  PROVE BlockOf(t, b) = BlockOf(s, b)
    <2>1. b \in 1 .. n + 1
        OBVIOUS
    <2>2. BlockOf(t, b) \in Bytes(16) /\ BlockOf(s, b) \in Bytes(16)
        BY <1>1, <1>4, <2>1, BlockOfIs DEF Block, BlockSize
    <2>3. ASSUME NEW i \in 1 .. 16  PROVE BlockOf(t, b)[i] = BlockOf(s, b)[i]
        <3>1. BlockOf(t, b)[i] = t[16 * (b - 1) + i]
            BY <1>1, <1>4, <2>1, BlockOfIs DEF BlockSize
        <3>2. BlockOf(s, b)[i] = s[16 * (b - 1) + i]
            BY BlockOfIs DEF BlockSize
        <3>3. 16 * (b - 1) + i \in 1 .. 16 * n + 16 /\ 16 * (b - 1) + i <= 16 * n
            OBVIOUS
        <3> QED BY <1>3, <3>1, <3>2, <3>3
    <2> QED BY <1>1, <2>2, <2>3, SameBytes
<1>6. BlockOf(t, n + 1) = block
    <2> DEFINE m == n + 1
    <2>1. m \in Nat /\ m \in 1 .. m /\ m - 1 = n
        OBVIOUS
    <2> HIDE DEF m
    <2>2. t \in Bytes(BlockSize * m)
        BY <1>4 DEF m
    <2>3. BlockOf(t, m) \in Bytes(16)
        BY <2>1, <2>2, BlockOfIs DEF Block, BlockSize
    <2>4. ASSUME NEW i \in 1 .. 16  PROVE BlockOf(t, m)[i] = block[i]
        <3>1. BlockOf(t, m)[i] = t[16 * (m - 1) + i]
            BY <2>1, <2>2, BlockOfIs DEF BlockSize
        <3> DEFINE j == 16 * n + i
        <3>2. /\ j \in 1 .. 16 * n + 16 /\ ~(j <= 16 * n) /\ j - 16 * n = i
              /\ j = 16 * (m - 1) + i
            BY <2>1
        <3> HIDE DEF j
        <3>3. t[j] = block[i]
            BY <1>3, <3>2
        <3> QED BY <3>1, <3>2, <3>3
    <2>5. BlockOf(t, m) = block
        BY <1>1, <2>3, <2>4, SameBytes
    <2> QED BY <2>5 DEF m
<1> QED BY <1>4, <1>5, <1>6 DEF t

LEMMA BlocksOf ==
    ASSUME NEW n \in Nat, NEW s \in Bytes(BlockSize * n)
    PROVE  Blocks(s) = n
BY DEF Blocks, Bytes, BlockSize

-----------------------------------------------------------------------------
(* Chaining.  Encrypting: every block depends on the one before it. *)
ChainIs(Out, keys, padded, iv) ==
    Out = [b \in 0 .. Blocks(padded) |->
              IF b = 0 THEN iv
              ELSE Out[b - 1] \o EncryptBlock(keys, XorBytes(BlockOf(padded, b), BlockOf(Out[b - 1], b)))]

UnchainIs(Out, keys, data) ==
    Out = [b \in 0 .. Blocks(data) - 1 |->
              IF b = 0 THEN << >>
              ELSE Out[b - 1] \o XorBytes(DecryptBlock(keys, BlockOf(data, b + 1)), BlockOf(data, b))]

LEMMA ModeIs ==
    ASSUME NEW keys, NEW data, NEW iv
    PROVE  /\ EncryptCBC(keys, data, iv)
              = (CHOOSE Out : ChainIs(Out, keys, Pad(data), iv))[Blocks(Pad(data))]
           /\ DecryptCBC(keys, data)
              = IF Len(data) < 2 * BlockSize \/ Len(data) % BlockSize # 0
                THEN ValueError
                ELSE Unpad((CHOOSE Out : UnchainIs(Out, keys, data))[Blocks(data) - 1])
BY Zenon DEF EncryptCBC, DecryptCBC, ChainIs, UnchainIs

LEMMA ChainRound ==
    ASSUME NEW key \in Block, NEW n \in Nat, NEW padded \in Bytes(BlockSize * n), NEW b \in 1 .. n,
           NEW out \in Bytes(BlockSize * b)
    PROVE  EncryptBlock(KeyExpansion(key), XorBytes(BlockOf(padded, b), BlockOf(out, b))) \in Block
<1>1. BlockOf(padded, b) \in Block
    BY BlockOfIs
<1>2. b \in Nat /\ b \in 1 .. b
    OBVIOUS
<1>3. BlockOf(out, b) \in Block
    BY <1>2, BlockOfIs
<1>4. XorBytes(BlockOf(padded, b), BlockOf(out, b)) \in Block
    BY <1>1, <1>3, XorBytesAre DEF Block, BlockSize
<1> QED BY <1>4, CipherInverts

LEMMA ChainExists ==
    ASSUME NEW key \in Block, NEW n \in Nat, NEW padded \in Bytes(BlockSize * n), NEW iv \in Block
    PROVE  \E Out : ChainIs(Out, KeyExpansion(key), padded, iv)
<1> DEFINE keys == KeyExpansion(key)
           next(b, out) == EncryptBlock(keys, XorBytes(BlockOf(padded, b), BlockOf(out, b)))
           S == [b \in 0 .. n |-> Bytes(BlockSize * (b + 1))]
           step == [b \in 1 .. n |-> [out \in Bytes(BlockSize * b) |-> out \o next(b, out)]]
<1>1. iv \in S[0]
    BY DEF Block, BlockSize
<1>2. \A b \in 1 .. n : step[b] \in [S[b - 1] -> S[b]]
    <2> SUFFICES ASSUME NEW b \in 1 .. n  PROVE step[b] \in [S[b - 1] -> S[b]]
        OBVIOUS
    <2>1. b - 1 + 1 = b /\ b - 1 \in 0 .. n /\ b \in 0 .. n
        OBVIOUS
    <2>2. S[b - 1] = Bytes(BlockSize * b) /\ S[b] = Bytes(BlockSize * (b + 1))
        BY <2>1
    <2>3. \A out \in Bytes(BlockSize * b) : next(b, out) \in Block
        BY ChainRound
    <2> HIDE DEF next
    <2>4. \A out \in Bytes(BlockSize * b) : out \o next(b, out) \in Bytes(BlockSize * (b + 1))
        <3> SUFFICES ASSUME NEW out \in Bytes(BlockSize * b)
                     PROVE  out \o next(b, out) \in Bytes(BlockSize * (b + 1))
            OBVIOUS
        <3>1. b \in Nat /\ next(b, out) \in Block
            BY <2>3
        <3> QED BY <3>1, BlockAppended
    <2> HIDE DEF S
    <2> QED BY <2>2, <2>4
<1>3. PICK f : Iterates(f, n, S, iv, step)
    <2> HIDE DEF S, step
    <2> QED BY <1>1, <1>2, Iteration
<1>4. Blocks(padded) = n
    BY BlocksOf
<1>5. \A b \in 0 .. n : f[b] = IF b = 0 THEN iv ELSE f[b - 1] \o next(b, f[b - 1])
    <2> SUFFICES ASSUME NEW b \in 0 .. n, b # 0  PROVE f[b] = f[b - 1] \o next(b, f[b - 1])
        BY <1>3 DEF Iterates
    <2>1. b - 1 \in 0 .. n /\ b \in 1 .. n /\ b - 1 + 1 = b
        OBVIOUS
    <2>2. f[b] = step[b][f[b - 1]] /\ f[b - 1] \in S[b - 1]
        BY <1>3, <2>1 DEF Iterates
    <2>3. f[b - 1] \in Bytes(BlockSize * b)
        BY <2>1, <2>2
    <2> HIDE DEF next
    <2> QED BY <2>1, <2>2, <2>3
<1>6. f = [b \in 0 .. n |-> f[b]]
    BY <1>3 DEF Iterates
<1>7. ChainIs(f, keys, padded, iv)
    BY <1>4, <1>5, <1>6 DEF ChainIs
<1> QED BY <1>7

(* What is encrypted: the initialization vector, then a block for each of the
   padded plaintext's. *)
LEMMA EncryptedIs ==
    ASSUME NEW key \in Block, NEW x \in Seq(Byte), NEW iv \in Block
    PROVE  LET n == Len(x) \div BlockSize + 1
               keys == KeyExpansion(key)
               encrypted == EncryptCBC(keys, x, iv)
           IN  /\ encrypted \in Bytes(BlockSize * (n + 1))
               /\ BlockOf(encrypted, 1) = iv
               /\ \A b \in 1 .. n :
                     BlockOf(encrypted, b + 1)
                     = EncryptBlock(keys, XorBytes(BlockOf(Pad(x), b), BlockOf(encrypted, b)))
<1> DEFINE n == Len(x) \div BlockSize + 1
           keys == KeyExpansion(key)
           padded == Pad(x)
           C == CHOOSE Out : ChainIs(Out, keys, padded, iv)
           next(b) == EncryptBlock(keys, XorBytes(BlockOf(padded, b), BlockOf(C[b - 1], b)))
<1>1. padded \in Bytes(BlockSize * n) /\ n \in Nat
    BY PadIs DEF BlockSize
<1> HIDE DEF n, padded
<1>2. Blocks(padded) = n
    BY <1>1, BlocksOf
<1>3. ChainIs(C, keys, padded, iv)
    <2>1. \E Out : ChainIs(Out, keys, padded, iv)
        BY <1>1, ChainExists
    <2> QED BY <2>1, Zenon
<1>4. EncryptCBC(keys, x, iv) = C[n]
    BY <1>2, ModeIs DEF padded
<1> HIDE DEF C, keys
<1>5. C[0] = iv /\ \A b \in 1 .. n : C[b] = C[b - 1] \o next(b)
    <2>1. C = [b \in 0 .. n |-> IF b = 0 THEN iv ELSE C[b - 1] \o next(b)]
        BY <1>2, <1>3 DEF ChainIs
    <2> HIDE DEF next
    <2> QED BY <1>1, <2>1
<1> DEFINE Chained(b) ==
              /\ C[b] \in Bytes(BlockSize * (b + 1))
              /\ BlockOf(C[b], 1) = iv
              /\ \A j \in 1 .. b :
                    BlockOf(C[b], j + 1) = EncryptBlock(keys, XorBytes(BlockOf(padded, j), BlockOf(C[b], j)))
           Done == {b \in 0 .. n : Chained(b)}
<1>6. 0 \in Done
    <2>1. iv \in Bytes(BlockSize * 1) /\ 1 \in Nat /\ 1 \in 1 .. 1 /\ 1 - 1 = 0
        BY DEF Block, BlockSize
    <2>2. /\ BlockOf(iv, 1) \in Block
          /\ \A i \in 1 .. BlockSize : BlockOf(iv, 1)[i] = iv[BlockSize * (1 - 1) + i]
        BY <2>1, BlockOfIs
    <2>3. \A i \in 1 .. 16 : BlockOf(iv, 1)[i] = iv[i]
        BY <2>2 DEF BlockSize
    <2>4. BlockOf(iv, 1) = iv
        BY <2>2, <2>3, SameBytes DEF Block, BlockSize
    <2> QED BY <1>1, <1>5, <2>1, <2>4
<1>7. ASSUME NEW b \in 1 .. n, b - 1 \in Done  PROVE b \in Done
    <2>1. Chained(b - 1) /\ b - 1 + 1 = b /\ b \in Nat /\ b \in 1 .. b
        BY <1>7
    <2> DEFINE out == C[b - 1]
    <2>2. out \in Bytes(BlockSize * b)
        BY <2>1
    <2>3. next(b) \in Block
        BY <1>1, <2>2, ChainRound DEF keys
    <2>4. /\ C[b] \in Bytes(BlockSize * (b + 1))
          /\ \A j \in 1 .. b : BlockOf(C[b], j) = BlockOf(out, j)
          /\ BlockOf(C[b], b + 1) = next(b)
        <3>1. C[b] = out \o next(b)
            BY <1>5
        <3> HIDE DEF next, out
        <3> QED BY <2>1, <2>2, <2>3, <3>1, BlockAppended
    <2>5. BlockOf(C[b], 1) = iv
        BY <2>1, <2>4
    <2>6. ASSUME NEW j \in 1 .. b
          PROVE  BlockOf(C[b], j + 1) = EncryptBlock(keys, XorBytes(BlockOf(padded, j), BlockOf(C[b], j)))
        <3>1. CASE j = b
            BY <2>4, <3>1
        <3>2. CASE j # b
            <4>1. j \in 1 .. b - 1 /\ j + 1 \in 1 .. b
                BY <3>2
            <4>2. BlockOf(out, j + 1) = EncryptBlock(keys, XorBytes(BlockOf(padded, j), BlockOf(out, j)))
                BY <2>1, <4>1
            <4>3. BlockOf(C[b], j + 1) = BlockOf(out, j + 1) /\ BlockOf(C[b], j) = BlockOf(out, j)
                BY <2>4, <4>1
            <4> QED BY <4>2, <4>3
        <3> QED BY <3>1, <3>2
    <2>7. Chained(b)
        BY <2>4, <2>5, <2>6
    <2> QED BY <2>7
<1>8. 0 .. n \subseteq Done
    <2> HIDE DEF Done
    <2> QED BY <1>1, <1>6, <1>7, UpTo
<1>9. Chained(n)
    BY <1>1, <1>8
<1> QED BY <1>4, <1>9 DEF n, keys, padded

(* Decrypting: every block depends on two of what is decrypted. *)
LEMMA UnchainRound ==
    ASSUME NEW key \in Block, NEW n \in Nat, NEW data \in Bytes(BlockSize * (n + 1)), NEW b \in 1 .. n
    PROVE  XorBytes(DecryptBlock(KeyExpansion(key), BlockOf(data, b + 1)), BlockOf(data, b)) \in Block
<1>1. n + 1 \in Nat /\ b \in 1 .. n + 1 /\ b + 1 \in 1 .. n + 1
    OBVIOUS
<1>2. BlockOf(data, b) \in Block /\ BlockOf(data, b + 1) \in Block
    BY <1>1, BlockOfIs
<1>3. DecryptBlock(KeyExpansion(key), BlockOf(data, b + 1)) \in Block
    BY <1>2, CipherInverts
<1> QED BY <1>2, <1>3, XorBytesAre DEF Block, BlockSize

LEMMA UnchainExists ==
    ASSUME NEW key \in Block, NEW n \in Nat, NEW data \in Bytes(BlockSize * (n + 1))
    PROVE  \E Out : UnchainIs(Out, KeyExpansion(key), data)
<1> DEFINE keys == KeyExpansion(key)
           next(b) == XorBytes(DecryptBlock(keys, BlockOf(data, b + 1)), BlockOf(data, b))
           S == [b \in 0 .. n |-> Bytes(BlockSize * b)]
           step == [b \in 1 .. n |-> [out \in Bytes(BlockSize * (b - 1)) |-> out \o next(b)]]
<1>1. << >> \in S[0]
    BY DEF Bytes, BlockSize
<1>2. \A b \in 1 .. n : step[b] \in [S[b - 1] -> S[b]]
    <2> SUFFICES ASSUME NEW b \in 1 .. n  PROVE step[b] \in [S[b - 1] -> S[b]]
        OBVIOUS
    <2> DEFINE m == b - 1
    <2>1. m + 1 = b /\ m \in 0 .. n /\ b \in 0 .. n /\ m \in Nat
        OBVIOUS
    <2>2. S[b - 1] = Bytes(BlockSize * m) /\ S[b] = Bytes(BlockSize * (m + 1))
        BY <2>1
    <2>3. next(b) \in Block
        BY UnchainRound
    <2>4. step[b] = [out \in Bytes(BlockSize * m) |-> out \o next(b)]
        OBVIOUS
    <2> HIDE DEF next, m
    <2>5. \A out \in Bytes(BlockSize * m) : out \o next(b) \in Bytes(BlockSize * (m + 1))
        BY <2>1, <2>3, BlockAppended
    <2> HIDE DEF S, step
    <2> QED BY <2>2, <2>4, <2>5
<1>3. PICK f : Iterates(f, n, S, << >>, step)
    <2> HIDE DEF S, step
    <2> QED BY <1>1, <1>2, Iteration
<1>4. Blocks(data) - 1 = n
    BY BlocksOf
<1>5. \A b \in 0 .. n : f[b] = IF b = 0 THEN << >> ELSE f[b - 1] \o next(b)
    <2> SUFFICES ASSUME NEW b \in 0 .. n, b # 0  PROVE f[b] = f[b - 1] \o next(b)
        BY <1>3 DEF Iterates
    <2>1. b - 1 \in 0 .. n /\ b \in 1 .. n
        OBVIOUS
    <2>2. f[b] = step[b][f[b - 1]] /\ f[b - 1] \in S[b - 1]
        BY <1>3, <2>1 DEF Iterates
    <2>3. f[b - 1] \in Bytes(BlockSize * (b - 1))
        BY <2>1, <2>2
    <2> HIDE DEF next
    <2> QED BY <2>1, <2>2, <2>3
<1>6. f = [b \in 0 .. n |-> f[b]]
    BY <1>3 DEF Iterates
<1>7. UnchainIs(f, keys, data)
    BY <1>4, <1>5, <1>6 DEF UnchainIs
<1> QED BY <1>7

(* What is decrypted, before the padding is taken off. *)
LEMMA DecryptedIs ==
    ASSUME NEW key \in Block, NEW n \in Nat \ {0}, NEW data \in Bytes(BlockSize * (n + 1))
    PROVE  \E padded \in Bytes(BlockSize * n) :
              /\ DecryptCBC(KeyExpansion(key), data) = Unpad(padded)
              /\ \A b \in 1 .. n :
                    BlockOf(padded, b)
                    = XorBytes(DecryptBlock(KeyExpansion(key), BlockOf(data, b + 1)), BlockOf(data, b))
<1> DEFINE keys == KeyExpansion(key)
           D == CHOOSE Out : UnchainIs(Out, keys, data)
           next(b) == XorBytes(DecryptBlock(keys, BlockOf(data, b + 1)), BlockOf(data, b))
<1>1. Blocks(data) - 1 = n
    BY BlocksOf
<1>2. UnchainIs(D, keys, data)
    <2>1. \E Out : UnchainIs(Out, keys, data)
        BY UnchainExists
    <2> QED BY <2>1, Zenon
<1>3. DecryptCBC(keys, data) = Unpad(D[n])
    <2>1. Len(data) = 16 * (n + 1)
        BY DEF Bytes, BlockSize
    <2>2. n + 1 \in Nat
        OBVIOUS
    <2>3. ~(Len(data) < 2 * BlockSize) /\ Len(data) % BlockSize = 0
        BY <2>1, <2>2 DEF BlockSize
    <2>4. DecryptCBC(keys, data) = Unpad(D[Blocks(data) - 1])
        BY <2>3, ModeIs, Zenon
    <2> QED BY <1>1, <2>4, Zenon
<1> HIDE DEF D, keys
<1>4. D[0] = << >> /\ \A b \in 1 .. n : D[b] = D[b - 1] \o next(b)
    <2> DEFINE start == << >>
    <2>1. D = [b \in 0 .. n |-> IF b = 0 THEN start ELSE D[b - 1] \o next(b)]
        BY <1>1, <1>2 DEF UnchainIs
    <2>2. n \in Nat
        OBVIOUS
    <2> HIDE DEF next, start
    <2>3. D[0] = start /\ \A b \in 1 .. n : D[b] = D[b - 1] \o next(b)
        BY <2>1, <2>2
    <2> QED BY <2>3 DEF start
<1> DEFINE Unchained(b) == /\ D[b] \in Bytes(BlockSize * b)
                           /\ \A j \in 1 .. b : BlockOf(D[b], j) = next(j)
           Done == {b \in 0 .. n : Unchained(b)}
<1>5. 0 \in Done
    <2>1. << >> \in Bytes(BlockSize * 0)
        BY DEF Bytes, BlockSize
    <2>2. D[0] \in Bytes(BlockSize * 0)
        BY <1>4, <2>1, Zenon
    <2> HIDE DEF next
    <2> QED BY <2>2
<1>6. ASSUME NEW b \in 1 .. n, b - 1 \in Done  PROVE b \in Done
    <2> DEFINE m == b - 1
               out == D[m]
    <2>1. m + 1 = b /\ m \in Nat
        OBVIOUS
    <2>2. out \in Bytes(BlockSize * m) /\ \A j \in 1 .. m : BlockOf(out, j) = next(j)
        BY <1>6
    <2>3. next(b) \in Block
        BY UnchainRound DEF keys
    <2>4. D[b] = out \o next(b)
        BY <1>4
    <2> HIDE DEF next, m, out
    <2>5. /\ out \o next(b) \in Bytes(BlockSize * (m + 1))
          /\ \A j \in 1 .. m : BlockOf(out \o next(b), j) = BlockOf(out, j)
          /\ BlockOf(out \o next(b), m + 1) = next(b)
        BY <2>1, <2>2, <2>3, BlockAppended
    <2>6. \A j \in 1 .. b : j \in 1 .. m \/ j = b
        BY <2>1
    <2>7. Unchained(b)
        BY <2>1, <2>2, <2>4, <2>5, <2>6
    <2> QED BY <2>7
<1>7. 0 .. n \subseteq Done
    <2> HIDE DEF Done
    <2> QED BY <1>5, <1>6, UpTo
<1>8. Unchained(n)
    BY <1>7
<1> QED BY <1>3, <1>8 DEF keys

(* What encrypt_cbc makes of a plaintext of any length, decrypt_cbc makes the
   plaintext of again, with every key and initialization vector. *)
THEOREM ChainInverts ==
    ASSUME NEW key \in Block, NEW x \in Seq(Byte), NEW iv \in Block
    PROVE  DecryptCBC(KeyExpansion(key), EncryptCBC(KeyExpansion(key), x, iv)) = x
<1> DEFINE n == Len(x) \div BlockSize + 1
           keys == KeyExpansion(key)
           encrypted == EncryptCBC(keys, x, iv)
<1>1. n \in Nat \ {0} /\ Pad(x) \in Bytes(BlockSize * n) /\ Unpad(Pad(x)) = x
    BY PadIs DEF BlockSize
<1>2. /\ encrypted \in Bytes(BlockSize * (n + 1))
      /\ \A b \in 1 .. n : BlockOf(encrypted, b + 1)
                           = EncryptBlock(keys, XorBytes(BlockOf(Pad(x), b), BlockOf(encrypted, b)))
    BY EncryptedIs
<1> HIDE DEF n, encrypted
<1>3. PICK padded \in Bytes(BlockSize * n) :
          /\ DecryptCBC(keys, encrypted) = Unpad(padded)
          /\ \A b \in 1 .. n : BlockOf(padded, b)
                               = XorBytes(DecryptBlock(keys, BlockOf(encrypted, b + 1)), BlockOf(encrypted, b))
    BY <1>1, <1>2, DecryptedIs
<1>4. ASSUME NEW b \in 1 .. n  PROVE BlockOf(padded, b) = BlockOf(Pad(x), b)
    <2> DEFINE p == BlockOf(Pad(x), b)
               c == BlockOf(encrypted, b)
    <2>1. n \in Nat /\ n + 1 \in Nat /\ b \in 1 .. n + 1
        BY <1>1
    <2>2. p \in Block /\ c \in Block
        BY <1>1, <1>2, <2>1, BlockOfIs
    <2>3. BlockOf(encrypted, b + 1) = EncryptBlock(keys, XorBytes(p, c))
        BY <1>2
    <2>4. BlockOf(padded, b) = XorBytes(DecryptBlock(keys, BlockOf(encrypted, b + 1)), c)
        BY <1>3
    <2> HIDE DEF p, c
    <2>5. XorBytes(p, c) \in Block /\ XorBytes(XorBytes(p, c), c) = p
        BY <2>2, XorBytesAre, XorBytesTwice DEF Block, BlockSize
    <2>6. DecryptBlock(keys, BlockOf(encrypted, b + 1)) = XorBytes(p, c)
        BY <2>3, <2>5, CipherInverts
    <2>7. BlockOf(padded, b) = p
        BY <2>4, <2>5, <2>6
    <2> QED BY <2>7 DEF p
<1>5. padded = Pad(x)
    BY <1>1, <1>4, SameBlocks
<1> QED BY <1>1, <1>3, <1>5 DEF encrypted

(* How long what is decrypted can be. *)
LEMMA DecryptedLength ==
    ASSUME NEW key \in Block, NEW data \in Seq(Byte),
           DecryptCBC(KeyExpansion(key), data) # ValueError
    PROVE  /\ Len(data) >= 2 * BlockSize
           /\ DecryptCBC(KeyExpansion(key), data) \in Seq(Byte)
           /\ Len(DecryptCBC(KeyExpansion(key), data)) \in Len(data) - 2 * BlockSize .. Len(data) - BlockSize - 1
<1> DEFINE n == Len(data) \div 16 - 1
           decrypted == DecryptCBC(KeyExpansion(key), data)
<1>1. Len(data) \in Nat
    BY LenProperties
<1>2. ~(Len(data) < 2 * BlockSize) /\ Len(data) % BlockSize = 0
    BY ModeIs, Zenon
<1>3. n \in Nat \ {0} /\ n + 1 \in Nat /\ Len(data) = 16 * (n + 1)
    BY <1>1, <1>2 DEF BlockSize
<1> HIDE DEF n
<1>4. data \in Bytes(BlockSize * (n + 1))
    BY <1>3 DEF Bytes, BlockSize
<1>5. PICK padded \in Bytes(BlockSize * n) : decrypted = Unpad(padded)
    BY <1>3, <1>4, DecryptedIs
<1>6. /\ decrypted \in Seq(Byte)
      /\ Len(decrypted) \in BlockSize * n - BlockSize .. BlockSize * n - 1
    BY <1>3, <1>5, UnpadIs
<1> QED BY <1>3, <1>6 DEF BlockSize

-----------------------------------------------------------------------------
(* What is encrypted is two blocks longer than the whole blocks of what it is
   made from. *)
LEMMA EncryptedLength ==
    ASSUME NEW key \in Block, NEW x \in Seq(Byte), NEW iv \in Block
    PROVE  EncryptCBC(KeyExpansion(key), x, iv) \in Bytes(BlockSize * (Len(x) \div BlockSize + 2))
<1> DEFINE n == Len(x) \div BlockSize + 1
<1>1. EncryptCBC(KeyExpansion(key), x, iv) \in Bytes(BlockSize * (n + 1))
    BY EncryptedIs
<1>2. n + 1 = Len(x) \div BlockSize + 2
    BY LenProperties DEF BlockSize
<1> QED BY <1>1, <1>2, Zenon

(* Payloads of an envelope, whatever their fields hold. *)
EncryptedPayloads ==
    [iv : Seq(Byte), ciphertext : Seq(Byte), encrypted_dek : Seq(Byte),
     hmac : Seq(Byte) \X Seq(Byte)]

LEMMA NewPayload ==
    ASSUME NEW key \in Block, NEW iv \in Seq(Byte), NEW ciphertext \in Seq(Byte),
           NEW encrypted_dek \in Seq(Byte)
    PROVE  LET p == EncryptedPayload(key, iv, ciphertext, encrypted_dek)
           IN  /\ p \in EncryptedPayloads /\ p.hmac[1] = key /\ HmacVerify(key, p)
               /\ p.iv = iv /\ p.ciphertext = ciphertext /\ p.encrypted_dek = encrypted_dek
<1>1. MacData(iv, ciphertext, encrypted_dek) \in Seq(Byte) /\ key \in Seq(Byte)
    BY ConcatProperties DEF MacData, Block, Bytes
<1> QED BY <1>1 DEF EncryptedPayload, EncryptedPayloads, HmacVerify, HmacSign

(* A payload is refused by every key but that of its HMAC. *)
LEMMA OtherKeysRefuse ==
    ASSUME NEW p, NEW kek, p.hmac[1] # kek
    PROVE  /\ Decrypt(kek, p) = ValueError
           /\ \A new, dek_iv : Rewrap(kek, new, p, dek_iv) = ValueError
<1>1. ~HmacVerify(kek, p)
    BY DEF HmacVerify, HmacSign
<1> QED BY <1>1, Zenon DEF Decrypt, Rewrap

(* What decrypt returns when it does not raise. *)
LEMMA DecryptIs ==
    ASSUME NEW kek, NEW p
    PROVE  Decrypt(kek, p) =
             IF ~HmacVerify(kek, p) \/ Unwrap(kek, p) = ValueError \/ Len(Unwrap(kek, p)) # BlockSize
             THEN ValueError
             ELSE DecryptCBC(KeyExpansion(Unwrap(kek, p)), p.iv \o p.ciphertext)
BY Zenon DEF Decrypt

LEMMA UnwrapIs ==
    ASSUME NEW kek \in Block, NEW p \in EncryptedPayloads, Unwrap(kek, p) # ValueError
    PROVE  /\ Unwrap(kek, p) \in Seq(Byte)
           /\ Len(Unwrap(kek, p)) \in Len(p.encrypted_dek) - 2 * BlockSize .. Len(p.encrypted_dek) - BlockSize - 1
BY DecryptedLength DEF Unwrap, EncryptedPayloads

(* A payload as the envelope makes it. *)
Shaped(p) ==
    /\ Len(p.iv) = BlockSize
    /\ Len(p.ciphertext) >= BlockSize
    /\ Len(p.encrypted_dek) = 3 * BlockSize

(* What is encrypted under a key, that key decrypts to the plaintext. *)
THEOREM EnvelopeInverts ==
    ASSUME NEW kek \in Block, NEW t \in Seq(Byte), NEW drawn,
           drawn.dek \in Block, drawn.iv \in Block, drawn.dek_iv \in Block
    PROVE  LET p == Encrypt(kek, t, drawn)
           IN  /\ p \in EncryptedPayloads /\ p.hmac[1] = kek /\ Shaped(p)
               /\ Decrypt(kek, p) = t
<1> DEFINE dek == drawn.dek
           encrypted == EncryptCBC(KeyExpansion(dek), t, drawn.iv)
           iv == BlockOf(encrypted, 1)
           ciphertext == SubSeq(encrypted, 17, Len(encrypted))
           encrypted_dek == EncryptCBC(KeyExpansion(kek), dek, drawn.dek_iv)
           p == EncryptedPayload(kek, iv, ciphertext, encrypted_dek)
           n == Len(t) \div 16 + 1
<1>1. Encrypt(kek, t, drawn) = p
    <2>1. BlockSize + 1 = 17
        BY DEF BlockSize
    <2> QED BY <2>1, Zenon DEF Encrypt
<1>2. dek \in Seq(Byte) /\ Len(dek) = 16
    BY DEF Block, Bytes, BlockSize
<1>3. encrypted_dek \in Seq(Byte) /\ Len(encrypted_dek) = 48
    <2>1. encrypted_dek \in Bytes(BlockSize * (16 \div BlockSize + 2))
        BY <1>2, EncryptedLength
    <2> HIDE DEF encrypted_dek
    <2> QED BY <2>1 DEF Bytes, BlockSize
<1>4. n \in Nat \ {0} /\ encrypted \in Seq(Byte) /\ Len(encrypted) = 16 * n + 16
    <2>1. encrypted \in Bytes(BlockSize * (Len(t) \div BlockSize + 2))
        BY EncryptedLength
    <2>2. n \in Nat \ {0} /\ BlockSize * (Len(t) \div BlockSize + 2) = 16 * n + 16
        BY LenProperties DEF BlockSize
    <2> HIDE DEF encrypted, n
    <2> QED BY <2>1, <2>2 DEF Bytes
<1>5. DecryptCBC(KeyExpansion(dek), encrypted) = t /\ DecryptCBC(KeyExpansion(kek), encrypted_dek) = dek
    BY <1>2, ChainInverts
<1> HIDE DEF encrypted, encrypted_dek, n
<1>6. iv = SubSeq(encrypted, 1, 16)
    BY DEF BlockOf, BlockSize
<1>7. /\ iv \in Seq(Byte) /\ Len(iv) = 16
      /\ ciphertext \in Seq(Byte) /\ Len(ciphertext) = 16 * n
    <2>1. encrypted \in Bytes(16 * n + 16) /\ 16 * n + 16 \in Nat
        BY <1>4 DEF Bytes
    <2>2. SubSeq(encrypted, 1, 16) \in Bytes(16 - 1 + 1)
        BY <1>4, <2>1, SubSeqBytes
    <2>3. 17 \in 1 .. 16 * n + 16 + 1 /\ 16 * n + 16 \in 17 - 1 .. 16 * n + 16
        BY <1>4
    <2>4. ciphertext \in Bytes(16 * n + 16 - 17 + 1)
        BY <1>4, <2>1, <2>3, SubSeqBytes
    <2> HIDE DEF ciphertext, iv
    <2> QED BY <1>4, <1>6, <2>2, <2>4 DEF Bytes
<1>8. iv \o ciphertext = encrypted
    <2>1. /\ 1 \in 1 .. Len(encrypted) + 1 /\ 16 \in 1 - 1 .. Len(encrypted)
          /\ Len(encrypted) \in 16 .. Len(encrypted)
        BY <1>4
    <2>2. SubSeq(encrypted, 1, 16) \o SubSeq(encrypted, 16 + 1, Len(encrypted))
          = SubSeq(encrypted, 1, Len(encrypted))
        BY <1>4, <2>1, ConcatAdjacentSubSeq
    <2>3. SubSeq(encrypted, 1, Len(encrypted)) = encrypted
        BY <1>4, SubSeqFull
    <2>4. SubSeq(encrypted, 16 + 1, Len(encrypted)) = ciphertext
        <3>1. 16 + 1 = 17
            OBVIOUS
        <3> QED BY <3>1, Zenon
    <2> HIDE DEF ciphertext, iv
    <2> QED BY <1>6, <2>2, <2>3, <2>4, Zenon
<1> HIDE DEF iv, ciphertext
<1>9. /\ p \in EncryptedPayloads /\ p.hmac[1] = kek /\ HmacVerify(kek, p)
      /\ p.iv = iv /\ p.ciphertext = ciphertext /\ p.encrypted_dek = encrypted_dek
    BY <1>3, <1>7, NewPayload
<1> HIDE DEF p
<1>10. Unwrap(kek, p) = dek
    BY <1>5, <1>9 DEF Unwrap
<1>11. dek # ValueError
    BY <1>2, DrawnAssumption
<1>12. Decrypt(kek, p) = DecryptCBC(KeyExpansion(dek), iv \o ciphertext)
    <2>1. Len(dek) = BlockSize
        BY <1>2 DEF BlockSize
    <2> QED BY <1>9, <1>10, <1>11, <2>1, DecryptIs, Zenon
<1>13. Shaped(p)
    BY <1>3, <1>4, <1>7, <1>9 DEF Shaped, BlockSize
<1> QED BY <1>1, <1>5, <1>8, <1>9, <1>12, <1>13

-----------------------------------------------------------------------------
(* Changes of the master key. *)
(* A payload that is moved to a new master key means what it meant. *)
THEOREM RewrapKeepsMeaning ==
    ASSUME NEW kek \in Block, NEW new \in Block, NEW p \in EncryptedPayloads, NEW dek_iv \in Block,
           Rewrap(kek, new, p, dek_iv) # ValueError
    PROVE  LET q == Rewrap(kek, new, p, dek_iv)
           IN  /\ p.hmac[1] = kek
               /\ q \in EncryptedPayloads /\ q.hmac[1] = new
               /\ Decrypt(new, q) = Decrypt(kek, p)
               /\ Shaped(p) /\ Decrypt(kek, p) # ValueError => Shaped(q)
<1> DEFINE dek == Unwrap(kek, p)
           encrypted_dek == EncryptCBC(KeyExpansion(new), dek, dek_iv)
           q == EncryptedPayload(new, p.iv, p.ciphertext, encrypted_dek)
<1>1. HmacVerify(kek, p) /\ dek # ValueError /\ Rewrap(kek, new, p, dek_iv) = q
    BY Zenon DEF Rewrap
<1>2. p.hmac[1] = kek
    BY <1>1 DEF HmacVerify, HmacSign
<1>3. dek \in Seq(Byte)
    BY <1>1, UnwrapIs
<1> HIDE DEF dek
<1>4. encrypted_dek \in Bytes(BlockSize * (Len(dek) \div BlockSize + 2))
    BY <1>3, EncryptedLength
<1>5. DecryptCBC(KeyExpansion(new), encrypted_dek) = dek
    BY <1>3, ChainInverts
<1> HIDE DEF encrypted_dek
<1>6. p.iv \in Seq(Byte) /\ p.ciphertext \in Seq(Byte) /\ encrypted_dek \in Seq(Byte)
    BY <1>4 DEF EncryptedPayloads, Bytes
<1>7. /\ q \in EncryptedPayloads /\ q.hmac[1] = new /\ HmacVerify(new, q)
      /\ q.iv = p.iv /\ q.ciphertext = p.ciphertext /\ q.encrypted_dek = encrypted_dek
    BY <1>6, NewPayload
<1> HIDE DEF q
<1>8. Unwrap(new, q) = dek
    BY <1>5, <1>7 DEF Unwrap
<1>9. Decrypt(new, q) = Decrypt(kek, p)
    <2>1. Decrypt(new, q) = IF Len(dek) # BlockSize THEN ValueError
                            ELSE DecryptCBC(KeyExpansion(dek), p.iv \o p.ciphertext)
        BY <1>1, <1>7, <1>8, DecryptIs, Zenon
    <2>2. Decrypt(kek, p) = IF Len(dek) # BlockSize THEN ValueError
                            ELSE DecryptCBC(KeyExpansion(dek), p.iv \o p.ciphertext)
        BY <1>1, DecryptIs, Zenon DEF dek
    <2> DEFINE read == DecryptCBC(KeyExpansion(dek), p.iv \o p.ciphertext)
    <2> HIDE DEF read
    <2> QED BY <2>1, <2>2 DEF read
<1>10. ASSUME Shaped(p), Decrypt(kek, p) # ValueError  PROVE Shaped(q)
    <2>1. Len(dek) = BlockSize
        BY <1>10, DecryptIs, Zenon DEF dek
    <2>2. Len(encrypted_dek) = 3 * BlockSize
        BY <1>4, <2>1 DEF Bytes, BlockSize
    <2> QED BY <1>7, <1>10, <2>2 DEF Shaped
<1> QED BY <1>1, <1>2, <1>7, <1>9, <1>10

-----------------------------------------------------------------------------
(* Damage: a byte that is changed. *)
LEMMA FlipIs ==
    ASSUME NEW s \in Seq(Byte), NEW i \in 1 .. Len(s)
    PROVE  /\ Flip(s, i) \in Seq(Byte) /\ Len(Flip(s, i)) = Len(s)
           /\ Flip(s, i) # s
<1> DEFINE b == s[i]
           changed == Xor(b, 255)
<1>1. b \in Byte /\ 255 \in Byte
    BY ElementOfSeq DEF Byte
<1>2. changed \in Byte
    BY <1>1, XorType
<1>3. changed # b
    <2>1. SUFFICES ASSUME changed = b  PROVE FALSE
        OBVIOUS
    <2> HIDE DEF b
    <2>2. Xor(Xor(255, b), b) = 255 /\ Xor(255, b) = Xor(b, 255)
        BY <1>1, XorTwice, XorCommutes
    <2>3. Xor(b, b) = 0
        BY <1>1, XorItself
    <2> QED BY <2>1, <2>2, <2>3
<1>4. Flip(s, i) = [s EXCEPT ![i] = changed]
    BY DEF Flip
<1> HIDE DEF changed
<1>5. /\ Flip(s, i) \in Seq(Byte) /\ Len(Flip(s, i)) = Len(s)
      /\ Flip(s, i)[i] = changed
    BY <1>2, <1>4, ExceptSeq
<1> QED BY <1>3, <1>5

LEMMA ConcatIs ==
    ASSUME NEW s \in Seq(Byte), NEW t \in Seq(Byte)
    PROVE  /\ s \o t \in Seq(Byte) /\ Len(s \o t) = Len(s) + Len(t)
           /\ \A i \in 1 .. Len(s) + Len(t) :
                 (s \o t)[i] = IF i <= Len(s) THEN s[i] ELSE t[i - Len(s)]
BY ConcatProperties

(* Sequences of the same lengths, one after the other. *)
LEMMA SameParts ==
    ASSUME NEW s \in Seq(Byte), NEW t \in Seq(Byte), NEW u \in Seq(Byte), NEW v \in Seq(Byte),
           Len(s) = Len(u), s \o t = u \o v
    PROVE  s = u /\ t = v
<1>1. Len(s) \in Nat /\ Len(t) \in Nat /\ Len(v) \in Nat
    BY LenProperties
<1>2. /\ Len(s \o t) = Len(s) + Len(t)
      /\ \A i \in 1 .. Len(s) + Len(t) : (s \o t)[i] = IF i <= Len(s) THEN s[i] ELSE t[i - Len(s)]
    BY ConcatIs
<1>3. /\ Len(u \o v) = Len(s) + Len(v)
      /\ \A i \in 1 .. Len(s) + Len(v) : (u \o v)[i] = IF i <= Len(s) THEN u[i] ELSE v[i - Len(s)]
    <2>1. /\ Len(u \o v) = Len(u) + Len(v)
          /\ \A i \in 1 .. Len(u) + Len(v) : (u \o v)[i] = IF i <= Len(u) THEN u[i] ELSE v[i - Len(u)]
        BY ConcatIs
    <2> QED BY <2>1
<1>4. Len(t) = Len(v)
    BY <1>1, <1>2, <1>3
<1>5. s = u
    <2>1. \A i \in 1 .. Len(s) : s[i] = u[i]
        BY <1>1, <1>2, <1>3, <1>4
    <2> QED BY <2>1, SeqEqual
<1>6. t = v
    BY <1>5, ConcatSimplifications, Zenon
<1> QED BY <1>5, <1>6

LEMMA SignedBytes ==
    ASSUME NEW p \in EncryptedPayloads
    PROVE  /\ p.iv \o p.ciphertext \in Seq(Byte)
           /\ Len(p.iv \o p.ciphertext) = Len(p.iv) + Len(p.ciphertext)
           /\ MacData(p.iv, p.ciphertext, p.encrypted_dek) \in Seq(Byte)
           /\ Len(MacData(p.iv, p.ciphertext, p.encrypted_dek))
              = Len(p.iv) + Len(p.ciphertext) + Len(p.encrypted_dek)
<1>1. p.iv \in Seq(Byte) /\ p.ciphertext \in Seq(Byte) /\ p.encrypted_dek \in Seq(Byte)
    BY DEF EncryptedPayloads
<1>2. p.iv \o p.ciphertext \in Seq(Byte) /\ Len(p.iv \o p.ciphertext) = Len(p.iv) + Len(p.ciphertext)
    BY <1>1, ConcatIs
<1>3. /\ (p.iv \o p.ciphertext) \o p.encrypted_dek \in Seq(Byte)
      /\ Len((p.iv \o p.ciphertext) \o p.encrypted_dek) = Len(p.iv \o p.ciphertext) + Len(p.encrypted_dek)
    BY <1>1, <1>2, ConcatIs
<1> QED BY <1>2, <1>3 DEF MacData

LEMMA SameSigned ==
    ASSUME NEW p \in EncryptedPayloads, NEW d \in EncryptedPayloads,
           Len(d.iv) = Len(p.iv), Len(d.ciphertext) = Len(p.ciphertext),
           MacData(d.iv, d.ciphertext, d.encrypted_dek) = MacData(p.iv, p.ciphertext, p.encrypted_dek)
    PROVE  d.iv = p.iv /\ d.ciphertext = p.ciphertext /\ d.encrypted_dek = p.encrypted_dek
<1>1. /\ p.iv \in Seq(Byte) /\ p.ciphertext \in Seq(Byte) /\ p.encrypted_dek \in Seq(Byte)
      /\ d.iv \in Seq(Byte) /\ d.ciphertext \in Seq(Byte) /\ d.encrypted_dek \in Seq(Byte)
    BY DEF EncryptedPayloads
<1>2. /\ p.iv \o p.ciphertext \in Seq(Byte) /\ d.iv \o d.ciphertext \in Seq(Byte)
      /\ Len(p.iv \o p.ciphertext) = Len(d.iv \o d.ciphertext)
    BY SignedBytes
<1>3. (d.iv \o d.ciphertext) \o d.encrypted_dek = (p.iv \o p.ciphertext) \o p.encrypted_dek
    BY Zenon DEF MacData
<1>4. d.iv \o d.ciphertext = p.iv \o p.ciphertext /\ d.encrypted_dek = p.encrypted_dek
    <2> DEFINE s == d.iv \o d.ciphertext
               u == p.iv \o p.ciphertext
    <2> HIDE DEF s, u
    <2>1. s \in Seq(Byte) /\ u \in Seq(Byte) /\ Len(s) = Len(u) /\ s \o d.encrypted_dek = u \o p.encrypted_dek
        BY <1>2, <1>3 DEF s, u
    <2>2. s = u /\ d.encrypted_dek = p.encrypted_dek
        BY <1>1, <2>1, SameParts
    <2> QED BY <2>2 DEF s, u
<1>5. d.iv = p.iv /\ d.ciphertext = p.ciphertext
    BY <1>1, <1>4, SameParts
<1> QED BY <1>4, <1>5

(* The HMAC does not match what has a byte changed. *)
LEMMA ChangesAreRefused ==
    ASSUME NEW kek, NEW p \in EncryptedPayloads, Shaped(p), HmacVerify(kek, p),
           NEW d \in BytesChanged(p)
    PROVE  d \in EncryptedPayloads /\ d.hmac[1] = p.hmac[1] /\ Decrypt(kek, d) = ValueError
<1>1. /\ p.iv \in Seq(Byte) /\ p.ciphertext \in Seq(Byte) /\ p.encrypted_dek \in Seq(Byte)
      /\ p.hmac \in Seq(Byte) \X Seq(Byte)
      /\ p = [iv |-> p.iv, ciphertext |-> p.ciphertext, encrypted_dek |-> p.encrypted_dek, hmac |-> p.hmac]
    BY DEF EncryptedPayloads
<1>2. p.hmac = <<kek, MacData(p.iv, p.ciphertext, p.encrypted_dek)>>
    BY DEF HmacVerify, HmacSign
<1>3. Len(p.iv) = 16 /\ Len(p.ciphertext) \in Nat \ {0} /\ Len(p.encrypted_dek) = 48
    BY <1>1, LenProperties DEF Shaped, BlockSize
<1>4. /\ MacData(p.iv, p.ciphertext, p.encrypted_dek) \in Seq(Byte)
      /\ MacData(p.iv, p.ciphertext, p.encrypted_dek) # << >>
    <2> DEFINE bytes == MacData(p.iv, p.ciphertext, p.encrypted_dek)
    <2> HIDE DEF bytes
    <2>1. bytes \in Seq(Byte) /\ Len(bytes) = Len(p.iv) + Len(p.ciphertext) + Len(p.encrypted_dek)
        BY SignedBytes DEF bytes
    <2>2. Len(bytes) # 0
        BY <1>3, <2>1
    <2>3. Len(<< >>) = 0
        OBVIOUS
    <2>4. bytes # << >>
        BY <2>2, <2>3
    <2> QED BY <2>1, <2>4 DEF bytes
<1>5. SUFFICES d \in EncryptedPayloads /\ d.hmac[1] = p.hmac[1] /\ ~HmacVerify(kek, d)
    BY DecryptIs, Zenon
<1>6. CASE d = [p EXCEPT !.hmac = <<p.hmac[1], << >> >>]
    <2>1. /\ d \in EncryptedPayloads /\ d.hmac = <<p.hmac[1], << >> >>
          /\ d.iv = p.iv /\ d.ciphertext = p.ciphertext /\ d.encrypted_dek = p.encrypted_dek
        BY <1>1, <1>6, EmptySeq DEF EncryptedPayloads
    <2>2. ~HmacVerify(kek, d)
        BY <1>4, <2>1 DEF HmacVerify, HmacSign
    <2> QED BY <2>1, <2>2
<1>7. CASE \E f \in {"iv", "ciphertext", "encrypted_dek"} :
              \E i \in {1, Len(p[f])} : d = [p EXCEPT ![f] = Flip(@, i)]
    <2>0. PICK f \in {"iv", "ciphertext", "encrypted_dek"} :
              \E i \in {1, Len(p[f])} : d = [p EXCEPT ![f] = Flip(@, i)]
        BY <1>7
    <2>1. PICK i \in {1, Len(p[f])} : d = [p EXCEPT ![f] = Flip(@, i)]
        BY <2>0
    <2>9. /\ p.iv \in Seq(Byte) /\ Len(p.iv) \in Nat \ {0}
          /\ p.ciphertext \in Seq(Byte) /\ Len(p.ciphertext) \in Nat \ {0}
          /\ p.encrypted_dek \in Seq(Byte) /\ Len(p.encrypted_dek) \in Nat \ {0}
        BY <1>1, <1>3
    <2>2. p[f] \in Seq(Byte) /\ i \in 1 .. Len(p[f])
        <3>1. CASE f = "iv"
            <4>1. p[f] = p.iv
                BY <1>1, <3>1
            <4>2. p[f] \in Seq(Byte) /\ Len(p[f]) \in Nat \ {0}
                BY <2>9, <4>1, Zenon
            <4> QED BY <4>2
        <3>2. CASE f = "ciphertext"
            <4>1. p[f] = p.ciphertext
                BY <1>1, <3>2
            <4>2. p[f] \in Seq(Byte) /\ Len(p[f]) \in Nat \ {0}
                BY <2>9, <4>1, Zenon
            <4> QED BY <4>2
        <3>3. CASE f = "encrypted_dek"
            <4>1. p[f] = p.encrypted_dek
                BY <1>1, <3>3
            <4>2. p[f] \in Seq(Byte) /\ Len(p[f]) \in Nat \ {0}
                BY <2>9, <4>1, Zenon
            <4> QED BY <4>2
        <3> QED BY <3>1, <3>2, <3>3
    <2>3. Flip(p[f], i) \in Seq(Byte) /\ Len(Flip(p[f], i)) = Len(p[f]) /\ Flip(p[f], i) # p[f]
        BY <2>2, FlipIs
    <2> DEFINE changed == Flip(p[f], i)
    <2>4. d = [p EXCEPT ![f] = changed]
        BY <2>1
    <2> HIDE DEF changed
    <2>5. /\ d \in EncryptedPayloads /\ d.hmac = p.hmac
          /\ Len(d.iv) = Len(p.iv) /\ Len(d.ciphertext) = Len(p.ciphertext)
          /\ d[f] # p[f]
        BY <1>1, <2>3, <2>4 DEF changed, EncryptedPayloads
    <2>6. ~(d.iv = p.iv /\ d.ciphertext = p.ciphertext /\ d.encrypted_dek = p.encrypted_dek)
        BY <2>5
    <2>7. MacData(d.iv, d.ciphertext, d.encrypted_dek) # MacData(p.iv, p.ciphertext, p.encrypted_dek)
        BY <2>5, <2>6, SameSigned
    <2>8. ~HmacVerify(kek, d)
        BY <1>2, <2>5, <2>7 DEF HmacVerify, HmacSign
    <2> QED BY <2>5, <2>8, Zenon
<1>8. \/ d = [p EXCEPT !.hmac = <<p.hmac[1], << >> >>]
      \/ \E f \in {"iv", "ciphertext", "encrypted_dek"} :
            \E i \in {1, Len(p[f])} : d = [p EXCEPT ![f] = Flip(@, i)]
    BY DEF BytesChanged
<1> QED BY <1>6, <1>7, <1>8

-----------------------------------------------------------------------------
(* Damage: the bytes are divided up among the fields in another way. *)
LEMMA DividedIs ==
    ASSUME NEW p \in EncryptedPayloads, NEW bytes \in Seq(Byte),
           NEW m \in Nat, NEW n \in Nat, m <= n, n <= Len(bytes)
    PROVE  LET d == DividedAt(p, bytes, m, n)
           IN  /\ d \in EncryptedPayloads /\ d.hmac = p.hmac
               /\ d.iv \o d.ciphertext = SubSeq(bytes, 1, n)
               /\ d.encrypted_dek = SubSeq(bytes, n + 1, Len(bytes))
               /\ Len(d.encrypted_dek) = Len(bytes) - n
<1> DEFINE iv == SubSeq(bytes, 1, m)
           ciphertext == SubSeq(bytes, m + 1, n)
           encrypted_dek == SubSeq(bytes, n + 1, Len(bytes))
           d == DividedAt(p, bytes, m, n)
<1>1. Len(bytes) \in Nat /\ bytes \in Bytes(Len(bytes))
    BY LenProperties DEF Bytes
<1>2. iv \in Seq(Byte)
    <2>1. 1 \in 1 .. Len(bytes) + 1 /\ m \in 1 - 1 .. Len(bytes)
        BY <1>1
    <2> QED BY <1>1, <2>1, SubSeqBytes DEF Bytes
<1>3. ciphertext \in Seq(Byte)
    <2>1. m + 1 \in 1 .. Len(bytes) + 1 /\ n \in m + 1 - 1 .. Len(bytes)
        BY <1>1
    <2> QED BY <1>1, <2>1, SubSeqBytes DEF Bytes
<1>4. encrypted_dek \in Seq(Byte) /\ Len(encrypted_dek) = Len(bytes) - n
    <2>1. n + 1 \in 1 .. Len(bytes) + 1 /\ Len(bytes) \in n + 1 - 1 .. Len(bytes)
        BY <1>1
    <2>2. encrypted_dek \in Bytes(Len(bytes) - (n + 1) + 1)
        BY <1>1, <2>1, SubSeqBytes
    <2>3. Len(bytes) - (n + 1) + 1 = Len(bytes) - n
        BY <1>1
    <2> HIDE DEF encrypted_dek
    <2> QED BY <2>2, <2>3 DEF Bytes
<1>5. iv \o ciphertext = SubSeq(bytes, 1, n)
    <2>1. 1 \in 1 .. Len(bytes) + 1 /\ m \in 1 - 1 .. Len(bytes) /\ n \in m .. Len(bytes)
        BY <1>1
    <2> QED BY <2>1, ConcatAdjacentSubSeq
<1> HIDE DEF iv, ciphertext, encrypted_dek
<1>6. d = [p EXCEPT !.iv = iv, !.ciphertext = ciphertext, !.encrypted_dek = encrypted_dek]
    BY Zenon DEF DividedAt, iv, ciphertext, encrypted_dek
<1>7. /\ d \in EncryptedPayloads /\ d.hmac = p.hmac
      /\ d.iv = iv /\ d.ciphertext = ciphertext /\ d.encrypted_dek = encrypted_dek
    <2> HIDE DEF d
    <2> QED BY <1>2, <1>3, <1>4, <1>6 DEF EncryptedPayloads
<1> QED BY <1>4, <1>5, <1>7 DEF encrypted_dek

LEMMA DividedOtherwise ==
    ASSUME NEW kek \in Block, NEW p \in EncryptedPayloads, Shaped(p), Decrypt(kek, p) # ValueError,
           NEW d \in Divided(p)
    PROVE  /\ d \in EncryptedPayloads /\ d.hmac[1] = p.hmac[1]
           /\ Decrypt(kek, d) \in {ValueError, Decrypt(kek, p)}
<1> DEFINE bytes == MacData(p.iv, p.ciphertext, p.encrypted_dek)
           signed == p.iv \o p.ciphertext
           end == 16 + Len(p.ciphertext)
<1>1. /\ p.iv \in Seq(Byte) /\ p.ciphertext \in Seq(Byte) /\ p.encrypted_dek \in Seq(Byte)
      /\ Len(p.iv) = 16 /\ Len(p.ciphertext) \in Nat /\ Len(p.ciphertext) >= 16
      /\ Len(p.encrypted_dek) = 48
    BY LenProperties DEF Shaped, BlockSize, EncryptedPayloads
<1>2. bytes \in Seq(Byte) /\ Len(bytes) = end + 48 /\ signed \in Seq(Byte) /\ Len(signed) = end
    BY <1>1, SignedBytes
<1>3. bytes = signed \o p.encrypted_dek
    BY DEF MacData
<1>4. PICK m \in {15, 16, 32}, n \in {end - 16, end, end + 16} : m <= n /\ d = DividedAt(p, bytes, m, n)
    <2>1. \E cut \in {15, 16, 32} \X {end - 16, end, end + 16} :
              cut[1] <= cut[2] /\ d = DividedAt(p, bytes, cut[1], cut[2])
        <3> HIDE DEF bytes
        <3> QED BY DEF Divided, BlockSize, bytes
    <2> HIDE DEF bytes, end
    <2> QED BY <2>1
<1> HIDE DEF bytes, signed
<1>5. m \in Nat /\ n \in Nat /\ m <= n /\ n <= Len(bytes)
    BY <1>1, <1>2, <1>4
<1>6. /\ d \in EncryptedPayloads /\ d.hmac = p.hmac
      /\ d.iv \o d.ciphertext = SubSeq(bytes, 1, n)
      /\ d.encrypted_dek = SubSeq(bytes, n + 1, Len(bytes))
      /\ Len(d.encrypted_dek) = Len(bytes) - n
    BY <1>2, <1>4, <1>5, DividedIs
<1>7. ASSUME n # end  PROVE Decrypt(kek, d) = ValueError
    <2>1. Len(d.encrypted_dek) = 32 \/ Len(d.encrypted_dek) = 64
        BY <1>1, <1>2, <1>4, <1>6, <1>7
    <2>2. Unwrap(kek, d) # ValueError => Len(Unwrap(kek, d)) # BlockSize
        <3> SUFFICES ASSUME Unwrap(kek, d) # ValueError  PROVE Len(Unwrap(kek, d)) # BlockSize
            OBVIOUS
        <3> DEFINE length == Len(Unwrap(kek, d))
                   wrapped == Len(d.encrypted_dek)
        <3>1. length \in wrapped - 2 * BlockSize .. wrapped - BlockSize - 1
            BY <1>6, UnwrapIs
        <3>2. wrapped = 32 \/ wrapped = 64
            BY <2>1
        <3> HIDE DEF length, wrapped
        <3>3. length # BlockSize
            BY <3>1, <3>2 DEF BlockSize
        <3> QED BY <3>3 DEF length
    <2> QED BY <2>2, DecryptIs, Zenon
<1>8. ASSUME n = end  PROVE Decrypt(kek, d) \in {ValueError, Decrypt(kek, p)}
    <2>1. SubSeq(bytes, 1, n) = signed
        <3>1. 1 \in 1 .. Len(signed) /\ Len(signed) \in 1 .. Len(signed) /\ n = Len(signed)
            BY <1>1, <1>2, <1>8
        <3>2. SubSeq(signed \o p.encrypted_dek, 1, Len(signed)) = SubSeq(signed, 1, Len(signed))
            BY <1>1, <1>2, <3>1, SubSeqOfConcat1
        <3>3. SubSeq(signed, 1, Len(signed)) = signed
            BY <1>2, SubSeqFull
        <3> QED BY <1>3, <3>1, <3>2, <3>3
    <2>2. SubSeq(bytes, n + 1, Len(bytes)) = p.encrypted_dek
        <3> DEFINE from == end + 1
                   to == end + 48
        <3>1. /\ from \in Len(signed) + 1 .. Len(signed) + Len(p.encrypted_dek)
              /\ to \in Len(signed) + 1 .. Len(signed) + Len(p.encrypted_dek)
              /\ from - Len(signed) = 1 /\ to - Len(signed) = 48
            BY <1>1, <1>2
        <3>2. n + 1 = from /\ Len(bytes) = to
            BY <1>2, <1>8
        <3> HIDE DEF from, to
        <3>3. SubSeq(signed \o p.encrypted_dek, from, to) = SubSeq(p.encrypted_dek, 1, 48)
            <4>1. SubSeq(signed \o p.encrypted_dek, from, to)
                  = SubSeq(p.encrypted_dek, from - Len(signed), to - Len(signed))
                BY <1>1, <1>2, <3>1, SubSeqOfConcat2
            <4> QED BY <3>1, <4>1
        <3>4. SubSeq(p.encrypted_dek, 1, Len(p.encrypted_dek)) = p.encrypted_dek
            BY <1>1, SubSeqFull
        <3>5. SubSeq(p.encrypted_dek, 1, 48) = p.encrypted_dek
            BY <1>1, <3>4
        <3> QED BY <1>3, <3>2, <3>3, <3>5
    <2>3. d.iv \o d.ciphertext = p.iv \o p.ciphertext /\ d.encrypted_dek = p.encrypted_dek
        BY <1>6, <2>1, <2>2 DEF signed
    <2>4. Unwrap(kek, d) = Unwrap(kek, p)
        BY <2>3, Zenon DEF Unwrap
    <2>5. CASE HmacVerify(kek, d)
        <3>1. Decrypt(kek, d) = Decrypt(kek, p)
            BY <2>3, <2>4, <2>5, DecryptIs, Zenon
        <3> QED BY <3>1
    <2>6. CASE ~HmacVerify(kek, d)
        <3>1. Decrypt(kek, d) = ValueError
            BY <2>6, DecryptIs, Zenon
        <3> QED BY <3>1
    <2> QED BY <2>5, <2>6
<1> QED BY <1>6, <1>7, <1>8

(* A payload that has the first or the last byte of a field changed or its HMAC
   replaced, or the cuts between its fields moved by a block or a byte (that is
   DamagedTo), is refused or decrypted to the same. *)
THEOREM DamageIsFound ==
    ASSUME NEW kek \in Block, NEW p \in EncryptedPayloads, Shaped(p), Decrypt(kek, p) # ValueError,
           NEW d \in DamagedTo(p)
    PROVE  /\ d \in EncryptedPayloads /\ d.hmac[1] = kek
           /\ Decrypt(kek, d) \in {ValueError, Decrypt(kek, p)}
<1>1. HmacVerify(kek, p)
    BY DecryptIs, Zenon
<1>2. p.hmac[1] = kek
    BY <1>1 DEF HmacVerify, HmacSign
<1>3. d \in BytesChanged(p) \/ d \in Divided(p)
    BY Zenon DEF DamagedTo
<1>4. CASE d \in BytesChanged(p)
    <2>1. d \in EncryptedPayloads /\ d.hmac[1] = p.hmac[1] /\ Decrypt(kek, d) = ValueError
        BY <1>1, <1>4, ChangesAreRefused
    <2> QED BY <1>2, <2>1
<1>5. CASE d \in Divided(p)
    <2>1. /\ d \in EncryptedPayloads /\ d.hmac[1] = p.hmac[1]
          /\ Decrypt(kek, d) \in {ValueError, Decrypt(kek, p)}
        BY <1>5, DividedOtherwise
    <2> QED BY <1>2, <2>1
<1> QED BY <1>3, <1>4, <1>5

-----------------------------------------------------------------------------
(* All that can be stored: what is made from the first master key on. *)
Accumulates(f, n, A) ==
    f = [i \in 1 .. n |-> A[i] \cup IF i = 1 THEN {} ELSE RewrapAll(i - 1, f[i - 1])]

LEMMA Accumulation ==
    ASSUME NEW n \in Nat, NEW A, NEW U, \A i \in 1 .. n : A[i] \subseteq U[i],
           \A i \in 1 .. n - 1 : \A X \in SUBSET U[i] : RewrapAll(i, X) \subseteq U[i + 1]
    PROVE  \E f : Accumulates(f, n, A)
<1> DEFINE S == [i \in 0 .. n |-> IF i = 0 THEN SUBSET {} ELSE SUBSET U[i]]
           next(i, X) == A[i] \cup IF i = 1 THEN {} ELSE RewrapAll(i - 1, X)
           step == [i \in 1 .. n |-> [X \in S[i - 1] |-> next(i, X)]]
<1>1. {} \in S[0]
    OBVIOUS
<1>2. \A i \in 1 .. n : step[i] \in [S[i - 1] -> S[i]]
    <2> SUFFICES ASSUME NEW i \in 1 .. n, NEW X \in S[i - 1]  PROVE next(i, X) \in S[i]
        <3> HIDE DEF S, next
        <3> QED OBVIOUS
    <2>1. S[i] = SUBSET U[i]
        OBVIOUS
    <2>2. CASE i = 1
        BY <2>1, <2>2
    <2>3. CASE i # 1
        <3>1. i - 1 \in 1 .. n - 1 /\ i - 1 + 1 = i /\ i - 1 \in 0 .. n
            BY <2>3
        <3>2. X \in SUBSET U[i - 1]
            BY <3>1
        <3>3. RewrapAll(i - 1, X) \subseteq U[i]
            BY <3>1, <3>2
        <3> QED BY <2>1, <2>3, <3>3
    <2> QED BY <2>2, <2>3
<1>3. PICK g : Iterates(g, n, S, {}, step)
    <2> HIDE DEF S, step
    <2> QED BY <1>1, <1>2, Iteration
<1> DEFINE f == [i \in 1 .. n |-> g[i]]
<1>4. \A i \in 1 .. n : f[i] = A[i] \cup IF i = 1 THEN {} ELSE RewrapAll(i - 1, f[i - 1])
    <2> SUFFICES ASSUME NEW i \in 1 .. n
                 PROVE  f[i] = A[i] \cup IF i = 1 THEN {} ELSE RewrapAll(i - 1, f[i - 1])
        OBVIOUS
    <2>1. i \in 0 .. n /\ i # 0 /\ i - 1 \in 0 .. n /\ (i # 1 => i - 1 \in 1 .. n)
        OBVIOUS
    <2>2. g[i] = step[i][g[i - 1]] /\ g[i - 1] \in S[i - 1]
        BY <1>3, <2>1 DEF Iterates
    <2>3. g[i] = next(i, g[i - 1])
        <3> HIDE DEF next, S
        <3> QED BY <2>2
    <2> QED BY <2>1, <2>3
<1>5. f = [i \in 1 .. n |-> f[i]]
    OBVIOUS
<1> HIDE DEF f
<1>6. Accumulates(f, n, A)
    BY <1>4, <1>5 DEF Accumulates
<1> QED BY <1>6

LEMMA AccumulatedIn ==
    ASSUME NEW n \in Nat, NEW A, NEW U, \A i \in 1 .. n : A[i] \subseteq U[i],
           \A i \in 1 .. n - 1 : \A X \in SUBSET U[i] : RewrapAll(i, X) \subseteq U[i + 1],
           NEW f, Accumulates(f, n, A)
    PROVE  \A i \in 1 .. n : f[i] \subseteq U[i]
<1> DEFINE Done == {i \in 0 .. n : i # 0 => f[i] \subseteq U[i]}
<1>1. 0 \in Done
    OBVIOUS
<1>2. ASSUME NEW i \in 1 .. n, i - 1 \in Done  PROVE i \in Done
    <2>1. f[i] = A[i] \cup IF i = 1 THEN {} ELSE RewrapAll(i - 1, f[i - 1])
        BY DEF Accumulates
    <2>2. A[i] \subseteq U[i]
        OBVIOUS
    <2>3. i # 1 => RewrapAll(i - 1, f[i - 1]) \subseteq U[i]
        <3> SUFFICES ASSUME i # 1  PROVE RewrapAll(i - 1, f[i - 1]) \subseteq U[i]
            OBVIOUS
        <3>1. i - 1 \in 1 .. n - 1 /\ i - 1 + 1 = i /\ f[i - 1] \in SUBSET U[i - 1]
            BY <1>2
        <3> QED BY <3>1
    <2>4. f[i] \subseteq U[i]
        BY <2>1, <2>2, <2>3
    <2> QED BY <2>4
<1>3. 0 .. n \subseteq Done
    <2> HIDE DEF Done
    <2> QED BY <1>1, <1>2, UpTo
<1> QED BY <1>3

(* What is under the i-th master key: as the envelope made it, or in whatever state. *)
SoundUnder(i) ==
    {p \in EncryptedPayloads :
        p.hmac[1] = MasterKeys[i] /\ Shaped(p) /\ Decrypt(MasterKeys[i], p) \in Plaintexts}

KnownUnder(i) ==
    {p \in EncryptedPayloads :
        p.hmac[1] = MasterKeys[i] /\ Decrypt(MasterKeys[i], p) \in Plaintexts \cup {ValueError}}

LEMMA Drawn ==
    /\ \A i \in KekNumbers : MasterKeys[i] \in Block
    /\ \A i \in 1 .. Len(MasterKeys) - 1 : DrawnToWrap[i] \in Block
    /\ \A n \in SaveNumbers :
          DrawnToSave[n].dek \in Block /\ DrawnToSave[n].iv \in Block /\ DrawnToSave[n].dek_iv \in Block
    /\ Plaintexts \subseteq Seq(Byte) /\ ValueError \notin Plaintexts
    /\ Len(MasterKeys) \in Nat
BY DrawnAssumption DEF IsBlock, Block, Bytes

LEMMA RewrapAllKeeps ==
    ASSUME NEW i \in 1 .. Len(MasterKeys) - 1
    PROVE  /\ \A X \in SUBSET SoundUnder(i) : RewrapAll(i, X) \subseteq SoundUnder(i + 1)
           /\ \A X \in SUBSET KnownUnder(i) : RewrapAll(i, X) \subseteq KnownUnder(i + 1)
<1> DEFINE kek == MasterKeys[i]
           new == MasterKeys[i + 1]
           q(p) == Rewrap(kek, new, p, DrawnToWrap[i])
<1>1. kek \in Block /\ new \in Block /\ DrawnToWrap[i] \in Block
    BY Drawn DEF KekNumbers
<1> HIDE DEF kek, new
<1>2. ASSUME NEW p \in EncryptedPayloads, q(p) # ValueError
      PROVE  /\ q(p) \in EncryptedPayloads /\ q(p).hmac[1] = new
             /\ Decrypt(new, q(p)) = Decrypt(kek, p)
             /\ Shaped(p) /\ Decrypt(kek, p) # ValueError => Shaped(q(p))
    BY <1>1, <1>2, RewrapKeepsMeaning
<1>3. \A X : RewrapAll(i, X) = {q(p) : p \in X} \ {ValueError}
    BY Zenon DEF RewrapAll, kek, new
<1> HIDE DEF q
<1>4. ASSUME NEW p \in SoundUnder(i), q(p) # ValueError  PROVE q(p) \in SoundUnder(i + 1)
    <2>1. p \in EncryptedPayloads /\ Shaped(p) /\ Decrypt(kek, p) \in Plaintexts
        BY Zenon DEF SoundUnder, kek
    <2>2. Decrypt(kek, p) # ValueError
        BY <2>1, Drawn, Zenon
    <2>3. /\ q(p) \in EncryptedPayloads /\ q(p).hmac[1] = new /\ Shaped(q(p))
          /\ Decrypt(new, q(p)) \in Plaintexts
        BY <1>2, <1>4, <2>1, <2>2, Zenon
    <2> QED BY <2>3, Zenon DEF SoundUnder, new
<1>5. ASSUME NEW p \in KnownUnder(i), q(p) # ValueError  PROVE q(p) \in KnownUnder(i + 1)
    <2>1. p \in EncryptedPayloads /\ Decrypt(kek, p) \in Plaintexts \cup {ValueError}
        BY Zenon DEF KnownUnder, kek
    <2>2. /\ q(p) \in EncryptedPayloads /\ q(p).hmac[1] = new
          /\ Decrypt(new, q(p)) \in Plaintexts \cup {ValueError}
        BY <1>2, <1>5, <2>1, Zenon
    <2> QED BY <2>2, Zenon DEF KnownUnder, new
<1>6. ASSUME NEW X \in SUBSET SoundUnder(i)  PROVE RewrapAll(i, X) \subseteq SoundUnder(i + 1)
    <2> SUFFICES ASSUME NEW r \in RewrapAll(i, X)  PROVE r \in SoundUnder(i + 1)
        BY Zenon
    <2>0. RewrapAll(i, X) = {q(p) : p \in X} \ {ValueError}
        BY <1>3, Zenon
    <2>1. PICK p \in X : r = q(p)
        BY <2>0
    <2>2. r # ValueError
        BY <2>0
    <2>3. p \in SoundUnder(i)
        BY Zenon
    <2> QED BY <1>4, <2>1, <2>2, <2>3, Zenon
<1>7. ASSUME NEW X \in SUBSET KnownUnder(i)  PROVE RewrapAll(i, X) \subseteq KnownUnder(i + 1)
    <2> SUFFICES ASSUME NEW r \in RewrapAll(i, X)  PROVE r \in KnownUnder(i + 1)
        BY Zenon
    <2>0. RewrapAll(i, X) = {q(p) : p \in X} \ {ValueError}
        BY <1>3, Zenon
    <2>1. PICK p \in X : r = q(p)
        BY <2>0
    <2>2. r # ValueError
        BY <2>0
    <2>3. p \in KnownUnder(i)
        BY Zenon
    <2> QED BY <1>5, <2>1, <2>2, <2>3, Zenon
<1> QED BY <1>6, <1>7

LEMMA SoundIs ==
    /\ Sound = [i \in KekNumbers |->
                   AllEncrypted(i) \cup IF i = 1 THEN {} ELSE RewrapAll(i - 1, Sound[i - 1])]
    /\ \A i \in KekNumbers : Sound[i] \subseteq SoundUnder(i)
<1> DEFINE new(i) == AllEncrypted(i)
           A == [i \in KekNumbers |-> new(i)]
           U == [i \in KekNumbers |-> SoundUnder(i)]
           last == Len(MasterKeys)
<1>1. last \in Nat /\ KekNumbers = 1 .. last
    BY Drawn DEF KekNumbers
<1>2. \A i \in KekNumbers : new(i) \subseteq SoundUnder(i)
    <2> SUFFICES ASSUME NEW i \in KekNumbers, NEW n \in SaveNumbers, NEW t \in Plaintexts
                 PROVE  EncryptTable[n][i][t] \in SoundUnder(i)
        BY DEF AllEncrypted
    <2>1. EncryptTable[n][i][t] = Encrypt(MasterKeys[i], t, DrawnToSave[n])
        BY DEF EncryptTable
    <2>2. /\ MasterKeys[i] \in Block /\ t \in Seq(Byte)
          /\ DrawnToSave[n].dek \in Block /\ DrawnToSave[n].iv \in Block /\ DrawnToSave[n].dek_iv \in Block
        BY Drawn
    <2> DEFINE p == Encrypt(MasterKeys[i], t, DrawnToSave[n])
    <2>3. p \in EncryptedPayloads /\ p.hmac[1] = MasterKeys[i] /\ Shaped(p) /\ Decrypt(MasterKeys[i], p) = t
        BY <2>2, EnvelopeInverts
    <2> HIDE DEF p
    <2>4. p \in SoundUnder(i)
        BY <2>3, Zenon DEF SoundUnder
    <2> QED BY <2>1, <2>4 DEF p
<1> HIDE DEF new
<1>3. /\ \A i \in 1 .. last : A[i] \subseteq U[i]
      /\ \A i \in 1 .. last - 1 : \A X \in SUBSET U[i] : RewrapAll(i, X) \subseteq U[i + 1]
    <2>1. \A i \in 1 .. last - 1 : i \in KekNumbers /\ i + 1 \in KekNumbers
        BY <1>1
    <2>2. \A i \in 1 .. last - 1 : \A X \in SUBSET SoundUnder(i) : RewrapAll(i, X) \subseteq SoundUnder(i + 1)
        BY RewrapAllKeeps
    <2> HIDE DEF last
    <2> QED BY <1>1, <1>2, <2>1, <2>2
<1>4. \A f : Accumulates(f, last, A) <=>
             f = [i \in KekNumbers |-> new(i) \cup IF i = 1 THEN {} ELSE RewrapAll(i - 1, f[i - 1])]
    <2> HIDE DEF last
    <2> QED BY <1>1 DEF Accumulates
<1> HIDE DEF A, U
<1>5. \E f : Accumulates(f, last, A)
    BY <1>1, <1>3, Accumulation
<1>6. \E f : f = [i \in KekNumbers |-> new(i) \cup IF i = 1 THEN {} ELSE RewrapAll(i - 1, f[i - 1])]
    BY <1>4, <1>5, Zenon
<1>7. Sound = [i \in KekNumbers |-> new(i) \cup IF i = 1 THEN {} ELSE RewrapAll(i - 1, Sound[i - 1])]
    <2> DEFINE Is(f) ==
            f = [i \in KekNumbers |-> new(i) \cup IF i = 1 THEN {} ELSE RewrapAll(i - 1, f[i - 1])]
    <2>1. Sound = CHOOSE f : Is(f)
        BY Zenon DEF Sound, new
    <2>2. \E f : Is(f)
        BY <1>6, Zenon
    <2> HIDE DEF Is
    <2>3. Is(Sound)
        BY <2>1, <2>2, Zenon
    <2> QED BY <2>3, Zenon DEF Is
<1>8. Accumulates(Sound, last, A)
    BY <1>4, <1>7, Zenon
<1>9. \A i \in 1 .. last : Sound[i] \subseteq U[i]
    BY <1>1, <1>3, <1>8, AccumulatedIn
<1> QED BY <1>1, <1>7, <1>9 DEF U, new

LEMMA UnsoundIs ==
    /\ Unsound = [i \in KekNumbers |->
                     (UNION {DamagedTo(p) : p \in Sound[i]})
                     \cup IF i = 1 THEN {} ELSE RewrapAll(i - 1, Unsound[i - 1])]
    /\ \A i \in KekNumbers : Unsound[i] \subseteq KnownUnder(i)
<1> DEFINE new(i) == UNION {DamagedTo(p) : p \in Sound[i]}
           A == [i \in KekNumbers |-> new(i)]
           U == [i \in KekNumbers |-> KnownUnder(i)]
           last == Len(MasterKeys)
<1>1. last \in Nat /\ KekNumbers = 1 .. last
    BY Drawn DEF KekNumbers
<1>2. \A i \in KekNumbers : new(i) \subseteq KnownUnder(i)
    <2> SUFFICES ASSUME NEW i \in KekNumbers, NEW p \in Sound[i], NEW d \in DamagedTo(p)
                 PROVE  d \in KnownUnder(i)
        BY Zenon
    <2>1. p \in SoundUnder(i)
        BY SoundIs
    <2>2. p \in EncryptedPayloads /\ Shaped(p) /\ Decrypt(MasterKeys[i], p) \in Plaintexts
        BY <2>1, Zenon DEF SoundUnder
    <2>3. MasterKeys[i] \in Block /\ Decrypt(MasterKeys[i], p) # ValueError
        BY <2>2, Drawn, Zenon
    <2>4. /\ d \in EncryptedPayloads /\ d.hmac[1] = MasterKeys[i]
          /\ Decrypt(MasterKeys[i], d) \in {ValueError, Decrypt(MasterKeys[i], p)}
        BY <2>2, <2>3, DamageIsFound
    <2>5. Decrypt(MasterKeys[i], d) \in Plaintexts \cup {ValueError}
        BY <2>2, <2>4
    <2> QED BY <2>4, <2>5, Zenon DEF KnownUnder
<1> HIDE DEF new
<1>3. /\ \A i \in 1 .. last : A[i] \subseteq U[i]
      /\ \A i \in 1 .. last - 1 : \A X \in SUBSET U[i] : RewrapAll(i, X) \subseteq U[i + 1]
    <2>1. \A i \in 1 .. last - 1 : i \in KekNumbers /\ i + 1 \in KekNumbers
        BY <1>1
    <2>2. \A i \in 1 .. last - 1 : \A X \in SUBSET KnownUnder(i) : RewrapAll(i, X) \subseteq KnownUnder(i + 1)
        BY RewrapAllKeeps
    <2> HIDE DEF last
    <2> QED BY <1>1, <1>2, <2>1, <2>2
<1>4. \A f : Accumulates(f, last, A) <=>
             f = [i \in KekNumbers |-> new(i) \cup IF i = 1 THEN {} ELSE RewrapAll(i - 1, f[i - 1])]
    <2> HIDE DEF last
    <2> QED BY <1>1 DEF Accumulates
<1> HIDE DEF A, U
<1>5. \E f : Accumulates(f, last, A)
    BY <1>1, <1>3, Accumulation
<1>6. \E f : f = [i \in KekNumbers |-> new(i) \cup IF i = 1 THEN {} ELSE RewrapAll(i - 1, f[i - 1])]
    BY <1>4, <1>5, Zenon
<1>7. Unsound = [i \in KekNumbers |-> new(i) \cup IF i = 1 THEN {} ELSE RewrapAll(i - 1, Unsound[i - 1])]
    <2> DEFINE Is(f) ==
            f = [i \in KekNumbers |-> new(i) \cup IF i = 1 THEN {} ELSE RewrapAll(i - 1, f[i - 1])]
    <2>1. Unsound = CHOOSE f : Is(f)
        BY Zenon DEF Unsound, new
    <2>2. \E f : Is(f)
        BY <1>6, Zenon
    <2> HIDE DEF Is
    <2>3. Is(Unsound)
        BY <2>1, <2>2, Zenon
    <2> QED BY <2>3, Zenon DEF Is
<1>8. Accumulates(Unsound, last, A)
    BY <1>4, <1>7, Zenon
<1>9. \A i \in 1 .. last : Unsound[i] \subseteq U[i]
    BY <1>1, <1>3, <1>8, AccumulatedIn
<1> QED BY <1>1, <1>7, <1>9 DEF U, new

-----------------------------------------------------------------------------
(* The constants of AtRest, as module Payloads computes them. *)
EnvelopeTables ==
    /\ Texts = Plaintexts /\ Saves = SaveNumbers /\ Keks = KekNumbers
    /\ Encrypted = EncryptTable
    /\ SoundPayloads = AllSound /\ Payloads = AllPayloads
    /\ Damaged = DamageTable
    /\ Decrypted = DecryptTable /\ Rewrapped = RewrapTable
    /\ Refused = ValueError

LEMMA StoredUnder ==
    ASSUME NEW p \in AllPayloads
    PROVE  \E j \in KekNumbers : p \in KnownUnder(j) /\ (p \in Sound[j] \/ p \in Unsound[j])
<1>1. PICK j \in KekNumbers : p \in Sound[j] \/ p \in Unsound[j]
    BY DEF AllPayloads, AllSound
<1>2. CASE p \in Sound[j]
    <2>1. p \in SoundUnder(j)
        BY <1>2, SoundIs
    <2> QED BY <1>2, <2>1, Zenon DEF SoundUnder, KnownUnder
<1>3. CASE p \in Unsound[j]
    BY <1>3, UnsoundIs
<1> QED BY <1>1, <1>2, <1>3

LEMMA ReadUnder ==
    ASSUME NEW j \in KekNumbers, NEW p \in KnownUnder(j)
    PROVE  /\ p \in EncryptedPayloads
           /\ Decrypt(MasterKeys[j], p) \in Plaintexts \cup {ValueError}
           /\ \A i \in KekNumbers \ {j} :
                 /\ Decrypt(MasterKeys[i], p) = ValueError
                 /\ \A new, dek_iv : Rewrap(MasterKeys[i], new, p, dek_iv) = ValueError
<1>1. /\ p \in EncryptedPayloads /\ p.hmac[1] = MasterKeys[j]
      /\ Decrypt(MasterKeys[j], p) \in Plaintexts \cup {ValueError}
    BY Zenon DEF KnownUnder
<1>2. ASSUME NEW i \in KekNumbers \ {j}  PROVE p.hmac[1] # MasterKeys[i]
    BY <1>1, DrawnAssumption
<1> QED BY <1>1, <1>2, OtherKeysRefuse, Zenon

(* What a change of the master key makes of what can be stored can be stored. *)
LEMMA RewrappedStored ==
    ASSUME NEW j \in KekNumbers, j + 1 \in KekNumbers, NEW p,
           p \in Sound[j] \/ p \in Unsound[j],
           Rewrap(MasterKeys[j], MasterKeys[j + 1], p, DrawnToWrap[j]) # ValueError
    PROVE  LET q == Rewrap(MasterKeys[j], MasterKeys[j + 1], p, DrawnToWrap[j])
           IN  q \in AllPayloads /\ q \in KnownUnder(j + 1)
<1> DEFINE i == j + 1
           q == Rewrap(MasterKeys[j], MasterKeys[i], p, DrawnToWrap[j])
<1>1. i \in KekNumbers /\ i # 1 /\ i - 1 = j
    BY DEF KekNumbers
<1>2. \A X : p \in X => q \in RewrapAll(j, X)
    BY Zenon DEF RewrapAll
<1> HIDE DEF i, q
<1>3. CASE p \in Sound[j]
    <2>1. Sound[i] = AllEncrypted(i) \cup RewrapAll(j, Sound[j])
        BY <1>1, SoundIs
    <2>2. q \in Sound[i]
        BY <1>2, <1>3, <2>1
    <2>3. q \in AllPayloads
        BY <1>1, <2>2 DEF AllPayloads, AllSound
    <2>4. q \in SoundUnder(i)
        BY <1>1, <2>2, SoundIs
    <2>5. q \in KnownUnder(i)
        BY <2>4, Zenon DEF SoundUnder, KnownUnder
    <2> QED BY <2>3, <2>5 DEF i, q
<1>4. CASE p \in Unsound[j]
    <2>1. Unsound[i] = (UNION {DamagedTo(s) : s \in Sound[i]}) \cup RewrapAll(j, Unsound[j])
        BY <1>1, UnsoundIs
    <2>2. q \in Unsound[i]
        BY <1>2, <1>4, <2>1
    <2>3. q \in AllPayloads
        BY <1>1, <2>2 DEF AllPayloads
    <2>4. q \in KnownUnder(i)
        BY <1>1, <2>2, UnsoundIs
    <2> QED BY <2>3, <2>4 DEF i, q
<1> QED BY <1>3, <1>4

LEMMA DamagedStored ==
    ASSUME NEW p \in AllSound, NEW d \in DamagedTo(p)
    PROVE  /\ p \in AllPayloads /\ d \in AllPayloads
           /\ \A i \in KekNumbers :
                 Decrypt(MasterKeys[i], d) \in {ValueError, Decrypt(MasterKeys[i], p)}
<1>1. PICK j \in KekNumbers : p \in Sound[j]
    BY DEF AllSound
<1>2. p \in EncryptedPayloads /\ Shaped(p) /\ Decrypt(MasterKeys[j], p) \in Plaintexts
    <2>1. p \in SoundUnder(j)
        BY <1>1, SoundIs
    <2> QED BY <2>1, Zenon DEF SoundUnder
<1>3. MasterKeys[j] \in Block /\ Decrypt(MasterKeys[j], p) # ValueError
    BY <1>2, Drawn, Zenon
<1>4. Decrypt(MasterKeys[j], d) \in {ValueError, Decrypt(MasterKeys[j], p)}
    BY <1>2, <1>3, DamageIsFound
<1>5. d \in Unsound[j]
    <2>1. \/ Unsound[j] = (UNION {DamagedTo(s) : s \in Sound[j]}) \cup {}
          \/ Unsound[j] = (UNION {DamagedTo(s) : s \in Sound[j]}) \cup RewrapAll(j - 1, Unsound[j - 1])
        BY UnsoundIs
    <2> QED BY <1>1, <2>1
<1>6. p \in AllPayloads /\ d \in AllPayloads
    BY <1>5 DEF AllPayloads
<1>7. d \in KnownUnder(j)
    BY <1>5, UnsoundIs
<1>8. \A i \in KekNumbers \ {j} : Decrypt(MasterKeys[i], d) = ValueError
    BY <1>7, ReadUnder, Zenon
<1> QED BY <1>4, <1>6, <1>8

LEMMA TablesHandleSoundly ==
    ASSUME EnvelopeTables, NEW p \in Payloads
    PROVE  SoundFor(p)
<1>1. p \in AllPayloads /\ Keks = KekNumbers /\ Refused = ValueError /\ Texts = Plaintexts
      /\ SoundPayloads = AllSound /\ Payloads = AllPayloads
    BY DEF EnvelopeTables
<1>2. \A r \in AllPayloads, i \in KekNumbers : Decrypted[i][r] = Decrypt(MasterKeys[i], r)
    BY DEF EnvelopeTables, DecryptTable
<1>3. PICK j \in KekNumbers : p \in KnownUnder(j) /\ (p \in Sound[j] \/ p \in Unsound[j])
    BY <1>1, StoredUnder
<1>4. /\ Decrypt(MasterKeys[j], p) \in Plaintexts \cup {ValueError}
      /\ \A i \in KekNumbers \ {j} :
            /\ Decrypt(MasterKeys[i], p) = ValueError
            /\ \A new, dek_iv : Rewrap(MasterKeys[i], new, p, dek_iv) = ValueError
    BY <1>3, ReadUnder, Zenon
<1>5. ASSUME NEW i \in Keks
      PROVE  /\ Decrypted[i][p] \in Texts \cup {Refused}
             /\ Decrypted[i][p] # Refused => \A k \in Keks \ {i} : Decrypted[k][p] = Refused
    BY <1>1, <1>2, <1>4
<1>6. ASSUME p \in SoundPayloads, NEW d \in Damaged[p]
      PROVE  /\ d \in Payloads
             /\ \A i \in Keks : Decrypted[i][d] \in {Refused, Decrypted[i][p]}
    <2>1. p \in AllSound /\ d \in DamagedTo(p)
        BY <1>6 DEF EnvelopeTables, DamageTable
    <2>2. /\ d \in AllPayloads
          /\ \A i \in KekNumbers :
                Decrypt(MasterKeys[i], d) \in {ValueError, Decrypt(MasterKeys[i], p)}
        BY <2>1, DamagedStored
    <2> QED BY <1>1, <1>2, <2>2
<1>7. ASSUME NEW i \in Keks, i + 1 \in Keks, Rewrapped[i][p] # Refused
      PROVE  /\ Rewrapped[i][p] \in Payloads
             /\ Decrypted[i + 1][Rewrapped[i][p]] = Decrypted[i][p]
             /\ \A k \in Keks \ {i + 1} : Decrypted[k][Rewrapped[i][p]] = Refused
             /\ \A k \in Keks \ {i} : Decrypted[k][p] = Refused
    <2> DEFINE q == Rewrap(MasterKeys[i], MasterKeys[i + 1], p, DrawnToWrap[i])
               next == i + 1
    <2>1. i \in KekNumbers /\ next \in KekNumbers /\ i \in 1 .. Len(MasterKeys) - 1
        BY <1>1, <1>7, Drawn DEF KekNumbers
    <2>2. Rewrapped[i][p] = q
        BY <1>1, <2>1, DrawnAssumption DEF EnvelopeTables, RewrapTable
    <2>3. q # ValueError
        BY <1>1, <1>7, <2>2
    <2>4. i = j
        <3> HIDE DEF next
        <3> QED BY <1>4, <2>1, <2>3, Zenon
    <2>5. q \in AllPayloads /\ q \in KnownUnder(next)
        BY <1>3, <2>1, <2>3, <2>4, RewrappedStored
    <2>6. Decrypt(MasterKeys[next], q) = Decrypt(MasterKeys[i], p)
        <3>1. p \in EncryptedPayloads
            BY <1>3, ReadUnder, Zenon
        <3>2. MasterKeys[i] \in Block /\ MasterKeys[next] \in Block /\ DrawnToWrap[i] \in Block
            BY <2>1, Drawn
        <3> QED BY <2>3, <3>1, <3>2, RewrapKeepsMeaning
    <2> HIDE DEF q, next
    <2>7. \A k \in KekNumbers \ {next} : Decrypt(MasterKeys[k], q) = ValueError
        BY <2>1, <2>5, ReadUnder, Zenon
    <2>8. /\ Decrypted[next][q] = Decrypted[i][p]
          /\ \A k \in Keks \ {next} : Decrypted[k][q] = Refused
          /\ \A k \in Keks \ {i} : Decrypted[k][p] = Refused
        BY <1>1, <1>2, <1>4, <2>1, <2>4, <2>5, <2>6, <2>7
    <2> QED BY <1>1, <2>2, <2>5, <2>8 DEF next
<1> QED BY <1>5, <1>6, <1>7, Zenon DEF SoundFor

(* EnvelopeSound. *)
THEOREM EnvelopeIsSound == ASSUME EnvelopeTables PROVE EnvelopeSound
<1>1. ASSUME NEW n \in Saves, NEW i \in Keks, NEW t \in Texts
      PROVE  Encrypted[n][i][t] \in SoundPayloads /\ Decrypted[i][Encrypted[n][i][t]] = t
    <2>1. n \in SaveNumbers /\ i \in KekNumbers /\ t \in Plaintexts
        BY DEF EnvelopeTables
    <2> DEFINE p == Encrypt(MasterKeys[i], t, DrawnToSave[n])
    <2>2. Encrypted[n][i][t] = p /\ EncryptTable[n][i][t] = p
        BY <2>1 DEF EnvelopeTables, EncryptTable
    <2>3. p \in AllEncrypted(i)
        BY <2>1, <2>2 DEF AllEncrypted
    <2> HIDE DEF p
    <2>4. p \in Sound[i]
        <3>1. \/ Sound[i] = AllEncrypted(i) \cup {}
              \/ Sound[i] = AllEncrypted(i) \cup RewrapAll(i - 1, Sound[i - 1])
            BY <2>1, SoundIs
        <3> QED BY <2>3, <3>1
    <2>5. p \in AllSound /\ p \in AllPayloads
        BY <2>1, <2>4 DEF AllSound, AllPayloads
    <2>6. Decrypt(MasterKeys[i], p) = t
        <3>1. /\ MasterKeys[i] \in Block /\ t \in Seq(Byte)
              /\ DrawnToSave[n].dek \in Block /\ DrawnToSave[n].iv \in Block /\ DrawnToSave[n].dek_iv \in Block
            BY <2>1, Drawn
        <3> QED BY <3>1, EnvelopeInverts DEF p
    <2>7. Decrypted[i][p] = t
        BY <2>1, <2>5, <2>6 DEF EnvelopeTables, DecryptTable
    <2> QED BY <2>2, <2>5, <2>7 DEF EnvelopeTables
<1>2. SoundPayloads \subseteq Payloads
    BY DEF EnvelopeTables, AllPayloads
<1>3. Payloads \subseteq HandledSoundly
    BY TablesHandleSoundly DEF HandledSoundly
<1> QED BY <1>1, <1>2, <1>3 DEF EnvelopeSound

-----------------------------------------------------------------------------
(* The store. *)
USE StoreAssumption

-----------------------------------------------------------------------------
(* p can be read with no key but the i-th. *)
OnlyUnder(p, i) == \A j \in Keks \ {i} : Decrypted[j][p] = Refused

(* While a rotation is put back: what is left to do is under the key in use,
   what was done is under the new one. *)
RotationInv ==
    Rotating =>
        /\ keyInUse + 1 \in Keks
        /\ pending \in UNION {[ks -> Payloads] : ks \in SUBSET StoreKeys}
        /\ \A k \in StoreKeys :
              IF k \in DOMAIN pending
              THEN /\ store[k] \in Payloads
                   /\ Rewrapped[keyInUse][store[k]] # Refused
                   /\ pending[k] = Rewrapped[keyInUse][store[k]]
              ELSE store[k] \in Payloads => OnlyUnder(store[k], keyInUse + 1)

Inv == TypeOK /\ OnlyKeyInUseReads /\ RotationInv

-----------------------------------------------------------------------------
(* What EnvelopeSound says of one payload. *)
LEMMA Reading ==
    ASSUME EnvelopeSound, NEW p \in Payloads, NEW i \in Keks
    PROVE  /\ Decrypted[i][p] \in Texts \cup {Refused}
           /\ Decrypted[i][p] # Refused => OnlyUnder(p, i)
BY DEF EnvelopeSound, HandledSoundly, SoundFor, OnlyUnder

LEMMA Rewrapping ==
    ASSUME EnvelopeSound, NEW p \in Payloads, NEW i \in Keks, i + 1 \in Keks,
           Rewrapped[i][p] # Refused
    PROVE  /\ Rewrapped[i][p] \in Payloads
           /\ Decrypted[i + 1][Rewrapped[i][p]] = Decrypted[i][p]
           /\ OnlyUnder(Rewrapped[i][p], i + 1)
           /\ OnlyUnder(p, i)
BY DEF EnvelopeSound, HandledSoundly, SoundFor, OnlyUnder

LEMMA Saving ==
    ASSUME EnvelopeSound, NEW n \in Saves, NEW i \in Keks, NEW t \in Texts
    PROVE  /\ Encrypted[n][i][t] \in Payloads
           /\ Decrypted[i][Encrypted[n][i][t]] = t
           /\ OnlyUnder(Encrypted[n][i][t], i)
<1>1. Encrypted[n][i][t] \in Payloads /\ Decrypted[i][Encrypted[n][i][t]] = t
    BY DEF EnvelopeSound
<1> QED BY <1>1, Reading

LEMMA Damaging ==
    ASSUME EnvelopeSound, NEW p \in SoundPayloads, NEW damaged \in Damaged[p]
    PROVE  /\ p \in Payloads /\ damaged \in Payloads
           /\ \A i \in Keks : Decrypted[i][damaged] \in {Refused, Decrypted[i][p]}
BY DEF EnvelopeSound, HandledSoundly, SoundFor

(* The meaning of a payload is what the one key that can read it makes of it. *)
LEMMA MeaningUnder ==
    ASSUME EnvelopeSound, NEW p \in Payloads, NEW i \in Keks, OnlyUnder(p, i)
    PROVE  Meaning(p) = IF Decrypted[i][p] = Refused THEN Lost ELSE Decrypted[i][p]
<1> DEFINE texts == {Decrypted[j][p] : j \in Keks} \ {Refused}
<1>1. texts = {Decrypted[i][p]} \ {Refused}
    BY DEF OnlyUnder
<1>2. Meaning(p) = IF texts = {} THEN Lost ELSE CHOOSE t \in texts : TRUE
    BY DEF Meaning
<1>3. CASE Decrypted[i][p] = Refused
    BY <1>1, <1>2, <1>3
<1>4. CASE Decrypted[i][p] # Refused
    <2>1. texts = {Decrypted[i][p]}
        BY <1>1, <1>4
    <2> HIDE DEF texts
    <2>2. (CHOOSE t \in texts : TRUE) \in texts
        BY <2>1
    <2> QED BY <1>2, <1>4, <2>1, <2>2
<1> QED BY <1>3, <1>4

LEMMA MeaningNowhere ==
    ASSUME NEW p, \A i \in Keks : Decrypted[i][p] = Refused
    PROVE  Meaning(p) = Lost
<1>1. {Decrypted[i][p] : i \in Keks} \ {Refused} = {}
    OBVIOUS
<1> QED BY <1>1 DEF Meaning

LEMMA MeaningType ==
    ASSUME EnvelopeSound, NEW p \in Payloads
    PROVE  Meaning(p) \in Texts \cup {Lost}
<1>1. CASE \E i \in Keks : Decrypted[i][p] # Refused
    BY <1>1, Reading, MeaningUnder
<1>2. CASE ~\E i \in Keks : Decrypted[i][p] # Refused
    BY <1>2, MeaningNowhere
<1> QED BY <1>1, <1>2

(* Re-wrapping changes no meaning, and damage can only lose it. *)
LEMMA MeaningRewrapped ==
    ASSUME EnvelopeSound, NEW p \in Payloads, NEW i \in Keks, i + 1 \in Keks,
           Rewrapped[i][p] # Refused
    PROVE  Meaning(Rewrapped[i][p]) = Meaning(p)
BY Rewrapping, MeaningUnder

LEMMA MeaningDamaged ==
    ASSUME EnvelopeSound, NEW p \in SoundPayloads, NEW damaged \in Damaged[p]
    PROVE  Meaning(damaged) \in {Meaning(p), Lost}
<1>1. CASE \E i \in Keks : Decrypted[i][damaged] # Refused
    <2>1. PICK i \in Keks : Decrypted[i][damaged] # Refused
        BY <1>1
    <2>2. Decrypted[i][damaged] = Decrypted[i][p] /\ p \in Payloads /\ damaged \in Payloads
        BY <2>1, Damaging
    <2>3. OnlyUnder(damaged, i) /\ OnlyUnder(p, i)
        BY <2>1, <2>2, Reading
    <2> QED BY <2>2, <2>3, MeaningUnder
<1>2. CASE ~\E i \in Keks : Decrypted[i][damaged] # Refused
    BY <1>2, MeaningNowhere
<1> QED BY <1>1, <1>2

-----------------------------------------------------------------------------
(* No function of payloads is NoRotation. *)
LEMMA APendingFunction ==
    ASSUME NEW ks \in SUBSET StoreKeys, NEW f \in [ks -> Payloads]
    PROVE  f # NoRotation
OBVIOUS

(* A step that puts p, or nothing, under one key, while no rotation is being
   put back. *)
LEMMA PutKeepsInv ==
    ASSUME Inv, ~Rotating, NEW k \in StoreKeys, NEW p \in Payloads \cup {Absent, Torn},
           Put(k, p), UNCHANGED <<backend, keyInUse, pending, mixed>>,
           saves' \in Saves \cup {0}, damages' \in 0 .. MaxDamages,
           p \in Payloads /\ ~mixed => OnlyUnder(p, keyInUse),
           p = Torn => backend = "FileStore"
    PROVE  Inv'
<1>1. /\ store' = [store EXCEPT ![k] = p]
      /\ store \in [StoreKeys -> Payloads \cup {Absent, Torn}]
      /\ pending' = NoRotation
    BY DEF Inv, TypeOK, Put, Rotating
<1>2. TypeOK'
    BY <1>1 DEF Inv, TypeOK, Rotating
<1>3. OnlyKeyInUseReads'
    BY <1>1 DEF Inv, OnlyKeyInUseReads, Rotating, OnlyUnder
<1>4. RotationInv'
    BY <1>1 DEF RotationInv, Rotating
<1> QED BY <1>2, <1>3, <1>4 DEF Inv

(* A step that breaks a rotation off, if there is one, and loses what is
   stored under one key, at most. *)
LEMMA BreakOffKeepsInv ==
    ASSUME Inv, BreakOff, store' \in [StoreKeys -> Payloads \cup {Absent, Torn}],
           Rotating \/ \A k \in StoreKeys : store'[k] \in {store[k], Absent},
           backend # "FileStore" => \A k \in StoreKeys : store'[k] # Torn
    PROVE  Inv'
<1>1. /\ pending' = NoRotation /\ mixed' = (mixed \/ Rotating)
      /\ keyInUse' \in IF Rotating THEN {keyInUse, keyInUse + 1} ELSE {keyInUse}
      /\ UNCHANGED <<backend, saves, damages>>
    BY DEF BreakOff
<1>2. keyInUse' \in Keks
    BY <1>1 DEF Inv, TypeOK, RotationInv
<1>3. TypeOK'
    <2>1. mixed' \in BOOLEAN
        BY <1>1, Zenon DEF Inv, TypeOK
    <2> QED BY <1>1, <1>2, <2>1 DEF Inv, TypeOK, Rotating
<1>4. OnlyKeyInUseReads'
    <2>1. CASE Rotating
        BY <1>1, <2>1 DEF OnlyKeyInUseReads
    <2>2. CASE ~Rotating
        BY <1>1, <2>2 DEF Inv, OnlyKeyInUseReads
    <2> QED BY <2>1, <2>2
<1>5. RotationInv'
    BY <1>1 DEF RotationInv, Rotating
<1> QED BY <1>3, <1>4, <1>5 DEF Inv

LEMMA SaveKeepsInv ==
    ASSUME EnvelopeSound, Inv, NEW k \in StoreKeys, NEW t \in Texts, Save(k, t)
    PROVE  Inv'
<1>1. /\ saves + 1 \in Saves /\ saves' = saves + 1 /\ ~Rotating
      /\ UNCHANGED <<backend, keyInUse, damages, pending, mixed>>
    BY DEF Save, Rotating
<1>2. keyInUse \in Keks /\ damages \in 0 .. MaxDamages
    BY DEF Inv, TypeOK
<1>3. PICK p \in Payloads : Put(k, p) /\ OnlyUnder(p, keyInUse)
    BY <1>1, <1>2, Saving, Zenon DEF Save
<1> QED BY <1>1, <1>2, <1>3, PutKeepsInv

LEMMA PutFailsKeepsInv ==
    ASSUME Inv, NEW k \in StoreKeys, SaveFails(k)
    PROVE  Inv'
<1>1. /\ ~Rotating
      /\ UNCHANGED <<backend, keyInUse, saves, damages, pending, mixed>>
    BY DEF SaveFails, Rotating
<1>2. CASE UNCHANGED store
    <2>1. TypeOK'
        BY <1>1, <1>2 DEF Inv, TypeOK, Rotating
    <2>2. OnlyKeyInUseReads'
        BY <1>1, <1>2 DEF Inv, OnlyKeyInUseReads, Rotating
    <2> QED BY <1>1, <2>1, <2>2 DEF Inv, RotationInv, Rotating
<1>3. CASE backend = "FileStore" /\ Put(k, Torn)
    <2>1. saves' \in Saves \cup {0} /\ damages' \in 0 .. MaxDamages /\ Torn \notin Payloads
        BY <1>1 DEF Inv, TypeOK
    <2> QED BY <1>1, <1>3, <2>1, PutKeepsInv
<1> QED BY <1>2, <1>3 DEF SaveFails, PutFails

LEMMA DeleteKeepsInv ==
    ASSUME Inv, NEW k \in StoreKeys, Delete(k)
    PROVE  Inv'
<1>1. /\ ~Rotating /\ Put(k, Absent)
      /\ UNCHANGED <<backend, keyInUse, saves, damages, pending, mixed>>
    BY DEF Delete, Rotating
<1>2. saves' \in Saves \cup {0} /\ damages' \in 0 .. MaxDamages /\ Absent \notin Payloads
    BY <1>1 DEF Inv, TypeOK
<1> QED BY <1>1, <1>2, PutKeepsInv

LEMMA DamageKeepsInv ==
    ASSUME EnvelopeSound, Inv, NEW k \in StoreKeys, DamageAtRest(k)
    PROVE  Inv'
<1>1. /\ ~Rotating /\ damages < MaxDamages /\ damages' = damages + 1
      /\ store[k] \in SoundPayloads
      /\ UNCHANGED <<backend, keyInUse, saves, pending, mixed>>
    BY DEF DamageAtRest
<1>2. PICK p \in Damaged[store[k]] : Put(k, p)
    BY DEF DamageAtRest
<1>3. /\ store[k] \in Payloads /\ p \in Payloads
      /\ \A i \in Keks : Decrypted[i][p] \in {Refused, Decrypted[i][store[k]]}
    BY <1>1, <1>2, Damaging
<1>4. ~mixed => OnlyUnder(p, keyInUse)
    BY <1>1, <1>3 DEF Inv, OnlyKeyInUseReads, OnlyUnder
<1>5. saves' \in Saves \cup {0} /\ damages' \in 0 .. MaxDamages
    BY <1>1 DEF Inv, TypeOK
<1>6. p \notin {Absent, Torn}
    BY <1>3
<1> QED BY <1>1, <1>2, <1>3, <1>4, <1>5, <1>6, PutKeepsInv

LEMMA RotateKeepsInv ==
    ASSUME EnvelopeSound, Inv, RotateMasterKey
    PROVE  Inv'
<1> DEFINE rotated == [k \in Present |-> Rewrapped[keyInUse][store[k]]]
           intact == \A k \in Present : store[k] # Torn /\ rotated[k] # Refused
<1>1. /\ keyInUse + 1 \in Keks /\ ~Rotating
      /\ pending' = IF intact THEN rotated ELSE NoRotation
      /\ UNCHANGED <<backend, store, keyInUse, saves, damages, mixed>>
    BY DEF RotateMasterKey, Rotating
<1>2. /\ keyInUse \in Keks /\ Present \subseteq StoreKeys
      /\ \A k \in StoreKeys : store[k] \in Payloads \cup {Absent, Torn}
    BY DEF Inv, TypeOK, Present
<1>3. CASE intact
    <2>1. \A k \in Present : /\ store[k] \in Payloads
                             /\ rotated[k] = Rewrapped[keyInUse][store[k]]
                             /\ rotated[k] # Refused
        BY <1>2, <1>3 DEF Present
    <2>2. \A k \in Present : rotated[k] \in Payloads
        BY <1>1, <1>2, <2>1, Rewrapping
    <2>3. rotated \in [Present -> Payloads] /\ DOMAIN rotated = Present
        BY <2>2
    <2> HIDE DEF rotated, intact
    <2>4. pending' = rotated
        BY <1>1, <1>3
    <2>5. pending' \in UNION {[ks -> Payloads] : ks \in SUBSET StoreKeys}
        BY <1>2, <2>3, <2>4
    <2>6. TypeOK'
        BY <1>1, <2>5 DEF Inv, TypeOK
    <2>7. Rotating'
        BY <1>2, <2>3, <2>4, APendingFunction DEF Rotating
    <2>8. \A k \in StoreKeys \ Present : store[k] = Absent
        BY DEF Present
    <2>9. RotationInv'
        BY <1>1, <2>1, <2>3, <2>4, <2>5, <2>8 DEF RotationInv
    <2>10. OnlyKeyInUseReads'
        BY <2>7 DEF OnlyKeyInUseReads
    <2> QED BY <2>6, <2>9, <2>10 DEF Inv
<1>4. CASE ~intact
    <2>1. pending' = pending
        BY <1>1, <1>4 DEF Rotating
    <2> QED BY <1>1, <2>1 DEF Inv, TypeOK, OnlyKeyInUseReads, RotationInv, Rotating
<1> QED BY <1>3, <1>4

LEMMA PutBackKeepsInv ==
    ASSUME EnvelopeSound, Inv, NEW k \in StoreKeys, PutBack(k)
    PROVE  Inv'
<1>1. /\ Rotating /\ k \in DOMAIN pending
      /\ store' = [store EXCEPT ![k] = pending[k]]
      /\ pending' = [other \in DOMAIN pending \ {k} |-> pending[other]]
      /\ UNCHANGED <<backend, keyInUse, saves, damages, mixed>>
    BY DEF PutBack, Put
<1>2. PICK ks \in SUBSET StoreKeys : pending \in [ks -> Payloads]
    BY <1>1 DEF Inv, RotationInv
<1>3. pending' \in [ks \ {k} -> Payloads] /\ DOMAIN pending' = DOMAIN pending \ {k}
    BY <1>1, <1>2
<1>4. Rotating'
    BY <1>3, APendingFunction DEF Rotating
<1>5. /\ keyInUse \in Keks /\ keyInUse + 1 \in Keks
      /\ store[k] \in Payloads /\ Rewrapped[keyInUse][store[k]] # Refused
      /\ pending[k] = Rewrapped[keyInUse][store[k]]
    BY <1>1 DEF Inv, TypeOK, RotationInv
<1>6. pending[k] \in Payloads /\ OnlyUnder(pending[k], keyInUse + 1)
    BY <1>5, Rewrapping
<1>7. store \in [StoreKeys -> Payloads \cup {Absent, Torn}]
    BY DEF Inv, TypeOK
<1>8. TypeOK'
    BY <1>1, <1>3, <1>6, <1>7 DEF Inv, TypeOK
<1>9. RotationInv'
    <2>1. pending' \in UNION {[js -> Payloads] : js \in SUBSET StoreKeys}
        BY <1>3
    <2>2. ASSUME NEW other \in StoreKeys \ {k}
          PROVE  /\ store'[other] = store[other]
                 /\ other \in DOMAIN pending' <=> other \in DOMAIN pending
                 /\ other \in DOMAIN pending => pending'[other] = pending[other]
        BY <1>1, <1>3, <1>7
    <2>3. store'[k] = pending[k] /\ k \notin DOMAIN pending'
        BY <1>1, <1>3, <1>7
    <2> QED BY <1>1, <1>5, <1>6, <2>1, <2>2, <2>3 DEF Inv, RotationInv, OnlyUnder
<1>10. OnlyKeyInUseReads'
    BY <1>4 DEF OnlyKeyInUseReads
<1> QED BY <1>8, <1>9, <1>10 DEF Inv

LEMMA UseNewKeyKeepsInv ==
    ASSUME Inv, UseNewKey
    PROVE  Inv'
<1>1. /\ Rotating /\ DOMAIN pending = {} /\ keyInUse' = keyInUse + 1
      /\ pending' = NoRotation
      /\ UNCHANGED <<backend, store, saves, damages, mixed>>
    BY DEF UseNewKey
<1>2. /\ keyInUse + 1 \in Keks
      /\ \A k \in StoreKeys : store[k] \in Payloads => OnlyUnder(store[k], keyInUse + 1)
    BY <1>1 DEF Inv, RotationInv
<1>3. TypeOK'
    BY <1>1, <1>2 DEF Inv, TypeOK, Rotating
<1>4. OnlyKeyInUseReads'
    BY <1>1, <1>2 DEF OnlyKeyInUseReads, OnlyUnder
<1>5. RotationInv'
    BY <1>1 DEF RotationInv, Rotating
<1> QED BY <1>3, <1>4, <1>5 DEF Inv

LEMMA PutBackFailsKeepsInv ==
    ASSUME Inv, NEW k \in StoreKeys, PutBackFails(k)
    PROVE  Inv'
<1>1. Rotating /\ PutFails(k) /\ BreakOff
    BY DEF PutBackFails
<1>2. /\ store \in [StoreKeys -> Payloads \cup {Absent, Torn}]
      /\ backend # "FileStore" => \A other \in StoreKeys : store[other] # Torn
    BY DEF Inv, TypeOK
<1>3. /\ store' \in [StoreKeys -> Payloads \cup {Absent, Torn}]
      /\ backend # "FileStore" => \A other \in StoreKeys : store'[other] # Torn
    BY <1>1, <1>2 DEF PutFails, Put
<1> QED BY <1>1, <1>3, BreakOffKeepsInv

LEMMA CrashKeepsInv ==
    ASSUME Inv, Crash
    PROVE  Inv'
<1>1. /\ store \in [StoreKeys -> Payloads \cup {Absent, Torn}]
      /\ backend # "FileStore" => \A k \in StoreKeys : store[k] # Torn
    BY DEF Inv, TypeOK
<1>2. /\ store' \in [StoreKeys -> Payloads \cup {Absent, Torn}]
      /\ \A k \in StoreKeys : store'[k] \in {store[k], Absent}
      /\ backend # "FileStore" => \A k \in StoreKeys : store'[k] # Torn
    BY <1>1 DEF Crash
<1> QED BY <1>2, BreakOffKeepsInv DEF Crash

LEMMA InvInductive ==
    ASSUME EnvelopeSound, Inv, [Next]_vars
    PROVE  Inv'
<1>1. ASSUME NEW k \in StoreKeys, NEW t \in Texts, Save(k, t)  PROVE Inv'
    BY <1>1, SaveKeepsInv
<1>2. ASSUME NEW k \in StoreKeys, SaveFails(k)  PROVE Inv'
    BY <1>2, PutFailsKeepsInv
<1>3. ASSUME NEW k \in StoreKeys, Load(k)  PROVE Inv'
    <2>1. UNCHANGED <<backend, store, keyInUse, saves, damages, pending, mixed>>
        BY <1>3 DEF Load
    <2> QED BY <2>1 DEF Inv, TypeOK, OnlyKeyInUseReads, RotationInv, Rotating
<1>4. ASSUME NEW k \in StoreKeys, Delete(k)  PROVE Inv'
    BY <1>4, DeleteKeepsInv
<1>5. ASSUME NEW k \in StoreKeys, PutBack(k)  PROVE Inv'
    BY <1>5, PutBackKeepsInv
<1>6. ASSUME NEW k \in StoreKeys, PutBackFails(k)  PROVE Inv'
    BY <1>6, PutBackFailsKeepsInv
<1>7. ASSUME NEW k \in StoreKeys, DamageAtRest(k)  PROVE Inv'
    BY <1>7, DamageKeepsInv
<1>8. CASE UNCHANGED vars
    BY <1>8 DEF vars, Inv, TypeOK, OnlyKeyInUseReads, RotationInv, Rotating
<1> QED BY <1>1, <1>2, <1>3, <1>4, <1>5, <1>6, <1>7, <1>8, RotateKeepsInv,
           UseNewKeyKeepsInv, CrashKeepsInv DEF Next

LEMMA InitInv == Init => Inv
<1> SUFFICES ASSUME Init  PROVE Inv
    OBVIOUS
<1>1. \A k \in StoreKeys : store[k] = Absent
    BY DEF Init
<1>2. TypeOK
    <2>1. mixed \in BOOLEAN
        BY Zenon DEF Init
    <2>2. store \in [StoreKeys -> Payloads \cup {Absent, Torn}]
        BY DEF Init
    <2>3. \A k \in StoreKeys : store[k] # Torn
        BY <1>1
    <2> QED BY <2>1, <2>2, <2>3 DEF Init, TypeOK, Rotating
<1> QED BY <1>1, <1>2 DEF Init, Inv, OnlyKeyInUseReads, RotationInv, Rotating

LEMMA StoreInvariant == ASSUME EnvelopeSound PROVE Spec => []Inv
BY InitInv, InvInductive, PTL DEF Spec

(* Every variable keeps its type; half a value is only in a file. *)
THEOREM AtRestTypes == ASSUME EnvelopeSound PROVE Spec => []TypeOK
BY StoreInvariant, PTL DEF Inv

(* Unless a rotation was broken off, what is stored can be read with no master
   key but the one in use, however often it was rotated, put or damaged. *)
THEOREM OldKeysReadNothing == ASSUME EnvelopeSound PROVE Spec => []OnlyKeyInUseReads
BY StoreInvariant, PTL DEF Inv

-----------------------------------------------------------------------------
(* The refinement: each step changes what the store holds as KeyValue says. *)
MeaningOf(stored) ==
    IF stored = Absent THEN Nothing ELSE IF stored = Torn THEN Lost ELSE Meaning(stored)

LEMMA HoldsIs ==
    /\ Holds = [k \in StoreKeys |-> MeaningOf(store[k])]
    /\ Holds' = [k \in StoreKeys |-> MeaningOf(store'[k])]
BY DEF Holds, MeaningOf

LEMMA PutHolds ==
    ASSUME Inv, NEW k \in StoreKeys, NEW p, Put(k, p)
    PROVE  Holds' = [Holds EXCEPT ![k] = MeaningOf(p)]
<1>1. /\ store' = [store EXCEPT ![k] = p]
      /\ store \in [StoreKeys -> Payloads \cup {Absent, Torn}]
    BY DEF Inv, TypeOK, Put
<1>2. \A other \in StoreKeys : store'[other] = IF other = k THEN p ELSE store[other]
    BY <1>1
<1> QED BY <1>2, HoldsIs

LEMMA SameHolds ==
    ASSUME store' = store
    PROVE  Holds' = Holds
BY HoldsIs

LEMMA PutFailsHolds ==
    ASSUME Inv, NEW k \in StoreKeys, PutFails(k)
    PROVE  Holds' \in {Holds, [Holds EXCEPT ![k] = Lost]}
<1>1. CASE UNCHANGED store
    BY <1>1, SameHolds
<1>2. CASE Put(k, Torn)
    BY <1>2, PutHolds DEF MeaningOf
<1> QED BY <1>1, <1>2 DEF PutFails

LEMMA SaveRefines ==
    ASSUME EnvelopeSound, Inv, NEW k \in StoreKeys, NEW t \in Texts, Save(k, t)
    PROVE  Promised!Save(k, t)
<1>1. saves + 1 \in Saves /\ keyInUse \in Keks
    BY DEF Save, Inv, TypeOK
<1>2. PICK p \in Payloads : /\ Put(k, p) /\ OnlyUnder(p, keyInUse)
                            /\ Decrypted[keyInUse][p] = t
    <2> DEFINE p == Encrypted[saves + 1][keyInUse][t]
    <2>1. Put(k, p)
        BY Zenon DEF Save
    <2>2. p \in Payloads /\ Decrypted[keyInUse][p] = t /\ OnlyUnder(p, keyInUse)
        <3>1. \A n \in Saves, i \in Keks :
                 /\ Encrypted[n][i][t] \in Payloads
                 /\ Decrypted[i][Encrypted[n][i][t]] = t
                 /\ OnlyUnder(Encrypted[n][i][t], i)
            BY Saving, Zenon
        <3> QED BY <1>1, <3>1, Zenon
    <2> QED BY <2>1, <2>2, Zenon
<1>3. MeaningOf(p) = t
    BY <1>1, <1>2, MeaningUnder DEF MeaningOf
<1>4. Holds' = [Holds EXCEPT ![k] = t]
    BY <1>2, <1>3, PutHolds
<1>5. mixed' = mixed /\ reply' = [op |-> "save", key |-> k, value |-> t]
    BY Zenon DEF Save, Replies
<1> QED BY <1>4, <1>5 DEF Promised!Save

LEMMA SaveFailsRefines ==
    ASSUME Inv, NEW k \in StoreKeys, SaveFails(k)
    PROVE  Promised!SaveFails(k)
BY PutFailsHolds DEF SaveFails, Replies, Promised!SaveFails

LEMMA LoadRefines ==
    ASSUME EnvelopeSound, Inv, NEW k \in StoreKeys, Load(k)
    PROVE  Promised!Load(k)
<1>1. /\ ~Rotating /\ store' = store /\ mixed' = mixed /\ keyInUse \in Keks
      /\ store[k] \in Payloads \cup {Absent, Torn}
    BY DEF Load, Rotating, Inv, TypeOK
<1>2. Holds' = Holds /\ Holds[k] = MeaningOf(store[k])
    BY <1>1, SameHolds, HoldsIs
<1> SUFFICES \E v \in Texts \cup {Nothing, Refused} :
                /\ \/ v = Holds[k]
                   \/ v = Refused /\ Holds[k] # Nothing /\ (mixed \/ Holds[k] = Lost)
                /\ Replies("load", k, v)
    BY <1>1, <1>2 DEF Promised!Load, Replies
<1>3. CASE store[k] = Absent
    <2>1. Replies("load", k, Nothing) /\ Holds[k] = Nothing
        BY <1>2, <1>3 DEF Load, MeaningOf
    <2> QED BY <2>1
<1>4. CASE store[k] = Torn
    <2>1. Replies("load", k, Refused) /\ Holds[k] = Lost
        BY <1>2, <1>4 DEF Load, MeaningOf
    <2> QED BY <2>1
<1>5. CASE store[k] \in Payloads
    <2> DEFINE v == Decrypted[keyInUse][store[k]]
    <2>1. Replies("load", k, v) /\ Holds[k] = Meaning(store[k])
        BY <1>2, <1>5 DEF Load, MeaningOf
    <2>2. v \in Texts \cup {Refused} /\ Holds[k] \in Texts \cup {Lost}
        BY <1>1, <1>5, <2>1, Reading, MeaningType
    <2>3. CASE v # Refused
        <3>1. v = Holds[k]
            BY <1>1, <1>5, <2>1, <2>3, Reading, MeaningUnder
        <3> QED BY <2>1, <2>2, <3>1
    <2>4. CASE v = Refused /\ ~mixed
        <3>1. OnlyUnder(store[k], keyInUse)
            BY <1>1, <1>5, <2>4 DEF Inv, OnlyKeyInUseReads, OnlyUnder
        <3>2. Holds[k] = Lost
            BY <1>1, <1>5, <2>1, <2>4, <3>1, MeaningUnder
        <3> QED BY <2>1, <2>4, <3>2
    <2>5. CASE v = Refused /\ mixed
        <3>1. Holds[k] # Nothing
            BY <2>2
        <3> QED BY <2>1, <2>5, <3>1
    <2> QED BY <2>3, <2>4, <2>5
<1> QED BY <1>1, <1>3, <1>4, <1>5

LEMMA DeleteRefines ==
    ASSUME EnvelopeSound, Inv, NEW k \in StoreKeys, Delete(k)
    PROVE  Promised!Delete(k)
<1>1. Holds' = [Holds EXCEPT ![k] = Nothing]
    BY PutHolds DEF Delete, MeaningOf
<1>2. store[k] \in Payloads \cup {Absent, Torn} /\ Holds[k] = MeaningOf(store[k])
    BY HoldsIs DEF Inv, TypeOK
<1>3. (store[k] # Absent) = (Holds[k] # Nothing)
    BY <1>2, MeaningType DEF MeaningOf
<1> QED BY <1>1, <1>3 DEF Delete, Replies, Promised!Delete

LEMMA DamageRefines ==
    ASSUME EnvelopeSound, Inv, NEW k \in StoreKeys, DamageAtRest(k)
    PROVE  Promised!Damage
<1>1. /\ store[k] \in SoundPayloads /\ mixed' = mixed /\ reply' = [op |-> "none"]
    BY DEF DamageAtRest, NoReply
<1>2. PICK p \in Damaged[store[k]] : Put(k, p)
    BY DEF DamageAtRest
<1>3. store[k] \in Payloads /\ p \in Payloads /\ Meaning(p) \in {Meaning(store[k]), Lost}
    BY <1>1, <1>2, Damaging, MeaningDamaged
<1>4. Holds[k] = Meaning(store[k]) /\ MeaningOf(p) = Meaning(p)
    BY <1>3, HoldsIs DEF MeaningOf
<1>5. Holds[k] # Nothing
    BY <1>3, <1>4, MeaningType
<1>6. Holds' = [Holds EXCEPT ![k] = Meaning(p)]
    BY <1>2, <1>4, PutHolds
<1>7. [Holds EXCEPT ![k] = Holds[k]] = Holds
    BY HoldsIs
<1>8. Holds' \in {Holds, [Holds EXCEPT ![k] = Lost]}
    BY <1>3, <1>4, <1>6, <1>7
<1> QED BY <1>1, <1>5, <1>8 DEF Promised!Damage, Promised!NoReply

LEMMA PutBackRefines ==
    ASSUME EnvelopeSound, Inv, NEW k \in StoreKeys, PutBack(k)
    PROVE  Promised!Rotate
<1>1. /\ Put(k, pending[k]) /\ Rotating /\ k \in DOMAIN pending
      /\ mixed' = mixed /\ reply' = [op |-> "none"]
    BY DEF PutBack, NoReply
<1>2. /\ keyInUse \in Keks /\ keyInUse + 1 \in Keks
      /\ store[k] \in Payloads /\ Rewrapped[keyInUse][store[k]] # Refused
      /\ pending[k] = Rewrapped[keyInUse][store[k]]
    BY <1>1 DEF Inv, TypeOK, RotationInv
<1>3. pending[k] \in Payloads /\ Meaning(pending[k]) = Meaning(store[k])
    BY <1>2, Rewrapping, MeaningRewrapped
<1>4. MeaningOf(pending[k]) = Holds[k]
    BY <1>2, <1>3, HoldsIs DEF MeaningOf
<1>5. Holds' = [Holds EXCEPT ![k] = Holds[k]]
    BY <1>1, <1>4, PutHolds
<1>6. Holds' = Holds
    BY <1>5, HoldsIs
<1> QED BY <1>1, <1>6 DEF Promised!Rotate

LEMMA BrokenOffRefines ==
    ASSUME Inv, BreakOff, NEW k \in StoreKeys, Holds' \in {Holds, [Holds EXCEPT ![k] = Lost]},
           Rotating \/ Holds' = Holds
    PROVE  Promised!RotationBrokenOff \/ Promised!Rotate
<1>1. mixed' = (mixed \/ Rotating) /\ reply' = [op |-> "none"]
    BY Zenon DEF BreakOff, NoReply
<1>2. CASE Rotating
    <2>1. mixed' = TRUE
        BY <1>1, <1>2, Zenon
    <2> QED BY <1>1, <2>1 DEF Promised!RotationBrokenOff, Promised!NoReply
<1>3. CASE ~Rotating
    <2>1. mixed \in BOOLEAN
        BY Zenon DEF Inv, TypeOK
    <2>2. mixed' = mixed
        BY <1>1, <1>3, <2>1, Zenon
    <2> QED BY <1>1, <1>3, <2>2 DEF Promised!Rotate
<1> QED BY <1>2, <1>3

LEMMA CrashRefines ==
    ASSUME Inv, Crash
    PROVE  Promised!Next
<1>1. BreakOff
    BY DEF Crash
<1>2. CASE backend = "MemoryStore"
    <2>1. store' = [k \in StoreKeys |-> Absent]
        BY <1>2 DEF Crash
    <2>2. Holds' = [k \in StoreKeys |-> Nothing]
        BY <2>1, HoldsIs DEF MeaningOf
    <2>3. mixed' = (mixed \/ Rotating) /\ mixed \in BOOLEAN
        BY <1>1, Zenon DEF BreakOff, Inv, TypeOK
    <2>4. mixed' \in {mixed, TRUE}
        BY <2>3, Zenon
    <2>5. Promised!Vanish
        BY <1>1, <2>2, <2>4 DEF BreakOff, NoReply, Promised!Vanish, Promised!NoReply
    <2> QED BY <2>5 DEF Promised!Next
<1>3. CASE backend # "MemoryStore"
    <2>1. Holds' = Holds
        BY <1>3, SameHolds DEF Crash
    <2>2. PICK k \in StoreKeys : TRUE
        OBVIOUS
    <2> QED BY <1>1, <2>1, <2>2, BrokenOffRefines DEF Promised!Next
<1> QED BY <1>2, <1>3

LEMMA StepRefines ==
    ASSUME EnvelopeSound, Inv, [Next]_vars
    PROVE  [Promised!Next]_<<Holds, mixed, reply>>
<1>1. ASSUME NEW k \in StoreKeys, NEW t \in Texts, Save(k, t)  PROVE Promised!Next
    BY <1>1, SaveRefines DEF Promised!Next
<1>2. ASSUME NEW k \in StoreKeys, SaveFails(k) \/ Load(k) \/ Delete(k)  PROVE Promised!Next
    BY <1>2, SaveFailsRefines, LoadRefines, DeleteRefines DEF Promised!Next
<1>3. ASSUME NEW k \in StoreKeys, PutBack(k) \/ DamageAtRest(k)  PROVE Promised!Next
    BY <1>3, PutBackRefines, DamageRefines DEF Promised!Next
<1>4. ASSUME NEW k \in StoreKeys, PutBackFails(k)  PROVE Promised!Next
    <2>1. Rotating /\ PutFails(k) /\ BreakOff
        BY <1>4 DEF PutBackFails
    <2> QED BY <2>1, PutFailsHolds, BrokenOffRefines DEF Promised!Next
<1>5. ASSUME RotateMasterKey  PROVE Promised!Next
    <2>1. /\ mixed' = mixed /\ Holds' = Holds
          /\ reply' \in [op : {"rotate"}, value : BOOLEAN]
        BY <1>5, SameHolds DEF RotateMasterKey
    <2> QED BY <2>1 DEF Promised!Next, Promised!Rotate
<1>6. ASSUME UseNewKey  PROVE Promised!Next
    <2>1. mixed' = mixed /\ Holds' = Holds /\ reply' = [op |-> "none"]
        BY <1>6, SameHolds DEF UseNewKey, NoReply
    <2> QED BY <2>1 DEF Promised!Next, Promised!Rotate
<1>7. CASE UNCHANGED vars
    BY <1>7, SameHolds DEF vars
<1> QED BY <1>1, <1>2, <1>3, <1>4, <1>5, <1>6, <1>7, CrashRefines DEF Next

LEMMA InitRefines == Init => Promised!Init
<1> SUFFICES ASSUME Init  PROVE Promised!Init
    OBVIOUS
<1>1. Holds = [k \in StoreKeys |-> Nothing]
    BY HoldsIs DEF Init, MeaningOf
<1> QED BY <1>1 DEF Init, Promised!Init

(* What is read is what was last saved under the key: in every store, however
   the master key is changed meanwhile, whatever fails or crashes in between. *)
THEOREM StoreKeepsValues == ASSUME EnvelopeSound PROVE Spec => KeepsValues
<1>1. Spec => []Inv
    BY StoreInvariant
<1>2. Inv /\ [Next]_vars => [Promised!Next]_<<Holds, mixed, reply>>
    BY StepRefines
<1> QED BY <1>1, <1>2, InitRefines, PTL DEF Spec, KeepsValues, Promised!Spec

(* StoredSoundly: the payloads that can be stored are those of the tables. *)
THEOREM StoredPayloadsAreSound == ASSUME EnvelopeSound PROVE Spec => []StoredSoundly
<1>1. TypeOK => StoredSoundly
    BY DEF TypeOK, StoredSoundly, EnvelopeSound
<1> QED BY <1>1, AtRestTypes, PTL

(* What the run at_rest checks of a few payloads holds of all that the envelope
   makes: values are kept, read with the key in use alone, and handled soundly. *)
THEOREM EncryptedStore ==
    ASSUME EnvelopeTables
    PROVE  Spec => [](StoredSoundly /\ OnlyKeyInUseReads) /\ KeepsValues
<1>1. EnvelopeSound
    BY EnvelopeIsSound
<1>2. Spec => []StoredSoundly
    BY <1>1, StoredPayloadsAreSound
<1>3. Spec => []OnlyKeyInUseReads
    BY <1>1, OldKeysReadNothing
<1>4. Spec => KeepsValues
    BY <1>1, StoreKeepsValues
<1> QED BY <1>2, <1>3, <1>4, PTL

=============================================================================
