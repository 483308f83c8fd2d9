------------------------- MODULE VersionListProofs -------------------------
(***************************************************************************)
(* What the searches of VersionList return, for any list of versions, and  *)
(* for one whose versions are numbered consecutively.  The proofs about    *)
(* VersionedSecret and VaultSecrets rest on these lemmas.                  *)
(***************************************************************************)
EXTENDS VersionList, WellFoundedInduction, NaturalsInduction, SequenceTheorems, TLAPS

(* A list of versions with consecutive numbers, the last of them `last'. *)
Numbered(list, last) ==
    /\ Len(list) \in Nat /\ DOMAIN list = 1 .. Len(list)
    /\ last \in Nat
    /\ Len(list) <= last
    /\ \A i \in DOMAIN list : list[i].version = last - Len(list) + i

LEMMA MinIs ==
    ASSUME NEW S \in SUBSET Int, NEW k \in S, \A x \in S : k <= x
    PROVE  Min(S) = k
<1>1. Min(S) \in S /\ \A y \in S : Min(S) <= y
    BY Zenon DEF Min
<1>2. Min(S) \in Int /\ k \in Int /\ Min(S) <= k /\ k <= Min(S)
    BY <1>1
<1> QED BY <1>2

LEMMA MinOfTwo ==
    ASSUME NEW a \in Int, NEW b \in Int
    PROVE  Min({a, b}) = IF a <= b THEN a ELSE b
<1> DEFINE S == {a, b}
<1>1. CASE a <= b
    <2>1. S \in SUBSET Int /\ a \in S /\ \A x \in S : a <= x
        BY <1>1
    <2> HIDE DEF S
    <2>2. Min(S) = a
        BY <2>1, MinIs
    <2> QED BY <1>1, <2>2 DEF S
<1>2. CASE ~(a <= b)
    <2>1. S \in SUBSET Int /\ b \in S /\ \A x \in S : b <= x
        BY <1>2
    <2> HIDE DEF S
    <2>2. Min(S) = b
        BY <2>1, MinIs
    <2> QED BY <1>2, <2>2 DEF S
<1> QED BY <1>1, <1>2

(* Versions are found where their numbers put them. *)
LEMMA FoundByNumber ==
    ASSUME NEW list, NEW last, Numbered(list, last), NEW n \in Int
    PROVE  Find(list, n) = IF n > last - Len(list) /\ n <= last
                             THEN n - (last - Len(list)) ELSE 0
<1> DEFINE I == {i \in 1 .. Len(list) : list[i].version = n}
<1>1. Find(list, n) = IF I # {} THEN Min(I) ELSE 0
    BY DEF Find, SelectInSeq
<1>2. /\ Len(list) \in Nat /\ last \in Nat
      /\ \A i \in 1 .. Len(list) : list[i].version = last - Len(list) + i
    BY DEF Numbered
<1>3. CASE n > last - Len(list) /\ n <= last
    <2> DEFINE k == n - (last - Len(list))
    <2>1. k \in 1 .. Len(list)
        BY <1>2, <1>3
    <2>2. list[k].version = n
        BY <1>2, <2>1
    <2>3. k \in I
        BY <2>1, <2>2
    <2>4. ASSUME NEW i \in I
          PROVE  i = k
        <3>1. i \in 1 .. Len(list) /\ list[i].version = n
            BY <2>4
        <3>2. n = last - Len(list) + i
            BY <1>2, <3>1
        <3> QED BY <1>2, <3>1, <3>2
    <2> HIDE DEF I, k
    <2>5. I \in SUBSET Int /\ k \in I /\ \A i \in I : k <= i
        BY <2>1, <2>3, <2>4
    <2>6. Min(I) = k
        BY <2>5, MinIs
    <2> USE DEF k
    <2> QED BY <1>1, <1>3, <2>3, <2>6
<1>4. CASE ~(n > last - Len(list) /\ n <= last)
    <2>1. I = {}
        BY <1>2, <1>4
    <2> QED BY <1>1, <1>4, <2>1
<1> QED BY <1>3, <1>4

LEMMA LeastElement ==
    ASSUME NEW T, T \subseteq Nat, T # {}
    PROVE  \E x \in T : \A y \in T : ~(y < x)
<1>1. IsWellFoundedOn(OpToRel(<, Nat), Nat)
    BY NatLessThanWellFounded, Zenon
<1>2. PICK x \in T : \A y \in T : ~(<<y, x>> \in OpToRel(<, Nat))
    BY <1>1, WFMin, Zenon
<1>3. \A y \in T : y < x => <<y, x>> \in OpToRel(<, Nat)
    BY DEF OpToRel
<1> QED BY <1>2, <1>3, Zenon

LEMMA GreatestElement ==
    ASSUME NEW m \in Nat, NEW S \in SUBSET (1 .. m), S # {}
    PROVE  Max(S) \in S /\ \A x \in S : x <= Max(S)
<1> DEFINE T == {j \in Nat : \E x \in S : j = m - x}
<1>1. T \subseteq Nat /\ T # {}
    <2>1. PICK x \in S : TRUE
        OBVIOUS
    <2>2. m - x \in T
        BY <2>1
    <2> QED BY <2>2
<1> HIDE DEF T
<1>2. PICK j \in T : \A y \in T : ~(y < j)
    BY <1>1, LeastElement
<1> USE DEF T
<1>3. PICK x \in S : j = m - x
    BY <1>2
<1>4. \A y \in S : x >= y
    <2>1. \A y \in S : (m - y) \in T
        OBVIOUS
    <2> QED BY <1>2, <1>3, <2>1
<1> QED BY <1>4 DEF Max

-----------------------------------------------------------------------------
(* current_version is the last version that is alive, if one is. *)
LEMMA CurrentIs ==
    ASSUME NEW list, Len(list) \in Nat
    PROVE  LET live == {i \in 1 .. Len(list) : ~list[i].destroyed /\ ~list[i].deleted} IN
             /\ live = {} => Current(list) = 0
             /\ live # {} => Current(list) \in live /\ \A i \in live : i <= Current(list)
<1> DEFINE live == {i \in 1 .. Len(list) : ~list[i].destroyed /\ ~list[i].deleted}
<1>1. Current(list) = IF live # {} THEN Max(live) ELSE 0
    BY DEF Current, SelectLastInSeq
<1> QED BY <1>1, GreatestElement

(* A lookup by number finds what Find finds; no lookup finds a destroyed
   version. *)
LEMMA LookupIs ==
    ASSUME NEW list, NEW last, Numbered(list, last), NEW n \in Int \cup {None}
    PROVE  /\ Lookup(list, n) \in 0 .. Len(list)
           /\ Lookup(list, n) # 0 => ~list[Lookup(list, n)].destroyed
           /\ Lookup(list, n) # 0 /\ n # None => Lookup(list, n) = Find(list, n)
<1>1. CASE n = None
    <2>1. Current(list) \in 0 .. Len(list)
        BY CurrentIs DEF Numbered
    <2> QED BY <1>1, <2>1 DEF Lookup
<1>2. CASE n # None
    <2>1. Find(list, n) \in 0 .. Len(list)
        BY <1>2, FoundByNumber DEF Numbered
    <2> QED BY <1>2, <2>1 DEF Lookup
<1> QED BY <1>1, <1>2

=============================================================================
