----------------------------- MODULE SealProofs -----------------------------
(***************************************************************************)
(* Proofs about Seal and SealCeremony, for every set of <<shares,          *)
(* threshold>> pairs.  The ceremony makes only steps that SealManager      *)
(* makes, so what is proved of Seal holds of it; besides, no share         *)
(* outlives seal() or a restart.                                           *)
(*                                                                         *)
(* Parity is all that is needed of XOR.  A string is made of the last      *)
(* share when it holds the key, and of the i-th when it holds the i-th     *)
(* random value but not the key, or the key but not the value.  Were no    *)
(* string of an attempt made of the i-th share, value i would occur        *)
(* exactly as often as the key does, so it could not cancel while the key  *)
(* remains.                                                                *)
(***************************************************************************)
EXTENDS SealCeremony, FiniteSetTheorems, SequenceTheorems, TLAPS

SealInv == TypeOK /\ SealCoherent

-----------------------------------------------------------------------------
(* Which shares hold which value. *)
LEMMA ShareMembership ==
    ASSUME NEW n \in Nat \ {0}, NEW h \in 1 .. n
    PROVE  /\ KeyBit \in Share(h, n) <=> h = n
           /\ \A i \in 1 .. (n - 1) : i \in Share(h, n) <=> h = i \/ h = n
           /\ Share(h, n) \subseteq {KeyBit} \cup (1 .. (n - 1))
           /\ Short \notin Share(h, n)
<1>1. CASE h = n
    BY <1>1 DEF Share, KeyBit, Short
<1>2. CASE h # n
    BY <1>2 DEF Share, KeyBit, Short
<1> QED BY <1>1, <1>2

LEMMA PairCardinality ==
    ASSUME NEW a, NEW b, a # b
    PROVE  Cardinality({a} \cup {b}) = 2
<1>1. IsFiniteSet({a}) /\ Cardinality({a}) = 1
    BY FS_Singleton
<1>2. Cardinality({a} \cup {b}) = Cardinality({a}) + 1
    <2>1. b \notin {a}
        OBVIOUS
    <2> QED BY <1>1, <2>1, FS_AddElement, Zenon
<1> QED BY <1>1, <1>2

LEMMA AppendFacts ==
    ASSUME NEW S, NEW q \in Seq(S), NEW s \in S
    PROVE  /\ Append(q, s) \in Seq(S)
           /\ Len(Append(q, s)) = Len(q) + 1
           /\ Len(q) \in Nat
           /\ DOMAIN Append(q, s) = 1 .. (Len(q) + 1)
           /\ Range(Append(q, s)) = Range(q) \cup {s}
<1>1. /\ Append(q, s) \in Seq(S)
      /\ Len(Append(q, s)) = Len(q) + 1
      /\ Len(q) \in Nat
      /\ DOMAIN Append(q, s) = 1 .. (Len(q) + 1)
      /\ DOMAIN q = 1 .. Len(q)
    OBVIOUS
<1>2. /\ Append(q, s)[Len(q) + 1] = s
      /\ \A j \in 1 .. Len(q) : Append(q, s)[j] = q[j]
    OBVIOUS
<1>3. Range(Append(q, s)) = Range(q) \cup {s}
    BY <1>1, <1>2 DEF Range
<1> QED BY <1>1, <1>3

LEMMA RangeSurjection ==
    ASSUME NEW S, NEW q \in Seq(S)
    PROVE  /\ q \in Surjection(1 .. Len(q), Range(q))
           /\ IsFiniteSet(1 .. Len(q)) /\ Cardinality(1 .. Len(q)) = Len(q)
<1>1. q \in [1 .. Len(q) -> Range(q)] /\ Len(q) \in Nat
    BY DEF Range
<1>2. \A t \in Range(q) : \E j \in 1 .. Len(q) : q[j] = t
    BY DEF Range
<1>3. /\ IsFiniteSet(1 .. Len(q))
      /\ Cardinality(1 .. Len(q)) = IF 1 > Len(q) THEN 0 ELSE Len(q) - 1 + 1
    BY <1>1, FS_Interval
<1> QED BY <1>1, <1>2, <1>3 DEF Surjection

(* Strings XOR to the key only if they are made of every share. *)
LEMMA XorNeedsAll ==
    ASSUME NEW n \in Nat \ {0}, NEW S, NEW p \in Seq(S),
           Reconstruct(p) = {KeyBit}
    PROVE  1 .. n \subseteq UNION {MadeOf(q, n) : q \in Range(p)}
<1>1. Holding(p, Short) = {}
    BY DEF Reconstruct, Short, KeyBit
<1>2. /\ KeyBit \in UNION Range(p)
      /\ Cardinality(Holding(p, KeyBit)) % 2 = 1
    BY <1>1 DEF Reconstruct
<1>3. PICK k \in DOMAIN p : KeyBit \in p[k]
    BY <1>2 DEF Range
<1>4. \A j \in DOMAIN p : p[j] \in Range(p)
    BY DEF Range
<1>5. ASSUME NEW i \in 1 .. (n - 1),
             \A j \in DOMAIN p : i \notin MadeOf(p[j], n)
      PROVE  FALSE
    <2>1. \A j \in DOMAIN p : i \in p[j] <=> KeyBit \in p[j]
        BY <1>5 DEF MadeOf
    <2>2. Holding(p, i) = Holding(p, KeyBit)
        BY <2>1 DEF Holding
    <2>3. i \in UNION Range(p)
        BY <1>3, <1>4, <2>1
    <2>4. i \in Reconstruct(p)
        BY <1>1, <1>2, <2>2, <2>3 DEF Reconstruct
    <2> QED BY <2>4 DEF KeyBit
<1>6. n \in MadeOf(p[k], n)
    BY <1>3 DEF MadeOf
<1>7. ASSUME NEW i \in 1 .. n
      PROVE  \E j \in DOMAIN p : i \in MadeOf(p[j], n)
    <2>1. CASE i = n
        BY <1>6, <2>1
    <2>2. CASE i # n
        <3>1. i \in 1 .. (n - 1)
            BY <2>2
        <3> QED BY <1>5, <3>1
    <2> QED BY <2>1, <2>2
<1> QED BY <1>4, <1>7

LEMMA IntervalSize ==
    ASSUME NEW m \in Nat
    PROVE  IsFiniteSet(1 .. m) /\ Cardinality(1 .. m) = m
<1>1. /\ IsFiniteSet(1 .. m)
      /\ Cardinality(1 .. m) = IF 1 > m THEN 0 ELSE m - 1 + 1
    BY FS_Interval
<1> QED BY <1>1

LEMMA MadeOfType ==
    ASSUME NEW n \in Nat \ {0}, NEW s
    PROVE  /\ MadeOf(s, n) \subseteq 1 .. n
           /\ IsFiniteSet(MadeOf(s, n))
           /\ Cardinality(MadeOf(s, n)) \in Nat
<1>1. MadeOf(s, n) \subseteq 1 .. n
    BY DEF MadeOf
<1>2. IsFiniteSet(MadeOf(s, n))
    BY <1>1, IntervalSize, FS_Subset
<1> QED BY <1>1, <1>2, FS_CardinalityType

LEMMA AtMostOne ==
    ASSUME NEW S, IsFiniteSet(S), Cardinality(S) <= 1,
           NEW a \in S, NEW b \in S
    PROVE  a = b
<1> SUFFICES ASSUME a # b
             PROVE  FALSE
    OBVIOUS
<1>1. Cardinality({a} \cup {b}) = 2
    BY PairCardinality
<1>2. {a} \cup {b} \subseteq S
    OBVIOUS
<1>3. Cardinality({a} \cup {b}) <= Cardinality(S)
    BY <1>2, FS_Subset
<1>4. Cardinality(S) \in Nat
    BY FS_CardinalityType
<1> QED BY <1>1, <1>3, <1>4

(* Strings none of which combines two shares are as many as the shares they
   are made of. *)
LEMMA SingleSharesFit ==
    ASSUME NEW n \in Nat \ {0}, NEW S, NEW p \in Seq(S),
           1 .. n \subseteq UNION {MadeOf(q, n) : q \in Range(p)},
           \A q \in Range(p) : Cardinality(MadeOf(q, n)) <= 1
    PROVE  n <= Len(p)
<1> DEFINE at == [i \in 1 .. n |-> CHOOSE j \in 1 .. Len(p) : i \in MadeOf(p[j], n)]
<1>1. Len(p) \in Nat /\ DOMAIN p = 1 .. Len(p)
    OBVIOUS
<1>2. \A i \in 1 .. n : \E j \in 1 .. Len(p) : i \in MadeOf(p[j], n)
    <2>1. \A i \in 1 .. n : \E q \in Range(p) : i \in MadeOf(q, n)
        OBVIOUS
    <2> QED BY <1>1, <2>1 DEF Range
<1>3. \A i \in 1 .. n : at[i] \in 1 .. Len(p) /\ i \in MadeOf(p[at[i]], n)
    BY <1>2
<1>4. \A j \in 1 .. Len(p) : \A i, k \in MadeOf(p[j], n) : i = k
    <2>1. \A j \in 1 .. Len(p) : Cardinality(MadeOf(p[j], n)) <= 1
        BY <1>1 DEF Range
    <2> QED BY <2>1, MadeOfType, AtMostOne
<1>5. at \in Injection(1 .. n, 1 .. Len(p))
    <2>1. at \in [1 .. n -> 1 .. Len(p)]
        BY <1>3
    <2>2. ASSUME NEW i \in 1 .. n, NEW k \in 1 .. n, at[i] = at[k]
          PROVE  i = k
        <3> HIDE DEF at
        <3>1. i \in MadeOf(p[at[i]], n) /\ k \in MadeOf(p[at[i]], n) /\ at[i] \in 1 .. Len(p)
            BY <1>3, <2>2
        <3> QED BY <1>4, <3>1
    <2> HIDE DEF at
    <2> QED BY <2>1, <2>2 DEF Injection, IsInjective
<1> HIDE DEF at
<1>6. Cardinality(1 .. n) <= Cardinality(1 .. Len(p))
    BY <1>1, <1>5, IntervalSize, FS_Injection
<1>7. Cardinality(1 .. n) = n /\ Cardinality(1 .. Len(p)) = Len(p)
    BY <1>1, IntervalSize
<1> QED BY <1>6, <1>7

-----------------------------------------------------------------------------
(* What one call of unseal() concludes when it reaches the threshold in a
   state of the invariant: a candidate that is the key was made of all the
   shares, so there are as many strings as shares unless one combines some. *)
LEMMA ReconstructionSound ==
    ASSUME SealInv, initialized, sealed, Len(progress) + 1 >= threshold,
           NEW s \in Offered,
           Reconstruct(Append(progress, s)) = {KeyBit}
    PROVE  /\ 1 .. totalShares \subseteq Gathered(Range(progress) \cup {s})
           /\ threshold < totalShares =>
                \E p \in Range(progress) \cup {s} :
                   Cardinality(MadeOf(p, totalShares)) > 1
<1> DEFINE q == Append(progress, s)
<1>1. /\ totalShares \in Nat \ {0}
      /\ threshold \in Nat
      /\ Len(progress) < threshold
      /\ progress \in Seq(Offered)
    BY DEF SealInv, TypeOK, SealCoherent
<1>2. /\ q \in Seq(Offered)
      /\ Len(q) = Len(progress) + 1
      /\ Len(progress) \in Nat
      /\ Range(q) = Range(progress) \cup {s}
    BY <1>1, AppendFacts
<1> HIDE DEF q
<1>3. 1 .. totalShares \subseteq UNION {MadeOf(p, totalShares) : p \in Range(q)}
    BY <1>1, <1>2, XorNeedsAll DEF q
<1>4. ASSUME threshold < totalShares
      PROVE  \E p \in Range(q) : Cardinality(MadeOf(p, totalShares)) > 1
    <2> SUFFICES ASSUME \A p \in Range(q) : ~(Cardinality(MadeOf(p, totalShares)) > 1)
                 PROVE  FALSE
        OBVIOUS
    <2>1. \A p \in Range(q) : Cardinality(MadeOf(p, totalShares)) <= 1
        BY <1>1, MadeOfType
    <2>2. totalShares <= Len(q)
        BY <1>1, <1>2, <1>3, <2>1, SingleSharesFit
    <2> QED BY <1>1, <1>2, <1>4, <2>2
<1> QED BY <1>2, <1>3, <1>4 DEF Gathered

(* The invariant is inductive. *)
LEMMA SealInvInit == Init => SealInv
<1> SUFFICES ASSUME Init
             PROVE  SealInv
    OBVIOUS
<1>1. << >> \in Seq(Offered)
    BY EmptySeq
<1>2. TypeOK
    BY <1>1 DEF Init, TypeOK
<1>3. SealCoherent
    BY DEF Init, SealCoherent
<1> QED BY <1>2, <1>3 DEF SealInv

LEMMA SealInvNext == SealInv /\ [Next]_vars => SealInv'
<1> SUFFICES ASSUME SealInv, [Next]_vars
             PROVE  SealInv'
    OBVIOUS
<1> USE ConfigsAssumption, NoneAssumption
<1>1. ASSUME NEW c \in Configs, Initialize(c[1], c[2])
      PROVE  SealInv'
    <2>1. CASE InitializeAgain(c[1], c[2])
        BY <2>1 DEF SealInv, TypeOK, SealCoherent, Offered, config, InitializeAgain
    <2>2. CASE InitializeRejected(c[1], c[2])
        BY <2>2 DEF SealInv, TypeOK, SealCoherent, Offered, InitializeRejected, KeyBit, Lost
    <2>3. CASE InitializeAccepted(c[1], c[2])
        <3>1. c[1] \in Nat /\ c[2] \in Nat
            BY <2>3 DEF InitializeAccepted
        <3>2. progress' = << >>
            BY <2>3 DEF SealInv, SealCoherent, InitializeAccepted
        <3> QED BY <2>3, <3>1, <3>2 DEF SealInv, TypeOK, SealCoherent, InitializeAccepted
    <2> QED BY <1>1, <2>1, <2>2, <2>3 DEF Initialize
<1>2. ASSUME NEW s \in Offered, ProvideUnsealShare(s)
      PROVE  SealInv'
    <2>1. CASE ProvideUninitialized(s)
        BY <2>1 DEF SealInv, TypeOK, SealCoherent, Offered, config, ProvideUninitialized
    <2>2. CASE ProvideUnsealed(s)
        BY <2>2 DEF SealInv, TypeOK, SealCoherent, Offered, config, ProvideUnsealed
    <2>3. CASE ProvideCollected(s)
        <3>1. Len(progress') = Len(progress) + 1 /\ progress' \in Seq(Offered)
            BY <2>3 DEF SealInv, TypeOK, ProvideCollected
        <3> QED BY <2>3, <3>1
                DEF SealInv, TypeOK, SealCoherent, Offered, config, ProvideCollected
    <2>4. CASE ProvideReconstructs(s)
        <3>1. /\ UNCHANGED config /\ raised' = "none" /\ progress' = << >>
              /\ initialized /\ sealed
              /\ \/ masterKey' = keyHash /\ ~sealed' /\ sealed' \in BOOLEAN
                 \/ UNCHANGED <<masterKey, sealed>>
            BY <2>4 DEF ProvideReconstructs
        <3>2. keyHash = {KeyBit} /\ Len(<< >>) < threshold
            BY <3>1 DEF SealInv, TypeOK, SealCoherent
        <3>3. << >> \in Seq(Offered)
            BY EmptySeq
        <3> QED BY <3>1, <3>2, <3>3 DEF SealInv, TypeOK, SealCoherent, Offered, config
    <2> QED BY <1>2, <2>1, <2>2, <2>3, <2>4 DEF ProvideUnsealShare
<1>3. CASE SealVault
    <2>1. initialized => Len(<< >>) < threshold
        BY DEF SealInv, TypeOK, SealCoherent
    <2> QED BY <1>3, <2>1 DEF SealInv, TypeOK, SealCoherent, Offered, config, SealVault
<1>4. CASE RequireUnsealed
    BY <1>4 DEF SealInv, TypeOK, SealCoherent, Offered, config, RequireUnsealed
<1>5. CASE Reload
    <2>1. initialized => Len(<< >>) < threshold
        BY DEF SealInv, TypeOK, SealCoherent
    <2> QED BY <1>5, <2>1 DEF SealInv, TypeOK, SealCoherent, Offered, config, Reload
<1>6. CASE UNCHANGED vars
    BY <1>6 DEF SealInv, TypeOK, SealCoherent, Offered, vars
<1> QED BY <1>1, <1>2, <1>3, <1>4, <1>5, <1>6 DEF Next

(* Types, and the agreement of sealed, the key, the hash and the progress. *)
THEOREM SealInvariant == Spec => [](TypeOK /\ SealCoherent)
<1>1. SealInv => TypeOK /\ SealCoherent
    BY DEF SealInv
<1> QED BY <1>1, SealInvInit, SealInvNext, PTL DEF Spec

-----------------------------------------------------------------------------
(* The only step that unseals is a reconstruction that found the key. *)
LEMMA UnsealingStep ==
    ASSUME SealInv, [Next]_vars, sealed, ~sealed'
    PROVE  \E s \in Offered :
             /\ ProvideUnsealShare(s)
             /\ 1 .. totalShares \subseteq Gathered(Range(progress) \cup {s})
             /\ threshold < totalShares =>
                  \E p \in Range(progress) \cup {s} :
                     Cardinality(MadeOf(p, totalShares)) > 1
<1>1. PICK s \in Offered : ProvideReconstructs(s)
    BY DEF Next, vars, Initialize, InitializeAgain, InitializeRejected, InitializeAccepted,
           ProvideUnsealShare, ProvideUninitialized, ProvideUnsealed, ProvideCollected,
           SealVault, RequireUnsealed, Reload
<1>2. /\ initialized
      /\ Len(progress) + 1 >= threshold
      /\ Reconstruct(Append(progress, s)) = keyHash
      /\ ProvideUnsealShare(s)
    BY <1>1 DEF ProvideReconstructs, ProvideUnsealShare
<1>3. keyHash = {KeyBit}
    BY <1>2 DEF SealInv, SealCoherent
<1> QED BY <1>2, <1>3, ReconstructionSound

(* No call unseals a vault unless it completes the whole set of shares, alone
   or XORed into others and masked by anything, however often initialize()
   was asked for and whatever the threshold. *)
THEOREM UnsealNeedsAllShares == Spec => AllSharesRequired
<1>1. SealInv /\ [Next]_vars =>
        [sealed /\ ~sealed' =>
           \E s \in Offered :
             /\ ProvideUnsealShare(s)
             /\ 1 .. totalShares \subseteq Gathered(Range(progress) \cup {s})]_vars
    BY UnsealingStep
<1> QED BY <1>1, SealInvInit, SealInvNext, PTL DEF Spec, AllSharesRequired

(* A vault initialised with a threshold below its number of shares, whatever
   the two are, unseals only by an attempt one of whose strings is the XOR of
   several shares: never with the shares as they were handed out. *)
THEOREM BelowTotalNeedsCombined == Spec => BelowTotalTakesCombined
<1>1. SealInv /\ [Next]_vars =>
        [sealed /\ ~sealed' /\ threshold < totalShares =>
           \E s \in Offered :
             /\ ProvideUnsealShare(s)
             /\ \E p \in Range(progress) \cup {s} :
                  Cardinality(MadeOf(p, totalShares)) > 1]_vars
    BY UnsealingStep
<1> QED BY <1>1, SealInvInit, SealInvNext, PTL DEF Spec, BelowTotalTakesCombined

-----------------------------------------------------------------------------
(* The converse.  n genuine shares without a repetition hold each share once:
   every random value occurs twice and cancels, and the key once. *)
OnlyAt(p, n, i, k) == k \in 1 .. n /\ \A j \in 1 .. n : p[j] = Share(i, n) <=> j = k

LEMMA EachShareOnce ==
    ASSUME NEW n \in Nat \ {0},
           NEW p \in Seq(Handed(n)), Len(p) = n,
           Cardinality(Range(p)) >= n
    PROVE  \A i \in 1 .. n : \E k : OnlyAt(p, n, i, k)
<1>1. IsFiniteSet(1 .. n) /\ Cardinality(1 .. n) = n
    <2>1. /\ IsFiniteSet(1 .. n)
          /\ Cardinality(1 .. n) = IF 1 > n THEN 0 ELSE n - 1 + 1
        BY FS_Interval
    <2> QED BY <2>1
<1> DEFINE give == [i \in 1 .. n |-> Share(i, n)]
<1>2. give \in Surjection(1 .. n, Handed(n))
    BY DEF Surjection, Handed
<1>3. IsFiniteSet(Handed(n)) /\ Cardinality(Handed(n)) <= n
    BY <1>1, <1>2, FS_Surjection
<1>4. p \in Surjection(1 .. n, Range(p))
    BY RangeSurjection
<1>5. /\ IsFiniteSet(Range(p))
      /\ Cardinality(Range(p)) <= n
      /\ Cardinality(Range(p)) = Cardinality(1 .. n) => p \in Injection(1 .. n, Range(p))
    BY <1>1, <1>4, FS_Surjection
<1>6. Cardinality(Range(p)) \in Nat /\ Cardinality(Handed(n)) \in Nat
    BY <1>3, <1>5, FS_CardinalityType
<1>7. Cardinality(Range(p)) = n /\ p \in Injection(1 .. n, Range(p))
    BY <1>1, <1>5, <1>6
<1>8. Range(p) \subseteq Handed(n)
    BY DEF Range
<1>9. Range(p) = Handed(n)
    <2>1. /\ Cardinality(Range(p)) <= Cardinality(Handed(n))
          /\ Cardinality(Handed(n)) = Cardinality(Range(p)) => Handed(n) = Range(p)
        BY <1>3, <1>8, FS_Subset
    <2> QED BY <1>3, <1>6, <1>7, <2>1
<1>10. ASSUME NEW i \in 1 .. n
       PROVE  \E k : OnlyAt(p, n, i, k)
    <2> HIDE DEF give
    <2>1. Share(i, n) \in Range(p)
        BY <1>9 DEF Handed
    <2>2. DOMAIN p = 1 .. n
        OBVIOUS
    <2>3. PICK k \in 1 .. n : p[k] = Share(i, n)
        BY <2>1, <2>2 DEF Range
    <2>4. \A j \in 1 .. n : p[j] = p[k] => j = k
        BY <1>7, <2>2 DEF Injection, IsInjective
    <2>5. OnlyAt(p, n, i, k)
        BY <2>3, <2>4 DEF OnlyAt
    <2> QED BY <2>5
<1> QED BY <1>10

(* All n distinct shares, in any order, XOR to the key. *)
LEMMA XorOfAll ==
    ASSUME NEW n \in Nat \ {0},
           NEW p \in Seq(Handed(n)), Len(p) = n,
           Cardinality(Range(p)) >= n
    PROVE  Reconstruct(p) = {KeyBit}
<1>1. \A i \in 1 .. n : \E k : OnlyAt(p, n, i, k)
    BY EachShareOnce
<1>2. DOMAIN p = 1 .. n /\ \A j \in 1 .. n : \E i \in 1 .. n : p[j] = Share(i, n)
    BY DEF Handed
<1>3. n \in 1 .. n
    OBVIOUS
<1>4. PICK k : OnlyAt(p, n, n, k)
    BY <1>1, <1>3
<1>5. Holding(p, KeyBit) = {k}
    <2>1. \A j \in 1 .. n : KeyBit \in p[j] <=> p[j] = Share(n, n)
        <3>1. ASSUME NEW j \in 1 .. n, KeyBit \in p[j]
              PROVE  p[j] = Share(n, n)
            <4>1. PICK h \in 1 .. n : p[j] = Share(h, n)
                BY <1>2
            <4> QED BY <3>1, <4>1, ShareMembership
        <3>2. KeyBit \in Share(n, n)
            BY <1>3, ShareMembership
        <3> QED BY <3>1, <3>2
    <2> QED BY <1>2, <1>4, <2>1 DEF Holding, OnlyAt
<1>6. \A i \in 1 .. n : Short \notin Share(i, n)
    BY ShareMembership
<1>7. Holding(p, Short) = {}
    BY <1>2, <1>6 DEF Holding
<1>8. ASSUME NEW i \in 1 .. (n - 1)
      PROVE  Cardinality(Holding(p, i)) = 2
    <2>1. i \in 1 .. n
        OBVIOUS
    <2>2. PICK m : OnlyAt(p, n, i, m)
        BY <1>1, <2>1
    <2>3. Share(i, n) # Share(n, n)
        <3>1. ~(KeyBit \in Share(i, n)) /\ KeyBit \in Share(n, n)
            BY <1>3, <2>1, ShareMembership
        <3> QED BY <3>1
    <2>4. m # k
        BY <1>4, <2>2, <2>3 DEF OnlyAt
    <2>5. \A j \in 1 .. n : i \in p[j] <=> p[j] \in {Share(i, n), Share(n, n)}
        <3>1. \A h \in 1 .. n : i \in Share(h, n) <=> h \in {i, n}
            BY ShareMembership
        <3> QED BY <1>2, <1>3, <2>1, <3>1
    <2>6. Holding(p, i) = {m} \cup {k}
        BY <1>2, <1>4, <2>2, <2>5 DEF Holding, OnlyAt
    <2> QED BY <2>4, <2>6, PairCardinality, Zenon
<1>9. Cardinality(Holding(p, KeyBit)) % 2 = 1
    <2>1. Cardinality({k}) = 1
        BY FS_Singleton
    <2> QED BY <1>5, <2>1
<1>10. ASSUME NEW b \in UNION Range(p)
       PROVE  b = KeyBit \/ b \in 1 .. (n - 1)
    <2>1. \A i \in 1 .. n : Share(i, n) \subseteq {KeyBit} \cup (1 .. (n - 1))
        BY ShareMembership
    <2> QED BY <1>2, <2>1 DEF Range
<1>11. KeyBit \in UNION Range(p)
    <2>1. k \in DOMAIN p /\ KeyBit \in p[k]
        BY <1>5 DEF Holding
    <2> QED BY <2>1 DEF Range
<1>12. \A b \in 1 .. (n - 1) : Cardinality(Holding(p, b)) % 2 # 1
    BY <1>8
<1> QED BY <1>7, <1>9, <1>10, <1>11, <1>12 DEF Reconstruct

(* With the threshold at the number of shares, unseal() opens the vault with
   the last of the shares, in whatever order they come. *)
THEOREM AllSharesAreEnough == Spec => AllSharesUnseal
<1> DEFINE Good == \A s \in Handed(totalShares) :
                     threshold = totalShares /\ Completes(s) => ~sealed'
<1>1. SealInv => Good
    <2> SUFFICES ASSUME SealInv, NEW s \in Handed(totalShares),
                        threshold = totalShares, Completes(s)
                 PROVE  ~sealed'
        OBVIOUS
    <2> DEFINE p == Append(progress, s)
    <2>1. /\ totalShares \in Nat \ {0}
          /\ Len(progress) < totalShares
          /\ progress \in Seq(Offered)
          /\ keyHash = {KeyBit}
        BY DEF SealInv, TypeOK, SealCoherent, Completes
    <2>2. /\ initialized /\ sealed
          /\ Range(progress) \cup {s} \subseteq Handed(totalShares)
          /\ Cardinality(Range(progress) \cup {s}) >= totalShares
        BY DEF Completes
    <2>3. progress \in Seq(Handed(totalShares))
        BY <2>1, <2>2, SeqOfRange
    <2>4. /\ p \in Seq(Handed(totalShares))
          /\ Len(p) = Len(progress) + 1
          /\ Range(p) = Range(progress) \cup {s}
        BY <2>3, AppendFacts
    <2>5. Len(p) = totalShares
        <3>1. /\ p \in Surjection(1 .. Len(p), Range(p))
              /\ IsFiniteSet(1 .. Len(p)) /\ Cardinality(1 .. Len(p)) = Len(p)
            BY <2>4, RangeSurjection
        <3>3. IsFiniteSet(Range(p)) /\ Cardinality(Range(p)) <= Len(p)
            BY <3>1, FS_Surjection
        <3>4. Cardinality(Range(p)) \in Nat
            BY <3>3, FS_CardinalityType
        <3>5. Len(progress) \in Nat
            BY <2>1
        <3> QED BY <2>1, <2>2, <2>4, <3>3, <3>4, <3>5
    <2>6. Reconstruct(p) = keyHash
        BY <2>1, <2>2, <2>4, <2>5, XorOfAll
    <2>7. Len(progress) + 1 >= threshold
        BY <2>4, <2>5
    <2>8. CASE ProvideReconstructs(s)
        BY <2>6, <2>8 DEF ProvideReconstructs
    <2>9. CASE ProvideCollected(s)
        <3>1. Len(progress) \in Nat /\ threshold \in Nat
            BY <2>1
        <3> QED BY <2>7, <2>9, <3>1 DEF ProvideCollected
    <2> QED BY <2>2, <2>8, <2>9
            DEF Completes, ProvideUnsealShare, ProvideUninitialized, ProvideUnsealed
<1>2. SealInv /\ [Next]_vars => [Good]_vars
    BY <1>1
<1> QED BY <1>2, SealInvInit, SealInvNext, PTL DEF Spec, AllSharesUnseal

(* What SealManager holds has its types, never more progress than shares made,
   whatever is sent to it and however often it is sealed and restarted. *)
THEOREM SealTypes == Spec => []TypeOK
BY SealInvariant, PTL

-----------------------------------------------------------------------------
(* The holder whose turn it is has a share. *)
TurnOK ==
    /\ turn \in Nat \ {0}
    /\ IF initialized THEN turn <= totalShares ELSE turn = 1

(* The shares the progress is made of were all sent since the last seal(). *)
ProgressSent == Gathered(Range(progress)) \subseteq since

CeremonyInv == SealInv /\ TurnOK /\ ProgressSent /\ NoStaleShare

-----------------------------------------------------------------------------
LEMMA NothingGathered ==
    /\ progress = << >> => Gathered(Range(progress)) = {}
    /\ progress' = << >> => Gathered(Range(progress))' = {}
BY DEF Range, Gathered

LEMMA CeremonyInitInv == CeremonyInit => Init /\ CeremonyInv
<1> SUFFICES ASSUME CeremonyInit
             PROVE  Init /\ CeremonyInv
    OBVIOUS
<1>1. Init /\ SealInv
    BY SealInvInit DEF CeremonyInit
<1>2. TurnOK
    BY DEF CeremonyInit, Init, TurnOK
<1>3. ProgressSent /\ NoStaleShare
    BY NothingGathered DEF CeremonyInit, Init, ProgressSent, NoStaleShare
<1> QED BY <1>1, <1>2, <1>3 DEF CeremonyInv

(* A holder's share is one that was handed out. *)
LEMMA HolderHasShare ==
    ASSUME SealInv, TurnOK, initialized
    PROVE  /\ turn \in 1 .. totalShares /\ totalShares \in Nat \ {0}
           /\ Share(turn, totalShares) \in Offered
<1>1. turn \in 1 .. totalShares /\ totalShares \in Nat \ {0}
    BY DEF SealInv, TypeOK, SealCoherent, TurnOK
<1>2. Share(turn, totalShares) \subseteq KeyBit .. totalShares - 1
    BY <1>1 DEF Share, KeyBit
<1> QED BY <1>1, <1>2 DEF Offered

LEMMA SendIsSealStep ==
    ASSUME NEW s \in Offered, Send(s)
    PROVE  Next
BY DEF Send, Next

(* Every step of the ceremony is one of SealManager. *)
LEMMA CeremonyStep ==
    ASSUME SealInv, TurnOK, [CeremonyNext]_ceremonyVars
    PROVE  [Next]_vars
<1>1. ASSUME NEW c \in Configs, Start(c[1], c[2])
      PROVE  Next
    BY <1>1 DEF Start, Next
<1>2. ASSUME HolderSends
      PROVE  Next
    <2>1. Send(Share(turn, totalShares)) /\ initialized
        BY <1>2 DEF HolderSends
    <2> QED BY <2>1, HolderHasShare, SendIsSealStep
<1>3. ASSUME Disturb
      PROVE  Next
    BY <1>3, SendIsSealStep DEF Disturb, Next
<1>4. Request => Next
    BY DEF Request, Next
<1>5. CalmsDown \/ UNCHANGED ceremonyVars => UNCHANGED vars
    BY DEF CalmsDown, ceremonyVars
<1> QED BY <1>1, <1>2, <1>3, <1>4, <1>5 DEF CeremonyNext

-----------------------------------------------------------------------------
(* A share that is sent is either collected or decides the attempt. *)
LEMMA SendKeepsShares ==
    ASSUME CeremonyInv, NEW s \in Offered, Send(s)
    PROVE  ProgressSent' /\ NoStaleShare' /\ UNCHANGED <<initialized, totalShares>>
<1>1. /\ UNCHANGED config
      /\ since' = IF initialized /\ sealed
                  THEN since \cup MadeOf(s, totalShares) ELSE since
      /\ progress \in Seq(Offered)
    BY DEF Send, ProvideUnsealShare, ProvideUninitialized, ProvideUnsealed, ProvideCollected,
           ProvideReconstructs, config, CeremonyInv, SealInv, TypeOK
<1>2. CASE ProvideUninitialized(s) \/ ProvideUnsealed(s)
    <2>1. UNCHANGED <<config, sealed, progress>> /\ since' = since
        BY <1>1, <1>2 DEF ProvideUninitialized, ProvideUnsealed
    <2> QED BY <2>1 DEF CeremonyInv, ProgressSent, Gathered, NoStaleShare, config
<1>3. CASE ProvideCollected(s)
    <2>1. /\ initialized /\ sealed /\ sealed' = sealed
          /\ Range(progress') = Range(progress) \cup {s}
        BY <1>1, <1>3, AppendFacts DEF ProvideCollected
    <2> QED BY <1>1, <2>1 DEF CeremonyInv, ProgressSent, Gathered, NoStaleShare, config
<1>4. CASE ProvideReconstructs(s)
    <2>1. ProgressSent'
        BY <1>4, NothingGathered DEF ProvideReconstructs, ProgressSent
    <2>2. ASSUME ~sealed'
          PROVE  1 .. totalShares \subseteq since'
        <3>1. /\ initialized /\ sealed
              /\ Len(progress) + 1 >= threshold
              /\ Reconstruct(Append(progress, s)) = keyHash
            BY <1>4, <2>2 DEF ProvideReconstructs
        <3>2. Reconstruct(Append(progress, s)) = {KeyBit}
            BY <3>1 DEF CeremonyInv, SealInv, SealCoherent
        <3>3. 1 .. totalShares \subseteq Gathered(Range(progress) \cup {s})
            BY <3>1, <3>2, ReconstructionSound DEF CeremonyInv
        <3>4. since' = since \cup MadeOf(s, totalShares)
            BY <1>1, <3>1
        <3> QED BY <3>3, <3>4 DEF CeremonyInv, ProgressSent, Gathered
    <2> QED BY <1>1, <2>1, <2>2 DEF NoStaleShare, config
<1> QED BY <1>1, <1>2, <1>3, <1>4 DEF Send, ProvideUnsealShare, config

LEMMA CeremonyInvNext == CeremonyInv /\ [CeremonyNext]_ceremonyVars => CeremonyInv'
<1> SUFFICES ASSUME CeremonyInv, [CeremonyNext]_ceremonyVars
             PROVE  CeremonyInv'
    OBVIOUS
<1>0. SealInv'
    BY CeremonyStep, SealInvNext DEF CeremonyInv
<1> DEFINE Goal == TurnOK' /\ ProgressSent' /\ NoStaleShare'
<1>1. ASSUME NEW c \in Configs, Start(c[1], c[2])
      PROVE  Goal
    <2>1. Initialize(c[1], c[2]) /\ UNCHANGED <<turn, since, progress>>
        BY <1>1 DEF Start, Initialize, InitializeAgain, InitializeRejected, InitializeAccepted
    <2>2. CASE UNCHANGED <<initialized, sealed, totalShares>>
        BY <2>1, <2>2 DEF CeremonyInv, TurnOK, ProgressSent, Gathered, NoStaleShare
    <2>3. CASE InitializeAccepted(c[1], c[2])
        <3>1. /\ ~initialized /\ initialized' /\ sealed'
              /\ progress' = << >>
            BY <2>1, <2>3 DEF InitializeAccepted, CeremonyInv, SealInv, SealCoherent
        <3>2. turn' = 1 /\ totalShares' >= 1
            BY <2>1, <3>1, <1>0 DEF CeremonyInv, SealInv, SealCoherent, TypeOK, TurnOK
        <3> QED BY <3>1, <3>2, NothingGathered DEF TurnOK, ProgressSent, NoStaleShare
    <2> QED BY <2>1, <2>2, <2>3
            DEF Initialize, InitializeAgain, InitializeRejected, config
<1>2. ASSUME HolderSends
      PROVE  Goal
    <2>1. /\ Send(Share(turn, totalShares)) /\ initialized
          /\ turn' = (turn % totalShares) + 1
        BY <1>2 DEF HolderSends
    <2>2. ProgressSent' /\ NoStaleShare' /\ UNCHANGED <<initialized, totalShares>>
        BY <2>1, HolderHasShare, SendKeepsShares DEF CeremonyInv
    <2>3. turn \in Nat /\ totalShares \in Nat \ {0}
        BY <2>1, HolderHasShare DEF CeremonyInv
    <2>4. turn % totalShares \in 0 .. totalShares - 1
        BY <2>3
    <2>5. TurnOK'
        BY <2>1, <2>2, <2>3, <2>4 DEF TurnOK
    <2> QED BY <2>2, <2>5
<1>3. ASSUME Disturb
      PROVE  Goal
    <2>1. UNCHANGED turn
        BY <1>3 DEF Disturb
    <2>2. CASE \E s \in Offered : Send(s)
        <3>1. ProgressSent' /\ NoStaleShare' /\ UNCHANGED <<initialized, totalShares>>
            BY <2>2, SendKeepsShares
        <3> QED BY <2>1, <3>1 DEF CeremonyInv, TurnOK
    <2>3. CASE SealVault \/ Reload
        <3>1. sealed' /\ progress' = << >> /\ UNCHANGED <<initialized, totalShares>>
            BY <2>3 DEF SealVault, Reload, config
        <3> QED BY <2>1, <3>1, NothingGathered DEF CeremonyInv, TurnOK, ProgressSent, Gathered, NoStaleShare
    <2> QED BY <1>3, <2>2, <2>3 DEF Disturb
<1>4. ASSUME Request \/ CalmsDown \/ UNCHANGED ceremonyVars
      PROVE  Goal
    <2>1. UNCHANGED <<turn, since, initialized, sealed, totalShares, progress>>
        BY <1>4 DEF Request, RequireUnsealed, CalmsDown, ceremonyVars, vars, config
    <2> QED BY <2>1 DEF CeremonyInv, TurnOK, ProgressSent, Gathered, NoStaleShare
<1> HIDE DEF Goal
<1>5. Goal
    BY <1>1, <1>2, <1>3, <1>4 DEF CeremonyNext
<1> QED BY <1>0, <1>5 DEF Goal, CeremonyInv

(* The ceremony, with its stray shares, seals and restarts, is a use of
   SealManager: the theorems about Seal are theorems about it. *)
THEOREM CeremonyUsesSeal == CeremonySpec => Spec
<1>1. CeremonyInv /\ [CeremonyNext]_ceremonyVars => [Next]_vars
    BY CeremonyStep DEF CeremonyInv
<1> QED BY <1>1, CeremonyInitInv, CeremonyInvNext, PTL DEF CeremonySpec, Spec

(* seal() and a restart void the shares given before: whoever opens the vault
   has brought every share again, as it is or within an XOR, however the calls
   are interleaved. *)
THEOREM SealVoidsShares == CeremonySpec => []NoStaleShare
<1>1. CeremonyInv => NoStaleShare
    BY DEF CeremonyInv
<1> QED BY <1>1, CeremonyInitInv, CeremonyInvNext, PTL DEF CeremonySpec

=============================================================================
