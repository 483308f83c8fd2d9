------------------------ MODULE VersionedSecretProofs ------------------------
(***************************************************************************)
(* Proofs about VersionedSecret, for any data, any number of retained      *)
(* versions and any number of writes.                                      *)
(***************************************************************************)
EXTENDS VersionedSecret, VersionListProofs

USE MaxVersionsAssumption, MaxWritesAssumption, DataAssumption, NoneAssumption

-----------------------------------------------------------------------------
-----------------------------------------------------------------------------
(* The inductive invariant: each part is one of the checked invariants. *)
Inv == TypeOK /\ NumberedInOrder /\ DataKeptOrErased

Newest == nextVersion - 1

LEMMA InvNumbered ==
    ASSUME Inv
    PROVE  Numbered(versions, Newest) /\ Newest = Len(written)
<1>1. Min({MaxVersions, Newest}) <= Newest
    BY MinOfTwo DEF Newest, Inv, TypeOK
<1>2. Len(versions) = Min({MaxVersions, Newest}) /\ Newest \in Nat /\ Newest = Len(written)
    BY DEF Inv, TypeOK, NumberedInOrder, Newest
<1>3. Len(versions) \in Nat /\ DOMAIN versions = 1 .. Len(versions)
    BY DEF Inv, TypeOK
<1>4. \A i \in DOMAIN versions : versions[i].version = Newest - Len(versions) + i
    BY DEF Inv, NumberedInOrder, Newest
<1> QED BY <1>1, <1>2, <1>3, <1>4 DEF Numbered

LEMMA Found ==
    ASSUME Inv, NEW n \in Int
    PROVE  /\ Find(versions, n) \in 0 .. Len(versions)
           /\ Find(versions, n) # 0 <=> (n > Newest - Len(versions) /\ n <= Newest)
           /\ Find(versions, n) # 0 => /\ Find(versions, n) = n - (Newest - Len(versions))
                             /\ versions[Find(versions, n)].version = n
<1>1. Numbered(versions, Newest)
    BY InvNumbered
<1>2. Find(versions, n) = IF n > Newest - Len(versions) /\ n <= Newest
                          THEN n - (Newest - Len(versions)) ELSE 0
    BY <1>1, FoundByNumber
<1> QED BY <1>1, <1>2 DEF Numbered

LEMMA CurrentFound ==
    ASSUME Inv
    PROVE  LET live == {i \in 1 .. Len(versions) : ~versions[i].destroyed /\ ~versions[i].deleted} IN
             /\ live = {} => Current(versions) = 0
             /\ live # {} => Current(versions) \in live /\ \A i \in live : i <= Current(versions)
BY CurrentIs DEF Inv, TypeOK

LEMMA LookupFound ==
    ASSUME Inv, NEW n \in Int \cup {None}
    PROVE  /\ Lookup(versions, n) \in 0 .. Len(versions)
           /\ Lookup(versions, n) # 0 => ~versions[Lookup(versions, n)].destroyed
           /\ Lookup(versions, n) # 0 /\ n # None => Lookup(versions, n) = Find(versions, n)
BY InvNumbered, LookupIs

-----------------------------------------------------------------------------
(* What write() leaves in the list. *)
LEMMA ListAfterWrite ==
    ASSUME Inv, NEW r \in VersionRecord
    PROVE  LET list == Kept(Append(versions, r)) IN
             /\ list \in Seq(VersionRecord)
             /\ Len(list) = IF Len(versions) < MaxVersions THEN Len(versions) + 1 ELSE MaxVersions
             /\ \A i \in 1 .. Len(list) :
                  list[i] = IF i = Len(list) THEN r
                            ELSE versions[i + Len(versions) + 1 - Len(list)]
<1> DEFINE longer == Append(versions, r)
<1>1. versions \in Seq(VersionRecord) /\ Len(versions) \in Nat /\ Len(versions) <= MaxVersions
    BY DEF Inv, TypeOK
<1>2. /\ longer \in Seq(VersionRecord)
      /\ Len(longer) = Len(versions) + 1
      /\ \A i \in 1 .. Len(longer) : longer[i] = IF i = Len(longer) THEN r ELSE versions[i]
    BY <1>1
<1> HIDE DEF longer
<1>3. CASE Len(versions) < MaxVersions
    <2>1. Kept(longer) = longer
        BY <1>1, <1>2, <1>3 DEF Kept
    <2> QED BY <1>1, <1>2, <1>3, <2>1 DEF longer
<1>4. CASE ~(Len(versions) < MaxVersions)
    <2>1. Kept(longer) = Tail(longer) /\ Len(versions) = MaxVersions
        BY <1>1, <1>2, <1>4 DEF Kept
    <2>2. longer # << >>
        BY <1>1, <1>2
    <2>3. /\ Tail(longer) \in Seq(VersionRecord)
          /\ Len(Tail(longer)) = MaxVersions
          /\ \A i \in 1 .. MaxVersions : Tail(longer)[i] = longer[i + 1]
        BY <1>1, <1>2, <2>1, <2>2, HeadTailProperties
    <2>4. \A i \in 1 .. MaxVersions :
             Tail(longer)[i] = IF i = MaxVersions THEN r ELSE versions[i + 1]
        BY <1>2, <2>1, <2>3
    <2>5. \A i \in 1 .. MaxVersions : i + Len(versions) + 1 - MaxVersions = i + 1
        BY <2>1
    <2> QED BY <1>4, <2>1, <2>3, <2>4, <2>5 DEF longer
<1> QED BY <1>3, <1>4

(* Whether a version carries what was written, as DataKeptOrErased has it. *)
Sound(v) == IF v.destroyed THEN v.data = Erased /\ v.deleted ELSE v.data = written[v.version]

LEMMA WriteKeepsInv ==
    ASSUME Inv, NEW d \in Data, Write(d)
    PROVE  Inv'
<1> DEFINE r == [version |-> nextVersion, data |-> d, deleted |-> FALSE, destroyed |-> FALSE]
<1>1. r \in VersionRecord
    BY DEF VersionRecord, Inv, TypeOK
<1>2. /\ versions' = Kept(Append(versions, r))
      /\ nextVersion' = nextVersion + 1 /\ nextVersion' = Newest + 2
      /\ written' = Append(written, d)
    BY DEF Write, Written, Newest, Inv, TypeOK
<1> HIDE DEF r
<1>3. /\ versions' \in Seq(VersionRecord)
      /\ Len(versions') = IF Len(versions) < MaxVersions THEN Len(versions) + 1 ELSE MaxVersions
      /\ \A i \in 1 .. Len(versions') :
           versions'[i] = IF i = Len(versions') THEN r
                          ELSE versions[i + Len(versions) + 1 - Len(versions')]
    BY <1>1, <1>2, ListAfterWrite
<1>4. /\ Newest \in Nat /\ nextVersion = Newest + 1
      /\ Newest = Len(written) /\ written \in Seq(Data)
      /\ Len(versions) \in Nat /\ Len(versions) <= MaxVersions /\ Len(versions) <= Newest
      /\ Len(versions) < MaxVersions => Len(versions) = Newest
      /\ \A i \in 1 .. Len(versions) : versions[i].version = Newest - Len(versions) + i
      /\ \A i \in 1 .. Len(versions) : Sound(versions[i])
    <2>1. Len(versions) < MaxVersions => Len(versions) = Newest
        <3>1. Len(versions) = Min({MaxVersions, Newest})
            BY DEF Inv, NumberedInOrder, Newest
        <3> QED BY <3>1, MinOfTwo, InvNumbered DEF Numbered
    <2>2. versions \in Seq(VersionRecord) /\ Len(versions) <= MaxVersions /\ written \in Seq(Data)
        BY DEF Inv, TypeOK
    <2>3. \A i \in 1 .. Len(versions) : Sound(versions[i])
        BY <2>2 DEF Inv, DataKeptOrErased, Sound
    <2>4. nextVersion = Newest + 1
        BY DEF Inv, TypeOK, Newest
    <2> QED BY <2>1, <2>2, <2>3, <2>4, InvNumbered DEF Numbered
<1> DEFINE k == Len(versions')
<1>8. k \in Nat /\ k <= Len(versions) + 1 /\ k <= Newest + 1
    BY <1>3, <1>4
<1>9. /\ r.version = Newest + 1 /\ r.data = d /\ ~r.destroyed
    BY <1>4 DEF r
<1>10. ASSUME NEW i \in 1 .. k
       PROVE  \/ i = k /\ versions'[i] = r
              \/ \E j \in 1 .. Len(versions) :
                   /\ versions'[i] = versions[j]
                   /\ Newest + 1 - k + i = Newest - Len(versions) + j
    <2>1. versions'[i] = IF i = k THEN r ELSE versions[i + Len(versions) + 1 - k]
        BY <1>3, <1>10
    <2> DEFINE j == i + Len(versions) + 1 - k
    <2>2. CASE i # k
        <3>1. Len(versions) <= k
            BY <1>3, <1>4
        <3>2. j \in 1 .. Len(versions) /\ Newest + 1 - k + i = Newest - Len(versions) + j
            BY <1>4, <1>8, <2>2, <1>10, <3>1
        <3> QED BY <2>1, <2>2, <3>2
    <2> QED BY <2>1, <2>2
<1>5. TypeOK'
    BY <1>2, <1>3, <1>4 DEF TypeOK
<1>6. NumberedInOrder'
    <2>1. Len(versions') = Min({MaxVersions, Newest + 1})
        <3>1. Min({MaxVersions, Newest + 1}) =
                IF MaxVersions <= Newest + 1 THEN MaxVersions ELSE Newest + 1
            BY <1>4, MinOfTwo
        <3> QED BY <1>3, <1>4, <3>1
    <2>2. ASSUME NEW i \in 1 .. k
          PROVE  versions'[i].version = Newest + 1 - k + i
        <3>1. CASE i = k /\ versions'[i] = r
            BY <1>4, <1>8, <1>9, <3>1
        <3>2. CASE \E j \in 1 .. Len(versions) :
                     /\ versions'[i] = versions[j]
                     /\ Newest + 1 - k + i = Newest - Len(versions) + j
            BY <1>4, <3>2
        <3> QED BY <1>10, <3>1, <3>2
    <2>3. Len(written') = Newest + 1 /\ nextVersion' - 1 = Newest + 1
        BY <1>2, <1>4
    <2>4. DOMAIN versions' = 1 .. k
        BY <1>3
    <2>5. Len(versions') = Min({MaxVersions, nextVersion' - 1})
        BY <2>1, <2>3, Zenon
    <2>6. \A i \in 1 .. k : versions'[i].version = (nextVersion' - 1) - k + i
        <3>1. nextVersion' \in Int /\ nextVersion' = Newest + 2 /\ Newest \in Int /\ k \in Int
            BY <1>2, <1>4, <1>8
        <3> HIDE DEF k
        <3> QED BY <2>2, <3>1
    <2>7. Len(written') = nextVersion' - 1
        BY <2>3, Zenon
    <2> QED BY <2>4, <2>5, <2>6, <2>7, Zenon DEF NumberedInOrder
<1>7. DataKeptOrErased'
    <2>1. ASSUME NEW i \in 1 .. k
          PROVE  Sound(versions[i])'
        <3>1. CASE i = k /\ versions'[i] = r
            <4>1. written'[Newest + 1] = d
                BY <1>2, <1>4
            <4> QED BY <1>9, <3>1, <4>1 DEF Sound
        <3>2. CASE \E j \in 1 .. Len(versions) :
                     /\ versions'[i] = versions[j]
                     /\ Newest + 1 - k + i = Newest - Len(versions) + j
            <4>1. PICK j \in 1 .. Len(versions) : versions'[i] = versions[j]
                BY <3>2
            <4>2. versions[j].version \in 1 .. Newest
                BY <1>4
            <4>3. written'[versions[j].version] = written[versions[j].version]
                BY <1>2, <1>4, <4>2
            <4>4. Sound(versions[j])
                BY <1>4
            <4> QED BY <4>1, <4>3, <4>4 DEF Sound
        <3> QED BY <1>10, <3>1, <3>2
    <2> QED BY <1>3, <2>1 DEF DataKeptOrErased, Sound
<1> QED BY <1>5, <1>6, <1>7 DEF Inv

(* A step that rewrites one version under its number. *)
Rewrites(i, r) ==
    /\ versions' = [versions EXCEPT ![i] = r]
    /\ nextVersion' = nextVersion /\ written' = written

LEMMA RewriteKeepsInv ==
    ASSUME Inv, NEW i \in 1 .. Len(versions), NEW r \in VersionRecord,
           r.version = versions[i].version, Sound(r), Rewrites(i, r)
    PROVE  Inv'
<1>1. /\ versions' \in Seq(VersionRecord) /\ Len(versions') = Len(versions)
      /\ DOMAIN versions' = DOMAIN versions
      /\ \A j \in DOMAIN versions : versions'[j] = IF j = i THEN r ELSE versions[j]
    BY DEF Rewrites, Inv, TypeOK
<1>2. TypeOK'
    BY <1>1 DEF Rewrites, Inv, TypeOK
<1>3. NumberedInOrder'
    BY <1>1 DEF Rewrites, Inv, NumberedInOrder
<1>4. DataKeptOrErased'
    BY <1>1 DEF Rewrites, Inv, DataKeptOrErased, Sound
<1> QED BY <1>2, <1>3, <1>4 DEF Inv

-----------------------------------------------------------------------------
(* Every other method raises, or returns a version, or rewrites one. *)
LEMMA VersionAt ==
    ASSUME Inv, NEW i \in 1 .. Len(versions)
    PROVE  versions[i] \in VersionRecord /\ Sound(versions[i])
BY DEF Inv, TypeOK, DataKeptOrErased, Sound

LEMMA DeletedVersion ==
    ASSUME NEW v \in VersionRecord, ~v.destroyed, Sound(v)
    PROVE  /\ Deleted(v) \in VersionRecord /\ Deleted(v).version = v.version /\ Sound(Deleted(v))
           /\ Undeleted(v) \in VersionRecord /\ Undeleted(v).version = v.version
           /\ Sound(Undeleted(v))
BY DEF Deleted, Undeleted, VersionRecord, Sound

LEMMA DestroyedVersion ==
    ASSUME NEW n \in Nat
    PROVE  /\ Destroyed(n) \in VersionRecord /\ Destroyed(n).version = n /\ Sound(Destroyed(n))
BY DEF Destroyed, VersionRecord, Sound

Same == UNCHANGED <<versions, nextVersion, written>>

LEMMA ReadSteps ==
    ASSUME NEW n, Read(n)
    PROVE  Same
BY DEF Read, Raise, Same

LEMMA SoftDeleteSteps ==
    ASSUME Inv, NEW n \in Int \cup {None}, SoftDelete(n)
    PROVE  LET i == Lookup(versions, n) IN
             \/ i = 0 /\ Same
             \/ /\ i \in 1 .. Len(versions) /\ ~versions[i].destroyed
                /\ Rewrites(i, Deleted(versions[i])) /\ reply' = <<versions[i].version>>
<1> DEFINE i == Lookup(versions, n)
<1>1. CASE i = 0
    BY <1>1 DEF SoftDelete, Raise, Same
<1>2. CASE i # 0
    <2>1. i \in 1 .. Len(versions) /\ ~versions[i].destroyed
        BY <1>2, LookupFound DEF Inv, TypeOK
    <2>2. Rewrite(i, Deleted(versions[i]))
        BY <1>2 DEF SoftDelete
    <2> QED BY <2>1, <2>2 DEF Rewrite, Rewrites, Deleted
<1> QED BY <1>1, <1>2

LEMMA UndeleteSteps ==
    ASSUME Inv, NEW n \in Int, Undelete(n)
    PROVE  LET i == Find(versions, n) IN
             \/ (i = 0 \/ versions[i].destroyed) /\ Same
             \/ /\ i \in 1 .. Len(versions) /\ ~versions[i].destroyed
                /\ Rewrites(i, Undeleted(versions[i])) /\ reply' = <<n>>
<1> DEFINE i == Find(versions, n)
<1>1. CASE i = 0 \/ versions[i].destroyed
    BY <1>1 DEF Undelete, Raise, Same
<1>2. CASE ~(i = 0 \/ versions[i].destroyed)
    <2>1. i \in 1 .. Len(versions) /\ ~versions[i].destroyed /\ versions[i].version = n
        BY <1>2, Found
    <2>2. Rewrite(i, Undeleted(versions[i]))
        BY <1>2 DEF Undelete
    <2> QED BY <2>1, <2>2 DEF Rewrite, Rewrites, Undeleted
<1> QED BY <1>1, <1>2

LEMMA DestroySteps ==
    ASSUME Inv, NEW n \in Int, Destroy(n)
    PROVE  LET i == Find(versions, n) IN
             \/ i = 0 /\ Same
             \/ /\ i \in 1 .. Len(versions)
                /\ Rewrites(i, Destroyed(n)) /\ reply' = <<n>>
<1> DEFINE i == Find(versions, n)
<1>1. CASE i = 0
    BY <1>1 DEF Destroy, Raise, Same
<1>2. CASE i # 0
    <2>1. i \in 1 .. Len(versions)
        BY <1>2, Found
    <2>2. Rewrite(i, Destroyed(n))
        BY <1>2 DEF Destroy
    <2> QED BY <2>1, <2>2 DEF Rewrite, Rewrites, Destroyed
<1> QED BY <1>1, <1>2

LEMMA SameKeepsInv ==
    ASSUME Inv, Same
    PROVE  Inv'
BY DEF Inv, Same, TypeOK, NumberedInOrder, DataKeptOrErased

LEMMA InvStep ==
    ASSUME Inv, [Next]_vars
    PROVE  Inv'
<1>1. ASSUME NEW d \in Data, Write(d)
      PROVE  Inv'
    BY <1>1, WriteKeepsInv
<1>2. ASSUME NEW n \in Int \cup {None}, Read(n)
      PROVE  Inv'
    BY <1>2, ReadSteps, SameKeepsInv
<1>3. ASSUME NEW n \in Int \cup {None}, SoftDelete(n)
      PROVE  Inv'
    BY <1>3, SoftDeleteSteps, SameKeepsInv, VersionAt, DeletedVersion, RewriteKeepsInv
<1>4. ASSUME NEW n \in Int, Undelete(n)
      PROVE  Inv'
    <2>1. CASE Find(versions, n) = 0 \/ versions[Find(versions, n)].destroyed
        BY <1>4, <2>1, SameKeepsInv DEF Undelete, Raise, Same
    <2>2. CASE ~(Find(versions, n) = 0 \/ versions[Find(versions, n)].destroyed)
        BY <1>4, <2>2, UndeleteSteps, VersionAt, DeletedVersion, RewriteKeepsInv
    <2> QED BY <2>1, <2>2
<1>5. ASSUME NEW n \in Nat, Destroy(n)
      PROVE  Inv'
    <2>1. CASE Find(versions, n) = 0
        BY <1>5, <2>1, SameKeepsInv DEF Destroy, Raise, Same
    <2>2. CASE Find(versions, n) # 0
        <3>1. /\ Find(versions, n) \in 1 .. Len(versions) /\ Rewrites(Find(versions, n), Destroyed(n))
              /\ versions[Find(versions, n)].version = n
            BY <1>5, <2>2, DestroySteps, Found
        <3> QED BY <3>1, DestroyedVersion, RewriteKeepsInv
    <2> QED BY <2>1, <2>2
<1>6. CASE UNCHANGED vars
    BY <1>6, SameKeepsInv DEF vars, Same
<1>7. CASE Next
    <2>1. ASSUME NEW d \in Data, Write(d) /\ Call("write", None)
          PROVE  Inv'
        BY <1>1, <2>1
    <2>2. ASSUME NEW n \in (0 .. MaxWrites + 1) \cup {None},
                 \/ Read(n) /\ Call("read", n)
                 \/ SoftDelete(n) /\ Call("delete", n)
          PROVE  Inv'
        BY <1>2, <1>3, <2>2
    <2>3. ASSUME NEW n \in 0 .. MaxWrites + 1,
                 \/ Undelete(n) /\ Call("undelete", n)
                 \/ Destroy(n) /\ Call("destroy", n)
          PROVE  Inv'
        <3>1. n \in Nat /\ n \in Int
            BY <2>3
        <3> QED BY <1>4, <1>5, <2>3, <3>1
    <2> QED BY <1>7, <2>1, <2>2, <2>3 DEF Next
<1> QED BY <1>6, <1>7

(* The numbering of versions, and their data, are never confused: the list
   holds the last numbers given out, in order, and each version the data it was
   written with unless it was destroyed, whatever the calls. *)
THEOREM ListInvariant == Spec => [](TypeOK /\ NumberedInOrder /\ DataKeptOrErased)
<1>1. Init => Inv
    <2>1. ASSUME Init
          PROVE  /\ versions = << >> /\ nextVersion = 1 /\ written = << >>
                 /\ versions \in Seq(VersionRecord) /\ written \in Seq(Data)
                 /\ Len(versions) = 0 /\ Len(written) = 0 /\ DOMAIN versions = {}
        BY <2>1, EmptySeq DEF Init
    <2>2. Init => Min({MaxVersions, nextVersion - 1}) = 0 /\ nextVersion - 1 = 0
        <3>1. ASSUME Init PROVE nextVersion - 1 \in Int /\ nextVersion - 1 = 0
            BY <3>1, <2>1
        <3> QED BY <3>1, MinOfTwo
    <2>3. Init => TypeOK
        BY <2>1 DEF TypeOK
    <2>4. Init => NumberedInOrder
        BY <2>1, <2>2 DEF NumberedInOrder
    <2>5. Init => DataKeptOrErased
        BY <2>1 DEF DataKeptOrErased
    <2> QED BY <2>3, <2>4, <2>5 DEF Inv
<1>2. Inv /\ [Next]_vars => Inv'
    BY InvStep
<1>3. Inv => TypeOK /\ NumberedInOrder /\ DataKeptOrErased
    BY DEF Inv
<1> QED BY <1>1, <1>2, <1>3, PTL DEF Spec

-----------------------------------------------------------------------------
(* The history a list stands for. *)
GoneVersion == [data |-> Erased, state |-> "gone"]

FateOf(v) ==
    IF v.destroyed THEN GoneVersion
    ELSE [data |-> v.data, state |-> IF v.deleted THEN "deleted" ELSE "active"]

FateIn(list, n) ==
    LET i == Find(list, n) IN IF i = 0 THEN GoneVersion ELSE FateOf(list[i])

History == [n \in 1 .. nextVersion - 1 |-> Fate(n)]

LEMMA FateIsFateIn ==
    ASSUME NEW n
    PROVE  Fate(n) = FateIn(versions, n) /\ Fate(n)' = FateIn(versions', n)
<1>0. Find(versions, n) = Find(versions, n)
    BY DEF Find
<1>1. Find(versions, n)' = Find(versions', n)
    BY DEF Find, SelectInSeq
<1>2. Fate(n) = FateIn(versions, n)
    BY <1>0 DEF Fate, FateIn, FateOf, GoneVersion
<1>3. Fate(n)' = FateIn(versions', n)
    BY <1>1 DEF Fate, FateIn, FateOf, GoneVersion
<1> QED BY <1>2, <1>3

LEMMA FateByNumber ==
    ASSUME NEW list, NEW last, Numbered(list, last), NEW n \in 1 .. last
    PROVE  FateIn(list, n) = IF n <= last - Len(list) THEN GoneVersion
                             ELSE FateOf(list[n - (last - Len(list))])
<1>1. last \in Nat /\ Len(list) \in Nat /\ Len(list) <= last
    BY DEF Numbered
<1>2. Find(list, n) = IF n > last - Len(list) /\ n <= last
                        THEN n - (last - Len(list)) ELSE 0
    BY FoundByNumber
<1>3. CASE n <= last - Len(list)
    <2>1. Find(list, n) = 0
        BY <1>1, <1>2, <1>3
    <2> QED BY <1>3, <2>1 DEF FateIn
<1>4. CASE ~(n <= last - Len(list))
    <2>1. Find(list, n) = n - (last - Len(list)) /\ Find(list, n) # 0
        BY <1>1, <1>2, <1>4
    <2> QED BY <1>4, <2>1 DEF FateIn
<1> QED BY <1>3, <1>4

LEMMA HistoryShape ==
    ASSUME Inv
    PROVE  /\ Newest \in Nat /\ nextVersion = Newest + 1
           /\ History = [n \in 1 .. Newest |-> FateIn(versions, n)]
           /\ Len(History) = Newest
           /\ Len(versions) = IF MaxVersions <= Newest THEN MaxVersions ELSE Newest
<1>1. Newest \in Nat /\ nextVersion = Newest + 1
    BY DEF Inv, TypeOK, Newest
<1>2. History = [n \in 1 .. Newest |-> FateIn(versions, n)]
    BY FateIsFateIn DEF History, Newest
<1>3. Len(History) = Newest
    BY <1>1, <1>2
<1>4. Len(versions) = Min({MaxVersions, Newest})
    BY DEF Inv, NumberedInOrder, Newest
<1> QED BY <1>1, <1>2, <1>3, <1>4, MinOfTwo

(* Rewriting a version changes its own entry of the history, and no other. *)
LEMMA RewriteHistory ==
    ASSUME Inv, Inv', NEW i \in 1 .. Len(versions), NEW r \in VersionRecord,
           r.version = versions[i].version, Rewrites(i, r)
    PROVE  /\ versions[i].version \in 1 .. Newest
           /\ History[versions[i].version] = FateOf(versions[i])
           /\ History' = [History EXCEPT ![versions[i].version] = FateOf(r)]
<1> DEFINE o == Newest - Len(versions)  n == versions[i].version
<1>1. /\ Newest \in Nat /\ Len(versions) \in Nat /\ Len(versions) <= Newest
      /\ n = o + i /\ Numbered(versions, Newest)
    BY InvNumbered DEF Numbered
<1>2. n \in 1 .. Newest /\ n > o /\ n - o = i
    BY <1>1
<1>3. /\ Len(versions') = Len(versions) /\ nextVersion' = nextVersion
      /\ \A j \in 1 .. Len(versions) : versions'[j] = IF j = i THEN r ELSE versions[j]
    BY <1>1 DEF Rewrites, Numbered
<1>4. Numbered(versions', Newest)
    <2>1. versions' \in Seq(VersionRecord)
        BY DEF Inv, TypeOK
    <2>2. \A j \in DOMAIN versions' : versions'[j].version = Newest - Len(versions') + j
        BY <1>1, <1>3 DEF Rewrites, Numbered
    <2> QED BY <1>1, <1>3, <2>1, <2>2 DEF Numbered
<1>5. /\ History = [m \in 1 .. Newest |-> FateIn(versions, m)]
      /\ History' = [m \in 1 .. Newest |-> FateIn(versions', m)]
    <2>1. History' = [m \in 1 .. Newest |-> FateIn(versions', m)]
        BY <1>3, FateIsFateIn DEF History, Newest
    <2> QED BY <2>1, HistoryShape
<1>6. FateIn(versions, n) = FateOf(versions[i])
    BY <1>1, <1>2, FateByNumber
<1>7. ASSUME NEW m \in 1 .. Newest
      PROVE  FateIn(versions', m) = IF m = n THEN FateOf(r) ELSE FateIn(versions, m)
    <2>1. FateIn(versions', m) = IF m <= o THEN GoneVersion ELSE FateOf(versions'[m - o])
        BY <1>3, <1>4, FateByNumber
    <2>2. FateIn(versions, m) = IF m <= o THEN GoneVersion ELSE FateOf(versions[m - o])
        BY <1>1, FateByNumber
    <2>3. CASE m <= o
        <3>1. m # n
            BY <1>1, <1>2, <2>3
        <3> QED BY <2>1, <2>2, <2>3, <3>1
    <2>4. CASE ~(m <= o)
        <3>1. m - o \in 1 .. Len(versions) /\ (m - o = i <=> m = n)
            BY <1>1, <1>2, <2>4
        <3> QED BY <1>3, <2>1, <2>2, <2>4, <3>1
    <2> QED BY <2>3, <2>4
<1> HIDE DEF n, o
<1>8. History' = [History EXCEPT ![n] = FateOf(r)]
    BY <1>2, <1>5, <1>7
<1> QED BY <1>2, <1>5, <1>6, <1>8 DEF n

LEMMA SameHistory ==
    ASSUME Same
    PROVE  History' = History
BY FateIsFateIn DEF Same, History

LEMMA WriteHistory ==
    ASSUME Inv, Inv', NEW d \in Data, Write(d)
    PROVE  History' = [n \in 1 .. Newest + 1 |->
                         IF n <= Newest + 1 - MaxVersions THEN GoneVersion
                         ELSE IF n = Newest + 1 THEN [data |-> d, state |-> "active"]
                         ELSE History[n]]
<1> DEFINE r == [version |-> nextVersion, data |-> d, deleted |-> FALSE, destroyed |-> FALSE]
           k == Len(versions')
<1>1. /\ Newest \in Nat /\ nextVersion = Newest + 1 /\ Len(versions) \in Nat
      /\ Len(versions) = IF MaxVersions <= Newest THEN MaxVersions ELSE Newest
      /\ nextVersion' = Newest + 2
      /\ History = [n \in 1 .. Newest |-> FateIn(versions, n)]
      /\ Numbered(versions, Newest)
    BY HistoryShape, InvNumbered DEF Write
<1>2. /\ versions' \in Seq(VersionRecord)
      /\ k = IF Len(versions) < MaxVersions THEN Len(versions) + 1 ELSE MaxVersions
      /\ \A i \in 1 .. k : versions'[i] = IF i = k THEN r
                                           ELSE versions[i + Len(versions) + 1 - k]
    <2>1. r \in VersionRecord
        BY DEF VersionRecord, Inv, TypeOK
    <2>2. versions' = Kept(Append(versions, r))
        BY DEF Write, Written
    <2> QED BY <2>1, <2>2, ListAfterWrite
<1>3. k \in Nat /\ k <= Newest + 1 /\ (k < MaxVersions => k = Newest + 1) /\ k <= MaxVersions
    BY <1>1, <1>2
<1>4. FateOf(r) = [data |-> d, state |-> "active"]
    BY DEF FateOf
<1> HIDE DEF r, k
<1> DEFINE top == Newest + 1
<1> HIDE DEF top
<1>5. Numbered(versions', top)
    <2>1. \A i \in DOMAIN versions' : versions'[i].version = top - k + i
        <3>1. \A i \in DOMAIN versions' : versions'[i].version = nextVersion' - 1 - k + i
            BY Zenon DEF Inv, NumberedInOrder, k
        <3>2. nextVersion' \in Int /\ nextVersion' - 1 = top
            BY <1>1 DEF top
        <3> QED BY <3>1, <3>2, Zenon
    <2> QED BY <1>1, <1>2, <1>3, <2>1 DEF Numbered, k, top
<1>6. History' = [n \in 1 .. Newest + 1 |-> FateIn(versions', n)]
    <2>1. nextVersion' - 1 = Newest + 1
        BY <1>1
    <2> QED BY <2>1, FateIsFateIn DEF History
<1>7. ASSUME NEW n \in 1 .. Newest + 1
      PROVE  FateIn(versions', n) = IF n <= Newest + 1 - MaxVersions THEN GoneVersion
                                    ELSE IF n = Newest + 1 THEN FateOf(r) ELSE History[n]
    <2>1. FateIn(versions', n) = IF n <= Newest + 1 - k THEN GoneVersion
                                 ELSE FateOf(versions'[n - (Newest + 1 - k)])
        <3>1. n \in 1 .. top /\ top = Newest + 1 /\ top \in Nat
            BY <1>1 DEF top
        <3>2. FateIn(versions', n) = IF n <= top - Len(versions') THEN GoneVersion
                                     ELSE FateOf(versions'[n - (top - Len(versions'))])
            BY <1>5, <3>1, FateByNumber
        <3>3. k = Len(versions')
            BY DEF k
        <3>4. FateIn(versions', n) = IF n <= top - k THEN GoneVersion
                                     ELSE FateOf(versions'[n - (top - k)])
            BY <3>2, <3>3, Zenon
        <3> QED BY <1>1, <1>3, <3>1, <3>4
    <2>2. n <= Newest + 1 - k <=> n <= Newest + 1 - MaxVersions
        BY <1>1, <1>3
    <2>3. CASE n <= Newest + 1 - k
        BY <2>1, <2>2, <2>3
    <2>4. CASE ~(n <= Newest + 1 - k)
        <3> DEFINE i == n - (Newest + 1 - k)  j == n - (Newest - Len(versions))
        <3>1. /\ i \in 1 .. k /\ (i = k <=> n = Newest + 1)
              /\ n # Newest + 1 => /\ n \in 1 .. Newest /\ ~(n <= Newest - Len(versions))
                                   /\ i + Len(versions) + 1 - k = j
            BY <1>1, <1>2, <1>3, <2>4
        <3>2. CASE n = Newest + 1
            BY <1>2, <2>1, <2>2, <2>4, <3>1, <3>2
        <3>3. CASE n # Newest + 1
            <4>1. versions'[i] = versions[j]
                BY <1>2, <3>1, <3>3
            <4>2. FateIn(versions, n) = FateOf(versions[j])
                BY <1>1, <3>1, <3>3, FateByNumber
            <4>3. History[n] = FateIn(versions, n)
                BY <1>1, <3>1, <3>3
            <4> QED BY <2>1, <2>2, <2>4, <3>3, <4>1, <4>2, <4>3
        <3> QED BY <3>2, <3>3
    <2> QED BY <2>3, <2>4
<1>8. ASSUME NEW n \in 1 .. Newest + 1
      PROVE  FateIn(versions', n) = IF n <= Newest + 1 - MaxVersions THEN GoneVersion
                                    ELSE IF n = Newest + 1 THEN [data |-> d, state |-> "active"]
                                    ELSE History[n]
    BY <1>4, <1>7
<1> QED BY <1>6, <1>8, Zenon

-----------------------------------------------------------------------------
(* The operators of SecretHistory, on that history. *)
LEMMA EntryOfIndex ==
    ASSUME Inv, NEW i \in 1 .. Len(versions)
    PROVE  /\ versions[i].version \in 1 .. Newest
           /\ versions[i].version = Newest - Len(versions) + i
           /\ History[versions[i].version] = FateOf(versions[i])
<1>1. /\ Newest \in Nat /\ Len(versions) \in Nat /\ Len(versions) <= Newest
      /\ versions[i].version = Newest - Len(versions) + i /\ Numbered(versions, Newest)
    BY InvNumbered DEF Numbered
<1> DEFINE n == Newest - Len(versions) + i
<1>2. n \in 1 .. Newest /\ ~(n <= Newest - Len(versions)) /\ n - (Newest - Len(versions)) = i
    BY <1>1
<1> HIDE DEF n
<1>3. FateIn(versions, n) = FateOf(versions[i])
    BY <1>1, <1>2, FateByNumber
<1>4. History[n] = FateIn(versions, n)
    BY <1>2, HistoryShape
<1> QED BY <1>1, <1>2, <1>3, <1>4 DEF n

(* A number is retained when it is found, and gone otherwise. *)
LEMMA EntryOfNumber ==
    ASSUME Inv, NEW n \in Int
    PROVE  /\ Find(versions, n) # 0 => /\ Find(versions, n) \in 1 .. Len(versions) /\ n \in 1 .. Newest
                             /\ versions[Find(versions, n)].version = n
                             /\ History[n] = FateOf(versions[Find(versions, n)])
           /\ Find(versions, n) = 0 /\ n \in 1 .. Newest => History[n] = GoneVersion
<1>1. CASE Find(versions, n) # 0
    <2>1. Find(versions, n) \in 1 .. Len(versions) /\ versions[Find(versions, n)].version = n
        BY <1>1, Found
    <2> QED BY <1>1, <2>1, EntryOfIndex
<1>2. CASE Find(versions, n) = 0
    <2>1. ASSUME n \in 1 .. Newest
          PROVE  History[n] = GoneVersion
        <3>1. n <= Newest - Len(versions)
            BY <1>2, <2>1, Found, InvNumbered DEF Numbered
        <3>2. FateIn(versions, n) = GoneVersion
            BY <2>1, <3>1, InvNumbered, FateByNumber
        <3> QED BY <2>1, <3>2, HistoryShape
    <2> QED BY <1>2, <2>1
<1> QED BY <1>1, <1>2

Readable(n) == n \in 1 .. Newest /\ History[n].state \in {"active", "deleted"}

LEMMA ReadableWhenFound ==
    ASSUME Inv, NEW n \in Int
    PROVE  Readable(n) <=> Find(versions, n) # 0 /\ ~versions[Find(versions, n)].destroyed
<1>1. CASE Find(versions, n) # 0
    <2>1. History[n] = FateOf(versions[Find(versions, n)]) /\ n \in 1 .. Newest
        BY <1>1, EntryOfNumber
    <2> QED BY <1>1, <2>1 DEF Readable, FateOf, GoneVersion
<1>2. CASE Find(versions, n) = 0
    BY <1>2, EntryOfNumber DEF Readable, GoneVersion
<1> QED BY <1>1, <1>2

ActiveVersions == {n \in 1 .. Newest : History[n].state = "active"}

(* The version current_version returns is the newest active one. *)
LEMMA CurrentIsNewest ==
    ASSUME Inv
    PROVE  /\ Current(versions) = 0 => ActiveVersions = {}
           /\ Current(versions) # 0 => /\ Current(versions) \in 1 .. Len(versions)
                             /\ versions[Current(versions)].version \in ActiveVersions
                             /\ \A w \in ActiveVersions : w <= versions[Current(versions)].version
<1> DEFINE live == {i \in 1 .. Len(versions) : ~versions[i].destroyed /\ ~versions[i].deleted}
<1>1. /\ live = {} => Current(versions) = 0
      /\ live # {} => Current(versions) \in live /\ \A i \in live : i <= Current(versions)
    BY CurrentFound
<1>2. Newest \in Nat /\ Len(versions) \in Nat
    BY InvNumbered DEF Numbered
<1>3. ASSUME NEW w \in ActiveVersions
      PROVE  /\ Find(versions, w) \in live
             /\ w = Newest - Len(versions) + Find(versions, w)
    <2>1. w \in Int /\ w \in 1 .. Newest /\ History[w].state = "active"
        BY <1>2 DEF ActiveVersions
    <2>2. Find(versions, w) # 0
        BY <2>1, EntryOfNumber DEF GoneVersion
    <2>3. /\ Find(versions, w) \in 1 .. Len(versions) /\ versions[Find(versions, w)].version = w
          /\ History[w] = FateOf(versions[Find(versions, w)])
        BY <2>1, <2>2, EntryOfNumber
    <2>4. ~versions[Find(versions, w)].destroyed /\ ~versions[Find(versions, w)].deleted
        BY <2>1, <2>3 DEF FateOf, GoneVersion
    <2> QED BY <2>3, <2>4, EntryOfIndex
<1>4. ASSUME NEW i \in live
      PROVE  versions[i].version \in ActiveVersions /\ versions[i].version = Newest - Len(versions) + i
    <2>1. i \in 1 .. Len(versions) /\ FateOf(versions[i]).state = "active"
        BY <1>4 DEF FateOf
    <2> QED BY <2>1, EntryOfIndex DEF ActiveVersions
<1>5. CASE live = {}
    <2>1. Current(versions) = 0 /\ ActiveVersions = {}
        BY <1>1, <1>3, <1>5
    <2> QED BY <2>1
<1>6. CASE live # {}
    <2>1. Current(versions) \in live /\ \A i \in live : i <= Current(versions)
        BY <1>1, <1>6
    <2>2. Current(versions) \in 1 .. Len(versions) /\ Current(versions) # 0
        BY <2>1
    <2>3. /\ versions[Current(versions)].version \in ActiveVersions
          /\ versions[Current(versions)].version = Newest - Len(versions) + Current(versions)
        BY <1>4, <2>1
    <2>4. ASSUME NEW w \in ActiveVersions
          PROVE  w <= versions[Current(versions)].version
        <3>1. Find(versions, w) <= Current(versions) /\ w = Newest - Len(versions) + Find(versions, w) /\ Find(versions, w) \in Int
            BY <1>3, <2>1
        <3> QED BY <1>2, <2>2, <2>3, <3>1
    <2> QED BY <2>2, <2>3, <2>4
<1> QED BY <1>5, <1>6

-----------------------------------------------------------------------------
(* Each method does what SecretHistory says it does. *)
LEMMA InstanceOperators ==
    ASSUME Inv, NEW n, NEW v
    PROVE  /\ Promise!Readable(n) <=> Readable(n)
           /\ Promise!ActiveVersions = ActiveVersions
           /\ Promise!Means(n, v) <=>
                 IF n = None THEN v \in ActiveVersions /\ \A w \in ActiveVersions : w <= v
                 ELSE v = n /\ Readable(n)
           /\ Promise!MeansNothing(n) <=>
                 IF n = None THEN ActiveVersions = {} ELSE ~Readable(n)
           /\ Promise!Numbers = 1 .. Newest
<1>1. Promise!Numbers = 1 .. Newest
    BY HistoryShape DEF Promise!Numbers, History
<1>2. Promise!Readable(n) <=> Readable(n)
    BY <1>1 DEF Promise!Readable, Readable, History
<1>3. Promise!ActiveVersions = ActiveVersions
    BY <1>1 DEF Promise!ActiveVersions, ActiveVersions, History
<1> QED BY <1>1, <1>2, <1>3 DEF Promise!Means, Promise!MeansNothing

LEMMA RefuseRefines ==
    ASSUME Raise
    PROVE  Promise!Refuse
<1>1. Same
    BY DEF Raise, Same
<1>2. History' = History
    BY <1>1, SameHistory
<1> QED BY <1>2 DEF Raise, Promise!Refuse, History

LEMMA WriteRefines ==
    ASSUME Inv, Inv', NEW d \in Data, Write(d)
    PROVE  Promise!Write(d)
<1>1. Len(History) = Newest /\ nextVersion = Newest + 1 /\ Newest \in Nat
    BY HistoryShape
<1>2. Newest < MaxWrites /\ reply' = <<Newest + 1>>
    BY <1>1 DEF Write
<1>3. History' = [n \in 1 .. Newest + 1 |->
                    IF n <= Newest + 1 - MaxVersions THEN GoneVersion
                    ELSE IF n = Newest + 1 THEN [data |-> d, state |-> "active"]
                    ELSE History[n]]
    BY WriteHistory
<1>4. Promise!Gone = GoneVersion
    BY DEF Promise!Gone, GoneVersion
<1>5. ASSUME NEW n \in 1 .. Newest + 1
      PROVE  Promise!Entry(n, d) = History'[n]
    <2>1. History'[n] = IF n <= Newest + 1 - MaxVersions THEN GoneVersion
                        ELSE IF n = Newest + 1 THEN [data |-> d, state |-> "active"]
                        ELSE History[n]
        BY <1>3
    <2>2. Promise!Entry(n, d) = IF n <= Len(History) + 1 - MaxVersions THEN Promise!Gone
                                ELSE IF n = Len(History) + 1 THEN [data |-> d, state |-> "active"]
                                ELSE History[n]
        BY DEF Promise!Entry, History
    <2> QED BY <1>1, <1>4, <2>1, <2>2
<1>6. Len(History) < MaxWrites /\ reply' = <<Len(History) + 1>>
    BY <1>1, <1>2
<1>7. History' = [n \in 1 .. Len(History) + 1 |-> Promise!Entry(n, d)]
    <2> DEFINE H == History'  top == Newest + 1
    <2>1. H = [n \in 1 .. top |-> H[n]]
        BY <1>3
    <2>2. \A n \in 1 .. top : Promise!Entry(n, d) = H[n]
        BY <1>5
    <2> HIDE DEF H, top
    <2>3. H = [n \in 1 .. top |-> Promise!Entry(n, d)]
        BY <2>1, <2>2, Zenon
    <2> QED BY <1>1, <2>3, Zenon DEF H, top
<1> QED BY <1>6, <1>7, Zenon DEF Promise!Write, History

(* What n means to a read or a soft delete: the version looked up. *)
LEMMA LookupMeans ==
    ASSUME Inv, NEW n \in Int \cup {None}
    PROVE  /\ Lookup(versions, n) = 0 => Promise!MeansNothing(n)
           /\ Lookup(versions, n) # 0 => /\ Lookup(versions, n) \in 1 .. Len(versions)
                               /\ ~versions[Lookup(versions, n)].destroyed
                               /\ Promise!Means(n, versions[Lookup(versions, n)].version)
<1>1. CASE n = None
    <2>1. Current(versions) # 0 => Current(versions) \in 1 .. Len(versions) /\ ~versions[Current(versions)].destroyed
        BY CurrentFound
    <2>2. Lookup(versions, n) = Current(versions)
        BY <1>1, <2>1 DEF Lookup
    <2> QED BY <1>1, <2>1, <2>2, CurrentIsNewest, InstanceOperators
<1>2. CASE n # None
    <2>1. n \in Int
        BY <1>2
    <2>2. Lookup(versions, n) = IF Find(versions, n) # 0 /\ versions[Find(versions, n)].destroyed THEN 0 ELSE Find(versions, n)
        BY <1>2 DEF Lookup
    <2>3. Readable(n) <=> Find(versions, n) # 0 /\ ~versions[Find(versions, n)].destroyed
        BY <2>1, ReadableWhenFound
    <2>4. Find(versions, n) # 0 => Find(versions, n) \in 1 .. Len(versions) /\ versions[Find(versions, n)].version = n
        BY <2>1, EntryOfNumber
    <2> QED BY <1>2, <2>2, <2>3, <2>4, InstanceOperators
<1> QED BY <1>1, <1>2

LEMMA ReadRefines ==
    ASSUME Inv, NEW n \in Int \cup {None}, Read(n)
    PROVE  Promise!Read(n)
<1>1. CASE Lookup(versions, n) = 0
    BY <1>1, LookupMeans, RefuseRefines DEF Read, Promise!Read
<1>2. CASE Lookup(versions, n) # 0
    <2> DEFINE i == Lookup(versions, n)  m == versions[i].version
    <2>1. i \in 1 .. Len(versions) /\ ~versions[i].destroyed /\ Promise!Means(n, m)
        BY <1>2, LookupMeans
    <2>2. History' = History
        BY ReadSteps, SameHistory
    <2>3. reply' = <<m, versions[i].data, IF versions[i].deleted THEN "deleted" ELSE "active">>
        BY <1>2 DEF Read
    <2> HIDE DEF i
    <2>4. m \in 1 .. Newest /\ History[m] = FateOf(versions[i])
        BY <2>1, EntryOfIndex
    <2>5. reply' = <<m, History[m].data, History[m].state>>
        BY <2>1, <2>3, <2>4 DEF FateOf
    <2>6. m \in Promise!Numbers
        BY <2>4, InstanceOperators
    <2> HIDE DEF m
    <2> QED BY <2>1, <2>2, <2>5, <2>6 DEF Promise!Read, History
<1> QED BY <1>1, <1>2

LEMMA SoftDeleteRefines ==
    ASSUME Inv, Inv', NEW n \in Int \cup {None}, SoftDelete(n)
    PROVE  Promise!SoftDelete(n)
<1>1. CASE Lookup(versions, n) = 0
    BY <1>1, LookupMeans, RefuseRefines DEF SoftDelete, Promise!SoftDelete
<1>2. CASE Lookup(versions, n) # 0
    <2> DEFINE i == Lookup(versions, n)  m == versions[i].version
    <2>1. i \in 1 .. Len(versions) /\ ~versions[i].destroyed /\ Promise!Means(n, m)
        BY <1>2, LookupMeans
    <2>2. Rewrites(i, Deleted(versions[i])) /\ reply' = <<m>>
        BY <1>2, SoftDeleteSteps
    <2> HIDE DEF i
    <2>4. Deleted(versions[i]) \in VersionRecord /\ Deleted(versions[i]).version = m
        BY <2>1, VersionAt, DeletedVersion
    <2>5. /\ m \in 1 .. Newest /\ History[m] = FateOf(versions[i])
          /\ History' = [History EXCEPT ![m] = FateOf(Deleted(versions[i]))]
        BY <2>1, <2>2, <2>4, RewriteHistory
    <2>6. FateOf(Deleted(versions[i])) = [FateOf(versions[i]) EXCEPT !.state = "deleted"]
        BY <2>1, VersionAt DEF FateOf, Deleted, VersionRecord
    <2>7. m \in Promise!Numbers
        BY <2>5, InstanceOperators
    <2> HIDE DEF m
    <2>8. History' = [History EXCEPT ![m].state = "deleted"]
        BY <2>5, <2>6, HistoryShape
    <2>9. Promise!Becomes(m, "deleted")
        BY <2>2, <2>8 DEF Promise!Becomes, History
    <2> QED BY <2>1, <2>7, <2>9 DEF Promise!SoftDelete
<1> QED BY <1>1, <1>2

LEMMA UndeleteRefines ==
    ASSUME Inv, Inv', NEW n \in Int, Undelete(n)
    PROVE  Promise!Undelete(n)
<1>1. CASE Find(versions, n) = 0 \/ versions[Find(versions, n)].destroyed
    BY <1>1, ReadableWhenFound, InstanceOperators, RefuseRefines DEF Undelete, Promise!Undelete
<1>2. CASE ~(Find(versions, n) = 0 \/ versions[Find(versions, n)].destroyed)
    <2> DEFINE i == Find(versions, n)
    <2>1. /\ i \in 1 .. Len(versions) /\ ~versions[i].destroyed /\ versions[i].version = n
          /\ Promise!Readable(n)
        BY <1>2, EntryOfNumber, ReadableWhenFound, InstanceOperators
    <2>2. Rewrites(i, Undeleted(versions[i])) /\ reply' = <<n>>
        BY <1>2, UndeleteSteps
    <2> HIDE DEF i
    <2>3. Undeleted(versions[i]) \in VersionRecord /\ Undeleted(versions[i]).version = n
        BY <2>1, VersionAt, DeletedVersion
    <2>4. /\ n \in 1 .. Newest /\ History[n] = FateOf(versions[i])
          /\ History' = [History EXCEPT ![n] = FateOf(Undeleted(versions[i]))]
        BY <2>1, <2>2, <2>3, RewriteHistory
    <2>5. FateOf(Undeleted(versions[i])) = [FateOf(versions[i]) EXCEPT !.state = "active"]
        BY <2>1, VersionAt DEF FateOf, Undeleted, VersionRecord
    <2>6. History' = [History EXCEPT ![n].state = "active"]
        BY <2>4, <2>5, HistoryShape
    <2>7. Promise!Becomes(n, "active")
        BY <2>2, <2>6 DEF Promise!Becomes, History
    <2> QED BY <2>1, <2>7 DEF Promise!Undelete
<1> QED BY <1>1, <1>2

LEMMA DestroyRefines ==
    ASSUME Inv, Inv', NEW n \in Nat, Destroy(n)
    PROVE  Promise!Destroy(n)
<1>1. Promise!Retained(n) <=> Find(versions, n) # 0
    <2>1. Promise!Retained(n) <=> n \in 1 .. Newest /\ n > Newest - MaxVersions
        BY HistoryShape, InstanceOperators DEF Promise!Retained, History
    <2>2. Find(versions, n) # 0 <=> (n > Newest - Len(versions) /\ n <= Newest)
        BY Found
    <2>3. /\ Newest \in Nat
          /\ Len(versions) = IF MaxVersions <= Newest THEN MaxVersions ELSE Newest
        BY HistoryShape
    <2>4. n \in 1 .. Newest /\ n > Newest - MaxVersions <=> Find(versions, n) # 0
        BY <2>2, <2>3
    <2> QED BY <2>1, <2>4
<1>2. CASE Find(versions, n) = 0
    BY <1>1, <1>2, RefuseRefines DEF Destroy, Promise!Destroy
<1>3. CASE Find(versions, n) # 0
    <2> DEFINE i == Find(versions, n)
    <2>1. /\ i \in 1 .. Len(versions) /\ versions[i].version = n
          /\ Rewrites(i, Destroyed(n)) /\ reply' = <<n>>
        BY <1>3, Found, DestroySteps
    <2> HIDE DEF i
    <2>2. Destroyed(n) \in VersionRecord /\ Destroyed(n).version = n
        BY DestroyedVersion
    <2>3. History' = [History EXCEPT ![n] = FateOf(Destroyed(n))]
        BY <2>1, <2>2, RewriteHistory
    <2>4. FateOf(Destroyed(n)) = Promise!Gone
        BY DEF FateOf, Destroyed, GoneVersion, Promise!Gone
    <2> QED BY <1>1, <1>3, <2>1, <2>3, <2>4 DEF Promise!Destroy, History
<1> QED BY <1>2, <1>3

(* versioning.py keeps the promise of its docstrings: every call does to the
   list what SecretHistory says is done to the history, and returns the same;
   in particular what was destroyed or pruned never comes back, and a call
   touches no version but its own. *)
THEOREM ListImplementsHistory == Spec => KeepsPromise
<1>1. Init => Promise!HistoryInit
    <2>1. ASSUME Init
          PROVE  History = << >>
        BY <2>1 DEF Init, History
    <2> QED BY <2>1 DEF Init, History, Promise!HistoryInit
<1>2. Inv /\ Inv' /\ [Next]_vars => [Promise!HistoryNext]_(Promise!historyVars)
    <2> SUFFICES ASSUME Inv, Inv', [Next]_vars
                 PROVE  [Promise!HistoryNext]_(Promise!historyVars)
        OBVIOUS
    <2>1. ASSUME NEW d \in Data, Write(d) /\ Call("write", None)
          PROVE  Promise!HistoryNext
        <3>1. Promise!Write(d) /\ Promise!Call("write", None)
            BY <2>1, WriteRefines DEF Call, Promise!Call
        <3> QED BY <3>1 DEF Promise!HistoryNext
    <2>2. ASSUME NEW n \in (0 .. MaxWrites + 1) \cup {None},
                 \/ Read(n) /\ Call("read", n)
                 \/ SoftDelete(n) /\ Call("delete", n)
          PROVE  Promise!HistoryNext
        <3>1. n \in Int \cup {None}
            BY <2>2
        <3>2. \/ Promise!Read(n) /\ Promise!Call("read", n)
              \/ Promise!SoftDelete(n) /\ Promise!Call("delete", n)
            BY <2>2, <3>1, ReadRefines, SoftDeleteRefines DEF Call, Promise!Call
        <3> QED BY <3>2 DEF Promise!HistoryNext
    <2>3. ASSUME NEW n \in 0 .. MaxWrites + 1,
                 \/ Undelete(n) /\ Call("undelete", n)
                 \/ Destroy(n) /\ Call("destroy", n)
          PROVE  Promise!HistoryNext
        <3>1. n \in Nat /\ n \in Int
            BY <2>3
        <3>2. \/ Promise!Undelete(n) /\ Promise!Call("undelete", n)
              \/ Promise!Destroy(n) /\ Promise!Call("destroy", n)
            BY <2>3, <3>1, UndeleteRefines, DestroyRefines DEF Call, Promise!Call
        <3> QED BY <3>2 DEF Promise!HistoryNext
    <2>4. CASE UNCHANGED vars
        <3>1. History' = History /\ request' = request /\ reply' = reply
            BY <2>4, SameHistory DEF vars, Same
        <3> QED BY <3>1 DEF Promise!historyVars, History
    <2> QED BY <2>1, <2>2, <2>3, <2>4 DEF Next
<1>3. Spec => []Inv
    BY ListInvariant, PTL DEF Inv
<1> QED BY <1>1, <1>2, <1>3, PTL DEF Spec, KeepsPromise, Promise!HistorySpec

(* Types, and never more than max_versions versions in the list. *)
THEOREM ListTypes == Spec => []TypeOK
BY ListInvariant, PTL

(* What is in the list is what write() was given under that number, or, exactly
   when it was destroyed, nothing: no method touches another version's data. *)
THEOREM ListKeepsData == Spec => []DataKeptOrErased
BY ListInvariant, PTL

=============================================================================
