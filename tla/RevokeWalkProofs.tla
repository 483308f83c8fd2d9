-------------------------- MODULE RevokeWalkProofs --------------------------
(* Proofs about RevokeWalk, for any set of tokens and any tree of them. *)
EXTENDS RevokeWalk, FiniteSetTheorems, TLAPS

USE IdsAssumption, NoneAssumption

Marked == revoked \ before

Live(p, c) == parent[c] = p /\ c \notin before

ToRevoke == start \in Ids /\ start \notin before

(* A set the walk may not leave. *)
Closed(S) == start \in S /\ \A p \in S, c \in Ids : Live(p, c) => c \in S

(* The inductive invariant, beside the types: with nothing to revoke nothing is
   marked; otherwise the walk stays in every closed set (it has not gone astray),
   and start and the live children of what it marked are marked or pending (it
   has forgotten nothing). *)
NothingToRevoke == ~ToRevoke => Marked = {} /\ pending \subseteq before

NotAstray ==
    ToRevoke => \A S \in SUBSET Ids : Closed(S) => Marked \cup pending \subseteq S

NothingForgotten ==
    ToRevoke =>
        /\ start \in Marked \cup pending
        /\ \A p \in Marked, c \in Ids : Live(p, c) => c \in Marked \cup pending

Inv == TypeOK /\ NothingToRevoke /\ NotAstray /\ NothingForgotten /\ CountsRevoked

-----------------------------------------------------------------------------
LEMMA InitInv ==
    ASSUME Init
    PROVE  Inv
<1>1. TypeOK
    BY DEF Init, TypeOK, Trees
<1>2. Marked = {}
    BY DEF Init, Marked
<1>3. NothingToRevoke
    BY <1>2 DEF Init, NothingToRevoke, ToRevoke
<1>4. NotAstray
    BY <1>2 DEF Init, NotAstray, ToRevoke, Closed
<1>5. NothingForgotten
    BY <1>2 DEF Init, NothingForgotten, ToRevoke
<1>6. CountsRevoked
    BY <1>2, FS_EmptySet DEF Init, CountsRevoked, Marked
<1> QED BY <1>1, <1>3, <1>4, <1>5, <1>6 DEF Inv

LEMMA SkipInv ==
    ASSUME Inv, NEW t \in pending, Skip(t)
    PROVE  Inv'
<1>1. /\ t \in revoked /\ pending' = pending \ {t}
      /\ UNCHANGED <<parent, start, before, revoked, count>>
    BY DEF Skip
<1>2. Marked' = Marked /\ (ToRevoke' <=> ToRevoke) /\ (ToRevoke => t \in Marked)
    <2>1. ASSUME ToRevoke
          PROVE  t \in Marked
        <3>1. PICK S \in SUBSET Ids : S = Ids \ (before \ {start})
            OBVIOUS
        <3>2. Closed(S)
            BY <2>1, <3>1 DEF Closed, ToRevoke, Live
        <3>3. t \in S
            BY <2>1, <3>2 DEF Inv, NotAstray
        <3> QED BY <1>1, <2>1, <3>1, <3>3 DEF Marked, ToRevoke
    <2> QED BY <1>1, <2>1 DEF Marked, ToRevoke
<1>3. TypeOK'
    BY <1>1 DEF Inv, TypeOK
<1>4. NothingToRevoke'
    BY <1>1, <1>2 DEF Inv, NothingToRevoke
<1>5. NotAstray'
    BY <1>1, <1>2 DEF Inv, NotAstray, Closed, Live
<1>6. NothingForgotten'
    BY <1>1, <1>2 DEF Inv, NothingForgotten, Live
<1>7. CountsRevoked'
    BY <1>1 DEF Inv, CountsRevoked
<1> QED BY <1>3, <1>4, <1>5, <1>6, <1>7 DEF Inv

LEMMA MarkInv ==
    ASSUME Inv, NEW t \in pending, Mark(t)
    PROVE  Inv'
<1>1. /\ t \notin revoked /\ revoked' = revoked \cup {t} /\ count' = count + 1
      /\ pending' = (pending \ {t}) \cup LiveChildren(t)
      /\ UNCHANGED <<parent, start, before>>
    BY DEF Mark
<1>2. t \in Ids /\ t \notin before /\ before \subseteq revoked /\ revoked \subseteq Ids
    BY <1>1 DEF Inv, TypeOK
<1>3. ToRevoke /\ ToRevoke' /\ Marked' = Marked \cup {t} /\ t \notin Marked
    BY <1>1, <1>2 DEF Inv, NothingToRevoke, ToRevoke, Marked
<1>4. LiveChildren(t) \subseteq Ids /\ \A c \in LiveChildren(t) : Live(t, c)
    BY <1>2 DEF LiveChildren, Live
<1>5. TypeOK'
    <2>1. TypeOK
        BY DEF Inv
    <2>2. revoked' \subseteq Ids /\ before' \subseteq revoked'
        BY <1>1, <1>2
    <2>3. pending' \subseteq Ids
        BY <1>1, <1>4, <2>1 DEF TypeOK
    <2>4. count' \in Nat
        BY <1>1, <2>1 DEF TypeOK
    <2> QED BY <1>1, <2>1, <2>2, <2>3, <2>4 DEF TypeOK
<1>6. NothingToRevoke'
    BY <1>3 DEF NothingToRevoke
<1>7. NotAstray'
    <2>1. ASSUME NEW S \in SUBSET Ids, Closed(S)'
          PROVE  Marked' \cup pending' \subseteq S
        <3>1. Closed(S)
            BY <1>1, <2>1 DEF Closed, Live
        <3>2. Marked \cup pending \subseteq S
            BY <1>3, <3>1 DEF Inv, NotAstray
        <3>3. LiveChildren(t) \subseteq S
            BY <1>4, <3>1, <3>2 DEF Closed
        <3> QED BY <1>1, <1>3, <3>2, <3>3
    <2> QED BY <2>1 DEF NotAstray
<1>8. NothingForgotten'
    <2>1. start \in Marked \cup pending /\ start' = start
        BY <1>1, <1>3 DEF Inv, NothingForgotten
    <2>2. start' \in Marked' \cup pending'
        BY <1>1, <1>3, <2>1
    <2>3. ASSUME NEW p \in Marked', NEW c \in Ids, Live(p, c)'
          PROVE  c \in Marked' \cup pending'
        <3>1. Live(p, c)
            BY <1>1, <2>3 DEF Live
        <3>2. CASE p = t
            BY <1>1, <1>2, <1>3, <3>1, <3>2 DEF Live, LiveChildren, Marked
        <3>3. CASE p # t
            <4>1. c \in Marked \cup pending
                BY <1>3, <2>3, <3>1, <3>3 DEF Inv, NothingForgotten
            <4> QED BY <1>1, <1>3, <4>1
        <3> QED BY <3>2, <3>3
    <2> QED BY <2>2, <2>3 DEF NothingForgotten
<1>9. CountsRevoked'
    <2>1. IsFiniteSet(Marked)
        BY <1>2, FS_Subset DEF Marked
    <2>2. Cardinality(Marked \cup {t}) = Cardinality(Marked) + 1
        BY <1>3, <2>1, FS_AddElement
    <2>3. count = Cardinality(Marked)
        BY DEF Inv, CountsRevoked, Marked
    <2>4. count' = Cardinality(Marked')
        BY <1>1, <1>3, <2>2, <2>3
    <2> QED BY <2>4 DEF CountsRevoked, Marked
<1> QED BY <1>5, <1>6, <1>7, <1>8, <1>9 DEF Inv

LEMMA InvImpliesReached ==
    ASSUME Inv
    PROVE  RevokesReached
<1> SUFFICES ASSUME pending = {}
             PROVE  revoked = before \cup Tokens!Reached(start)
    BY DEF RevokesReached
<1>1. Tokens!Reached(start) =
        {c \in Ids : ToRevoke /\ \A S \in SUBSET Ids : Closed(S) => c \in S}
    BY DEF Tokens!Reached, Tokens!LiveChild, ToRevoke, Closed, Live
<1>2. revoked = before \cup Marked /\ Marked \subseteq Ids
    BY DEF Inv, TypeOK, Marked
<1>3. CASE ~ToRevoke
    BY <1>1, <1>2, <1>3 DEF Inv, NothingToRevoke
<1>4. CASE ToRevoke
    <2>1. Closed(Marked)
        BY <1>4 DEF Inv, NothingForgotten, Closed
    <2>2. \A S \in SUBSET Ids : Closed(S) => Marked \subseteq S
        BY <1>4 DEF Inv, NotAstray
    <2>3. Tokens!Reached(start) = Marked
        BY <1>1, <1>2, <1>4, <2>1, <2>2
    <2> QED BY <1>2, <2>3
<1> QED BY <1>3, <1>4

(* However the tree looks, whatever is revoked in it already, and in whatever
   order revoke_token goes through it: what it has revoked in the end is what
   module Tokens takes it to revoke in one step, and it returns how many. *)
THEOREM WalkRevokesReached == Spec => [](TypeOK /\ RevokesReached /\ CountsRevoked)
<1>1. Init => Inv
    BY InitInv
<1>2. Inv /\ [Next]_vars => Inv'
    <2> SUFFICES ASSUME Inv, [Next]_vars
                 PROVE  Inv'
        OBVIOUS
    <2>1. ASSUME NEW t \in pending, Skip(t)
          PROVE  Inv'
        BY <2>1, SkipInv
    <2>2. ASSUME NEW t \in pending, Mark(t)
          PROVE  Inv'
        BY <2>2, MarkInv
    <2>3. CASE UNCHANGED vars
        BY <2>3 DEF vars, Inv, TypeOK, NothingToRevoke, NotAstray, NothingForgotten,
                    CountsRevoked, ToRevoke, Marked, Closed, Live
    <2> QED BY <2>1, <2>2, <2>3 DEF Next
<1>3. Inv => TypeOK /\ RevokesReached /\ CountsRevoked
    BY InvImpliesReached DEF Inv
<1> QED BY <1>1, <1>2, <1>3, PTL DEF Spec

(* The walk marks only tokens that are held, and no token twice. *)
THEOREM WalkTypes == Spec => []TypeOK
BY WalkRevokesReached, PTL

(* revoke_token returns the number of tokens it has marked, on any tree. *)
THEOREM WalkCounts == Spec => []CountsRevoked
BY WalkRevokesReached, PTL

=============================================================================
