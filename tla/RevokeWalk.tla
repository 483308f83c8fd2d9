----------------------------- MODULE RevokeWalk -----------------------------
(***************************************************************************)
(* The walk of TokenManager.revoke_token, one round of its while loop at a *)
(* time, over any token tree.  The lock is held throughout, so nothing but *)
(* the walk moves.  Module Tokens takes the walk as one step that marks    *)
(* Reached(start); here that is what has to be shown.                      *)
(*                                                                         *)
(* The list to_revoke, from idx on, is the set `pending', and a round takes*)
(* any of its members: the result does not depend on the order.            *)
(***************************************************************************)
EXTENDS Integers, FiniteSets

CONSTANTS
    Ids,    \* the tokens held
    None    \* no parent

ASSUME IdsAssumption == Ids \subseteq Nat /\ IsFiniteSet(Ids)
ASSUME NoneAssumption == None \notin Int

VARIABLES
    parent,     \* parent_token of each token
    start,      \* the token_id to revoke, held or not
    before,     \* history: the tokens already revoked when the walk began
    revoked,    \* the tokens revoked
    pending,    \* to_revoke[idx:]
    count

vars == <<parent, start, before, revoked, pending, count>>

(* A parent is issued before its children.  One that is no longer held is to
   the walk as no parent.  Any token may be revoked already, a live one below a
   revoked one included: two overlapping requests leave that (module Sessions). *)
Trees == {p \in [Ids -> Ids \cup {None}] : \A t \in Ids : p[t] # None => p[t] < t}

(* Mutated form of Init: a token_id that is not held is walked from too. *)
InitUnchecked ==
    /\ parent \in Trees
    /\ start \in Ids \cup {None}
    /\ before \in SUBSET Ids
    /\ revoked = before
    /\ pending = {start}
    /\ count = 0

Init ==
    /\ parent \in Trees
    /\ start \in Ids \cup {None}
    /\ before \in SUBSET Ids
    /\ revoked = before
    /\ pending = IF start \in Ids THEN {start} ELSE {}
    /\ count = 0

(* Mutated form of Skip: idx is moved on after a token is marked only. *)
SkipWithoutMoving(t) == t \in revoked /\ UNCHANGED vars

Skip(t) ==
    /\ t \in revoked
    /\ pending' = pending \ {t}
    /\ UNCHANGED <<parent, start, before, revoked, count>>

LiveChildren(t) == {c \in Ids : parent[c] = t /\ c \notin revoked}

(* Mutated forms of Mark: the children are forgotten; a token that is revoked
   already is counted again. *)
MarkOnly(t) ==
    /\ t \notin revoked
    /\ revoked' = revoked \cup {t}
    /\ count' = count + 1
    /\ pending' = pending \ {t}
    /\ UNCHANGED <<parent, start, before>>

MarkAgain(t) ==
    /\ revoked' = revoked \cup {t}
    /\ count' = count + 1
    /\ pending' = (pending \ {t}) \cup LiveChildren(t)
    /\ UNCHANGED <<parent, start, before>>

(* The token itself is marked before its children are looked for. *)
Mark(t) ==
    /\ t \notin revoked
    /\ revoked' = revoked \cup {t}
    /\ count' = count + 1
    /\ pending' = (pending \ {t}) \cup LiveChildren(t)
    /\ UNCHANGED <<parent, start, before>>

Next == \E t \in pending : Skip(t) \/ Mark(t)

Spec == Init /\ [][Next]_vars /\ WF_vars(Next)

-----------------------------------------------------------------------------
TypeOK ==
    /\ parent \in [Ids -> Ids \cup {None}]
    /\ start \in Ids \cup {None}
    /\ before \subseteq revoked
    /\ revoked \subseteq Ids
    /\ pending \subseteq Ids
    /\ count \in Nat

(* The tokens as they were when the walk began, for module Tokens. *)
Tokens == INSTANCE Tokens WITH
    TokenTTLs <- {}, UseLimits <- {}, MaxTokens <- 0, MaxTime <- 0,
    now <- 0, approles <- {}, issued <- 0, lineage <- << >>, everRevoked <- {},
    tokens <- [t \in Ids |-> [parent |-> parent[t], revoked |-> t \in before]]

(* When the walk is over it has revoked exactly what Tokens says: the token and
   its live descendants, reached through live tokens, and nothing else. *)
RevokesReached == pending = {} => revoked = before \cup Tokens!Reached(start)

(* At any moment only tokens to be revoked are, and the count it returns is how
   many. *)
CountsRevoked == count = Cardinality(revoked \ before)

(* The walk ends: no tree sends it in circles. *)
Terminates == <>(pending = {})

=============================================================================
