------------------------------- MODULE Tokens -------------------------------
(***************************************************************************)
(* TokenManager of vaultlite/auth.py: one action per method, each atomic   *)
(* because the method holds self._lock.  Who calls them, in what order, is *)
(* module Sessions.                                                        *)
(*                                                                         *)
(* Token ids are unguessable and never reused: ids are numbered in the     *)
(* order in which they are issued.  Policies and metadata are left out:    *)
(* what a token may do is decided in module Sessions.                      *)
(***************************************************************************)
EXTENDS Clock, FiniteSets, Functions

CONSTANTS
    TokenTTLs,   \* the ttl arguments: numbers, or None
    UseLimits,   \* the max_uses arguments, 0 for unlimited
    MaxTokens    \* bound on the tokens issued

ASSUME TokenTTLsAssumption == TokenTTLs \subseteq Nat \cup {None}
ASSUME UseLimitsAssumption == UseLimits \subseteq Nat
ASSUME MaxTokensAssumption == MaxTokens \in Nat

VARIABLES
    tokens,       \* _tokens
    approles,     \* _approles: the token_ttl of each role created
    issued,       \* how many ids have been issued
    lineage,      \* history: each id with the ids it descends from
    everRevoked   \* history: the ids whose token revoke_token has marked

tokenVars == <<tokens, approles, issued, lineage, everRevoked>>

TokenIds == 1 .. issued

TokensInit ==
    /\ tokens = << >>
    /\ approles = {}
    /\ issued = 0
    /\ lineage = << >>
    /\ everRevoked = {}

-----------------------------------------------------------------------------
(* Mutated form of ExpiresAt: a number stands for "never". *)
ExpiresAtSentinel(ttl) == IF ttl \in {None, 0} THEN -1 ELSE now + ttl

(* "now + ttl if ttl else None": a ttl of 0 never expires either. *)
ExpiresAt(ttl) == IF ttl \in {None, 0} THEN None ELSE now + ttl

(* A token with a new id, put into _tokens. *)
Issue(parent, ttl, uses, renewable, root) ==
    /\ issued < MaxTokens
    /\ issued' = issued + 1
    /\ tokens' = Put(tokens, issued',
                     [parent    |-> parent,
                      expiresAt |-> ExpiresAt(ttl),
                      renewable |-> renewable,
                      maxUses   |-> uses,
                      useCount  |-> 0,
                      revoked   |-> FALSE,
                      isRoot    |-> root])
    /\ lineage' = Put(lineage, issued',
                      {issued'} \cup (IF parent = None THEN {} ELSE lineage[parent]))
    /\ UNCHANGED everRevoked

CreateRootToken == Issue(None, None, 0, FALSE, TRUE) /\ UNCHANGED approles

CreateToken(parent, ttl, uses, renewable) ==
    Issue(parent, ttl, uses, renewable, FALSE) /\ UNCHANGED approles

-----------------------------------------------------------------------------
Expired(t) == tokens[t].expiresAt # None /\ now > tokens[t].expiresAt

(* Mutated form of UsesExhausted: one use too many. *)
UsesExhaustedLate(t) == tokens[t].maxUses # 0 /\ tokens[t].useCount > tokens[t].maxUses

UsesExhausted(t) == tokens[t].maxUses # 0 /\ tokens[t].useCount >= tokens[t].maxUses

(* Mutated form of Valid: revocation is not looked at. *)
ValidIfNotExpired(t) ==
    /\ t \in DOMAIN tokens
    /\ ~Expired(t)
    /\ ~UsesExhausted(t)

Valid(t) ==
    /\ t \in DOMAIN tokens
    /\ ~tokens[t].revoked
    /\ ~Expired(t)
    /\ ~UsesExhausted(t)

(* The use count of a token with unlimited uses is never read: it stays 0. *)
ValidateToken(t) ==
    /\ Valid(t)
    /\ tokens' = [tokens EXCEPT ![t].useCount = IF tokens[t].maxUses = 0 THEN 0 ELSE @ + 1]
    /\ UNCHANGED <<approles, issued, lineage, everRevoked>>

-----------------------------------------------------------------------------
(* c is a child that revoke_token goes on to from p: not revoked yet. *)
LiveChild(p, c) == tokens[c].parent = p /\ ~tokens[c].revoked

(* What the breadth-first walk of revoke_token marks (module RevokeWalk has
   the walk): nothing when t is unknown or already revoked, else the least
   set with t in it and with the live children of its members. *)
Reached(t) ==
    {c \in DOMAIN tokens :
        /\ t \in DOMAIN tokens /\ ~tokens[t].revoked
        /\ \A S \in SUBSET DOMAIN tokens :
             (t \in S /\ \A p \in S, d \in DOMAIN tokens : LiveChild(p, d) => d \in S) => c \in S}

(* Mutated form of RevokeToken: the walk stops at the children. *)
RevokeTokenAndChildren(t) ==
    LET marked == {c \in Reached(t) : c = t \/ tokens[c].parent = t} IN
      /\ tokens' = [x \in DOMAIN tokens |->
                      [tokens[x] EXCEPT !.revoked = @ \/ x \in marked]]
      /\ everRevoked' = everRevoked \cup marked
      /\ UNCHANGED <<approles, issued, lineage>>

RevokeToken(t) ==
    /\ tokens' = [x \in DOMAIN tokens |->
                    [tokens[x] EXCEPT !.revoked = @ \/ x \in Reached(t)]]
    /\ everRevoked' = everRevoked \cup Reached(t)
    /\ UNCHANGED <<approles, issued, lineage>>

(* Mutated form of RenewToken: any token is renewed. *)
RenewAnyToken(t, ttl) ==
    /\ t \in DOMAIN tokens
    /\ ~tokens[t].revoked
    /\ tokens' = [tokens EXCEPT ![t].expiresAt = now + ttl]
    /\ UNCHANGED <<approles, issued, lineage, everRevoked>>

(* Expiry is not looked at: an expired token becomes valid again. *)
RenewToken(t, ttl) ==
    /\ t \in DOMAIN tokens
    /\ tokens[t].renewable
    /\ ~tokens[t].revoked
    /\ tokens' = [tokens EXCEPT ![t].expiresAt = now + ttl]
    /\ UNCHANGED <<approles, issued, lineage, everRevoked>>

CleanupExpiredTokens ==
    /\ tokens' = Restrict(tokens, {t \in DOMAIN tokens : ~Expired(t) /\ ~tokens[t].revoked})
    /\ UNCHANGED <<approles, issued, lineage, everRevoked>>

-----------------------------------------------------------------------------
CreateApprole(ttl) ==
    /\ approles' = approles \cup {ttl}
    /\ UNCHANGED <<tokens, issued, lineage, everRevoked>>

(* With the right secret_id; a wrong one raises and changes nothing.  The
   token has no parent, whoever created the role. *)
ApproleLogin(ttl) ==
    /\ ttl \in approles
    /\ Issue(None, ttl, 0, TRUE, FALSE)
    /\ UNCHANGED approles

=============================================================================
