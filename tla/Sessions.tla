------------------------------ MODULE Sessions ------------------------------
(***************************************************************************)
(* The requests of vaultlite/vault.py that act on tokens and leases.       *)
(* Every handler authenticates first, under the lock of TokenManager, and  *)
(* acts afterwards, under another acquisition of that lock or under the    *)
(* lock of LeaseManager: between the two it holds nothing but the token    *)
(* it was shown.  revoke_token acts twice.                                 *)
(*                                                                         *)
(* VaultServer answers one request at a time, so its handlers never        *)
(* overlap (Concurrent = FALSE); the same Vault is also used by other      *)
(* threads when the server runs in the background, api.py:347, or when     *)
(* Vault is used as a library (Concurrent = TRUE).  Housekeeping stands    *)
(* for the methods of the two managers that vault.py never calls.          *)
(***************************************************************************)
EXTENDS Tokens, Leases

CONSTANTS
    Threads,        \* what handles requests
    Idle,           \* a thread between two requests
    Concurrent,     \* whether a request may start before another has ended
    Housekeeping    \* whether the methods vault.py does not call are called

ASSUME FlagsAssumption == Concurrent \in BOOLEAN /\ Housekeeping \in BOOLEAN
ASSUME IdleAssumption == Idle \notin [token : Int, revoking : Int \cup {None}]

VARIABLES
    handler,    \* per thread: Idle, or the token authenticated and, once
                \* revoke_token has marked it, the token being revoked
    targeted    \* history: the tokens revoke_token has finished with

vars == <<now, tokenVars, leaseVars, handler, targeted>>

Init ==
    /\ now = 0
    /\ TokensInit
    /\ LeasesInit
    /\ handler = [th \in Threads |-> Idle]
    /\ targeted = {}

-----------------------------------------------------------------------------
Free == Concurrent \/ \A th \in Threads : handler[th] = Idle

Acting(th) == handler[th] # Idle /\ handler[th].revoking = None

Ends(th) == handler' = [handler EXCEPT ![th] = Idle]

(* initialize(): the root token, once. *)
Initialize ==
    /\ issued = 0
    /\ CreateRootToken
    /\ UNCHANGED <<now, leaseVars, handler, targeted>>

(* _authenticate.  A token that is not valid raises and nothing changes. *)
Authenticate(th, t) ==
    /\ handler[th] = Idle
    /\ Free
    /\ ValidateToken(t)
    /\ handler' = [handler EXCEPT ![th] = [token |-> t, revoking |-> None]]
    /\ UNCHANGED <<now, leaseVars, targeted>>

(* _authorize raises, or the operation changes neither tokens nor leases. *)
Return(th) ==
    /\ Acting(th)
    /\ Ends(th)
    /\ UNCHANGED <<now, tokenVars, leaseVars, targeted>>

DoCreateToken(th) ==
    /\ Acting(th)
    /\ \E ttl \in TokenTTLs, uses \in UseLimits, renewable \in BOOLEAN :
         CreateToken(handler[th].token, ttl, uses, renewable)
    /\ Ends(th)
    /\ UNCHANGED <<now, leaseVars, targeted>>

DoRevokeToken(th) ==
    /\ Acting(th)
    /\ \E target \in TokenIds :
         /\ RevokeToken(target)
         /\ handler' = [handler EXCEPT ![th].revoking = target]
    /\ UNCHANGED <<now, leaseVars, targeted>>

(* Mutated form of DoRevokeLeases: the leases of the caller's own token. *)
DoRevokeLeasesOfCaller(th) ==
    /\ handler[th] # Idle
    /\ handler[th].revoking # None
    /\ RevokeByToken(handler[th].token)
    /\ targeted' = targeted \cup {handler[th].revoking}
    /\ Ends(th)
    /\ UNCHANGED <<now, tokenVars>>

DoRevokeLeases(th) ==
    /\ handler[th] # Idle
    /\ handler[th].revoking # None
    /\ RevokeByToken(handler[th].revoking)
    /\ targeted' = targeted \cup {handler[th].revoking}
    /\ Ends(th)
    /\ UNCHANGED <<now, tokenVars>>

(* read() ends with a lease for the token. *)
DoRead(th) ==
    /\ Acting(th)
    /\ \E path \in Paths : CreateLease(path, handler[th].token, None)
    /\ Ends(th)
    /\ UNCHANGED <<now, tokenVars, targeted>>

(* Any valid token renews or revokes any lease: neither is authorised. *)
DoLease(th) ==
    /\ Acting(th)
    /\ \/ \E l \in DOMAIN leases, ttl \in LeaseTTLs : RenewLease(l, ttl)
       \/ \E l \in DOMAIN leases : RevokeLease(l)
    /\ Ends(th)
    /\ UNCHANGED <<now, tokenVars, targeted>>

DoCreateApprole(th) ==
    /\ Acting(th)
    /\ \E ttl \in TokenTTLs : CreateApprole(ttl)
    /\ Ends(th)
    /\ UNCHANGED <<now, leaseVars, targeted>>

(* approle_login needs no token. *)
Login ==
    /\ Free
    /\ \E ttl \in approles : ApproleLogin(ttl)
    /\ UNCHANGED <<now, leaseVars, handler, targeted>>

KeepHouse ==
    /\ Housekeeping
    /\ \/ /\ \/ CleanupExpiredTokens
             \/ \E t \in DOMAIN tokens, ttl \in TokenTTLs \ {None} : RenewToken(t, ttl)
          /\ UNCHANGED leaseVars
       \/ /\ CleanupExpiredLeases \/ \E path \in Paths : RevokeByPath(path)
          /\ UNCHANGED tokenVars
    /\ UNCHANGED <<now, handler, targeted>>

TimePasses == Tick /\ UNCHANGED <<tokenVars, leaseVars, handler, targeted>>

Next ==
    \/ Initialize
    \/ \E th \in Threads :
         \/ \E t \in TokenIds : Authenticate(th, t)
         \/ Return(th)
         \/ DoCreateToken(th)
         \/ DoRevokeToken(th)
         \/ DoRevokeLeases(th)
         \/ DoRead(th)
         \/ DoLease(th)
         \/ DoCreateApprole(th)
    \/ Login
    \/ KeepHouse
    \/ TimePasses

Spec == Init /\ [][Next]_vars

-----------------------------------------------------------------------------
TokenRecord ==
    [parent : Nat \cup {None}, expiresAt : Nat \cup {None}, renewable : BOOLEAN,
     maxUses : Nat, useCount : Nat, revoked : BOOLEAN, isRoot : BOOLEAN]

LeaseRecord ==
    [path : Paths, token : Nat, ttl : Nat, expiresAt : Nat, revoked : BOOLEAN]

(* Types; every id that is used has been issued, and parents are older than
   their children. *)
TypeOK ==
    /\ now \in Nat
    /\ issued \in Nat
    /\ DOMAIN tokens \subseteq TokenIds
    /\ \A t \in DOMAIN tokens :
         /\ tokens[t] \in TokenRecord
         /\ tokens[t].parent # None => tokens[t].parent \in 1 .. (t - 1)
    /\ approles \subseteq TokenTTLs
    /\ lineage \in [TokenIds -> SUBSET TokenIds]
    /\ everRevoked \subseteq TokenIds
    /\ leasesIssued \in Nat
    /\ DOMAIN leases \subseteq 1 .. leasesIssued
    /\ \A l \in DOMAIN leases : leases[l] \in LeaseRecord /\ leases[l].token \in TokenIds
    /\ handler \in [Threads -> {Idle} \cup [token : TokenIds, revoking : TokenIds \cup {None}]]
    /\ targeted \subseteq TokenIds

(* A token is never used more often than max_uses allows. *)
UseCountBounded ==
    \A t \in DOMAIN tokens : tokens[t].maxUses # 0 => tokens[t].useCount <= tokens[t].maxUses

(* auth.py:7: "child tokens are revoked when parent is revoked", and so on
   down the tree, whether the child is older or younger than the revocation. *)
CascadeRevocation ==
    \A t \in DOMAIN tokens : lineage[t] \cap everRevoked # {} => tokens[t].revoked

(* No request is admitted with a token once it, or a token it descends from,
   has been revoked. *)
NoRequestAfterRevocation ==
    [][\A th \in Threads :
         handler[th] = Idle /\ handler'[th] # Idle =>
            lineage[handler'[th].token] \cap everRevoked = {}]_vars

(* Once marked by revoke_token, a token is never accepted again. *)
RevokedForever == \A t \in everRevoked : ~Valid(t)

(* vault.py:536, "Also revoke associated leases": once revoke_token has
   returned, no lease of its target is active.  A read admitted before and
   overtaken by the revocation issues its lease afterwards: with threads this
   does not hold. *)
RevokedHoldsNoLease ==
    \A l \in DOMAIN leases : leases[l].token \in targeted => leases[l].revoked

(* A token created not renewable that has expired is never accepted again:
   neither a renewal nor anything else brings it back (auth.py:155). *)
ExpiredForGood ==
    [][\A t \in DOMAIN tokens :
         ~tokens[t].renewable /\ Expired(t) => ~Valid(t)']_vars

(* vault.py:529 and 536, "Revoke a token and its children" and "Also revoke
   associated leases", taken together: between requests no revoked token
   holds a lease that is not revoked. *)
LeasesFollowTokens ==
    (\A th \in Threads : handler[th] = Idle) =>
        \A l \in DOMAIN leases : leases[l].token \in everRevoked => leases[l].revoked

(* A lease that has expired, or was revoked or cleaned up, is never active
   again, whatever renewals follow. *)
LeaseNeverRevives == [][\A l \in 1 .. leasesIssued : ~Active(l) => ~Active(l)']_vars

(* At no moment does a lease have more than max_ttl left to run. *)
LeaseWithinMax ==
    \A l \in DOMAIN leases :
        leases[l].ttl <= MaxTTL /\ leases[l].expiresAt - now <= leases[l].ttl

=============================================================================
