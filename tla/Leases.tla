------------------------------- MODULE Leases -------------------------------
(***************************************************************************)
(* LeaseManager of vaultlite/lease.py: one action per method, each atomic  *)
(* because the method holds self._lock.  Lease ids are never reused and    *)
(* are numbered in the order in which they are issued.                     *)
(***************************************************************************)
EXTENDS Clock, FiniteSets, Functions

CONSTANTS
    Paths,       \* the secret paths leases are for
    DefaultTTL, MaxTTL,
    LeaseTTLs,   \* the ttl arguments of renewals: numbers, or None
    MaxLeases    \* bound on the leases issued

ASSUME LeaseTTLsAssumption ==
    /\ DefaultTTL \in Nat \ {0}
    /\ MaxTTL \in Nat \ {0}
    /\ LeaseTTLs \subseteq Nat \cup {None}
    /\ MaxLeases \in Nat

VARIABLES
    leases,        \* _leases
    leasesIssued   \* how many ids have been issued

leaseVars == <<leases, leasesIssued>>

LeasesInit == leases = << >> /\ leasesIssued = 0

-----------------------------------------------------------------------------
Lesser(a, b) == IF a < b THEN a ELSE b

(* Mutated form of Granted: the cap is forgotten. *)
GrantedUncapped(ttl, default) == IF ttl \in {None, 0} THEN default ELSE ttl

(* "min(ttl or default, max_ttl)". *)
Granted(ttl, default) == Lesser(IF ttl \in {None, 0} THEN default ELSE ttl, MaxTTL)

LeaseExpired(l) == now > leases[l].expiresAt

(* What list_leases shows. *)
Active(l) == l \in DOMAIN leases /\ ~LeaseExpired(l) /\ ~leases[l].revoked

CreateLease(path, token, ttl) ==
    /\ leasesIssued < MaxLeases
    /\ leasesIssued' = leasesIssued + 1
    /\ leases' = Put(leases, leasesIssued',
                     [path |-> path, token |-> token, ttl |-> Granted(ttl, DefaultTTL),
                      expiresAt |-> now + Granted(ttl, DefaultTTL), revoked |-> FALSE])

(* Mutated form of RenewLease: expiry is not looked at. *)
RenewLeaseUnlessRevoked(l, ttl) ==
    /\ l \in DOMAIN leases
    /\ ~leases[l].revoked
    /\ LET granted == Granted(ttl, leases[l].ttl) IN
         leases' = [leases EXCEPT ![l].ttl = granted, ![l].expiresAt = now + granted]
    /\ UNCHANGED leasesIssued

(* Leases are created renewable by every caller. *)
RenewLease(l, ttl) ==
    /\ l \in DOMAIN leases
    /\ ~leases[l].revoked
    /\ ~LeaseExpired(l)
    /\ LET granted == Granted(ttl, leases[l].ttl) IN
         leases' = [leases EXCEPT ![l].ttl = granted, ![l].expiresAt = now + granted]
    /\ UNCHANGED leasesIssued

(* Marks the leases of a set: revoke_lease, revoke_by_path, revoke_by_token. *)
RevokeLeases(L) ==
    /\ leases' = [l \in DOMAIN leases |-> [leases[l] EXCEPT !.revoked = @ \/ l \in L]]
    /\ UNCHANGED leasesIssued

RevokeLease(l) == RevokeLeases({l})

RevokeByPath(path) == RevokeLeases({l \in DOMAIN leases : leases[l].path = path})

RevokeByToken(token) == RevokeLeases({l \in DOMAIN leases : leases[l].token = token})

CleanupExpiredLeases ==
    /\ leases' = Restrict(leases, {l \in DOMAIN leases : Active(l)})
    /\ UNCHANGED leasesIssued

=============================================================================
