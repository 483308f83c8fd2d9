--------------------------- MODULE SessionsProofs ---------------------------
(***************************************************************************)
(* Proofs about Sessions, for any number of threads, tokens and leases and *)
(* any durations.                                                          *)
(***************************************************************************)
EXTENDS Sessions, WellFoundedInduction, NaturalsInduction, TLAPS

USE NoneIsNoNumber, MaxTimeAssumption, TokenTTLsAssumption, UseLimitsAssumption,
    MaxTokensAssumption, LeaseTTLsAssumption, FlagsAssumption, IdleAssumption

-----------------------------------------------------------------------------
(* Types. *)
TokensOK ==
    /\ issued \in Nat
    /\ DOMAIN tokens \subseteq TokenIds
    /\ \A t \in DOMAIN tokens :
         /\ tokens[t] \in TokenRecord
         /\ tokens[t].parent # None => tokens[t].parent \in 1 .. (t - 1)
    /\ approles \subseteq TokenTTLs
    /\ lineage \in [TokenIds -> SUBSET TokenIds]
    /\ everRevoked \subseteq TokenIds

LeasesOK ==
    /\ leasesIssued \in Nat
    /\ DOMAIN leases \subseteq 1 .. leasesIssued
    /\ \A l \in DOMAIN leases : leases[l] \in LeaseRecord /\ leases[l].token \in TokenIds

HandlersOK ==
    /\ handler \in [Threads -> {Idle} \cup [token : TokenIds, revoking : TokenIds \cup {None}]]
    /\ targeted \subseteq TokenIds

LEMMA TypeParts == TypeOK <=> now \in Nat /\ TokensOK /\ LeasesOK /\ HandlersOK
BY DEF TypeOK, TokensOK, LeasesOK, HandlersOK

LEMMA IssueType ==
    ASSUME now \in Nat, TokensOK,
           NEW parent \in TokenIds \cup {None}, NEW ttl \in Nat \cup {None},
           NEW uses \in Nat, NEW renewable \in BOOLEAN, NEW root \in BOOLEAN,
           Issue(parent, ttl, uses, renewable, root), UNCHANGED approles
    PROVE  TokensOK' /\ issued' = issued + 1
<1> DEFINE new == [parent |-> parent, expiresAt |-> ExpiresAt(ttl), renewable |-> renewable,
                   maxUses |-> uses, useCount |-> 0, revoked |-> FALSE, isRoot |-> root]
<1>1. /\ issued' = issued + 1 /\ issued' \in Nat
      /\ tokens' = Put(tokens, issued', new)
      /\ lineage' = Put(lineage, issued',
                        {issued'} \cup (IF parent = None THEN {} ELSE lineage[parent]))
      /\ everRevoked' = everRevoked
    BY DEF Issue, TokensOK
<1>2. new \in TokenRecord
    <2>1. ExpiresAt(ttl) \in Nat \cup {None}
        BY DEF ExpiresAt
    <2> QED BY <2>1 DEF TokenRecord, TokensOK, TokenIds
<1>3. TokenIds' = TokenIds \cup {issued'} /\ TokenIds \subseteq TokenIds'
    BY <1>1 DEF TokenIds, TokensOK
<1>4. new.parent # None => new.parent \in 1 .. (issued' - 1)
    BY <1>1 DEF TokenIds, TokensOK
<1> HIDE DEF new
<1>5. /\ DOMAIN tokens' = DOMAIN tokens \cup {issued'}
      /\ tokens'[issued'] = new
      /\ \A x \in DOMAIN tokens : x # issued' => tokens'[x] = tokens[x]
    <2>1. tokens' = [x \in DOMAIN tokens \cup {issued'} |-> IF x = issued' THEN new ELSE tokens[x]]
        BY <1>1 DEF Put
    <2> QED BY <2>1
<1>6. /\ DOMAIN tokens' \subseteq TokenIds'
      /\ \A t \in DOMAIN tokens' :
           /\ tokens'[t] \in TokenRecord
           /\ tokens'[t].parent # None => tokens'[t].parent \in 1 .. (t - 1)
    <2>1. DOMAIN tokens' \subseteq TokenIds'
        BY <1>3, <1>5 DEF TokensOK
    <2>2. ASSUME NEW t \in DOMAIN tokens, t # issued'
          PROVE  /\ tokens'[t] \in TokenRecord
                 /\ tokens'[t].parent # None => tokens'[t].parent \in 1 .. (t - 1)
        <3>1. tokens'[t] = tokens[t]
            BY <1>5, <2>2
        <3> QED BY <3>1 DEF TokensOK
    <2> QED BY <1>2, <1>4, <1>5, <2>1, <2>2
<1>7. lineage' \in [TokenIds' -> SUBSET TokenIds']
    <2> DEFINE line == {issued'} \cup (IF parent = None THEN {} ELSE lineage[parent])
    <2>1. line \subseteq TokenIds'
        BY <1>3 DEF TokensOK
    <2>2. lineage' = [x \in DOMAIN lineage \cup {issued'} |->
                        IF x = issued' THEN line ELSE lineage[x]]
        BY <1>1 DEF Put
    <2>3. DOMAIN lineage = TokenIds /\ \A x \in TokenIds : lineage[x] \subseteq TokenIds'
        BY <1>3 DEF TokensOK
    <2> QED BY <1>3, <2>1, <2>2, <2>3
<1> QED BY <1>1, <1>3, <1>6, <1>7 DEF TokensOK

LEMMA ValidateType ==
    ASSUME TokensOK, NEW t, ValidateToken(t)
    PROVE  TokensOK' /\ t \in TokenIds /\ UNCHANGED issued
<1>1. /\ t \in DOMAIN tokens
      /\ UNCHANGED <<approles, issued, lineage, everRevoked>>
    BY DEF ValidateToken, Valid
<1>2. PICK n \in Nat : tokens' = [tokens EXCEPT ![t].useCount = n]
    <2>1. tokens[t] \in TokenRecord
        BY <1>1 DEF TokensOK
    <2>2. (IF tokens[t].maxUses = 0 THEN 0 ELSE tokens[t].useCount + 1) \in Nat
        BY <2>1 DEF TokenRecord
    <2> QED BY <2>2 DEF ValidateToken
<1>3. DOMAIN tokens' = DOMAIN tokens
    BY <1>2
<1>4. ASSUME NEW x \in DOMAIN tokens
      PROVE  /\ tokens'[x] \in TokenRecord
             /\ tokens'[x].parent = tokens[x].parent
    <2>1. tokens[x] \in TokenRecord
        BY DEF TokensOK
    <2> QED BY <1>2, <2>1 DEF TokenRecord
<1> QED BY <1>1, <1>3, <1>4 DEF TokensOK, TokenIds

LEMMA RevokeType ==
    ASSUME TokensOK, NEW t, RevokeToken(t)
    PROVE  TokensOK' /\ UNCHANGED issued
<1>1. /\ UNCHANGED <<approles, issued, lineage>>
      /\ everRevoked' = everRevoked \cup Reached(t)
      /\ tokens' = [x \in DOMAIN tokens |-> [tokens[x] EXCEPT !.revoked = @ \/ x \in Reached(t)]]
    BY DEF RevokeToken
<1>2. Reached(t) \subseteq DOMAIN tokens
    BY DEF Reached
<1>3. DOMAIN tokens' = DOMAIN tokens
    BY <1>1
<1>4. ASSUME NEW x \in DOMAIN tokens
      PROVE  /\ tokens'[x] \in TokenRecord
             /\ tokens'[x].parent = tokens[x].parent
    <2>1. tokens[x] \in TokenRecord
        BY DEF TokensOK
    <2>2. tokens'[x] = [tokens[x] EXCEPT !.revoked = tokens[x].revoked \/ x \in Reached(t)]
        BY <1>1
    <2> QED BY <2>1, <2>2 DEF TokenRecord
<1> QED BY <1>1, <1>2, <1>3, <1>4 DEF TokensOK, TokenIds

LEMMA HousekeepingType ==
    ASSUME now \in Nat, TokensOK,
           \/ CleanupExpiredTokens
           \/ \E t \in DOMAIN tokens, ttl \in TokenTTLs \ {None} : RenewToken(t, ttl)
    PROVE  TokensOK' /\ UNCHANGED issued
<1>1. CASE CleanupExpiredTokens
    <2>1. /\ DOMAIN tokens' \subseteq DOMAIN tokens
          /\ \A x \in DOMAIN tokens' : tokens'[x] = tokens[x]
          /\ UNCHANGED <<approles, issued, lineage, everRevoked>>
        BY <1>1 DEF CleanupExpiredTokens, Restrict
    <2> QED BY <2>1 DEF TokensOK, TokenIds
<1>2. CASE \E t \in DOMAIN tokens, ttl \in TokenTTLs \ {None} : RenewToken(t, ttl)
    <2>1. PICK t \in DOMAIN tokens, ttl \in TokenTTLs \ {None} : RenewToken(t, ttl)
        BY <1>2
    <2>2. /\ tokens' = [tokens EXCEPT ![t].expiresAt = now + ttl]
          /\ now + ttl \in Nat
          /\ UNCHANGED <<approles, issued, lineage, everRevoked>>
        BY <2>1 DEF RenewToken
    <2>3. ASSUME NEW x \in DOMAIN tokens
          PROVE  /\ tokens'[x] \in TokenRecord
                 /\ tokens'[x].parent = tokens[x].parent
        <3>1. tokens[x] \in TokenRecord
            BY DEF TokensOK
        <3> QED BY <2>2, <3>1 DEF TokenRecord
    <2>4. DOMAIN tokens' = DOMAIN tokens
        BY <2>2
    <2> QED BY <2>2, <2>3, <2>4 DEF TokensOK, TokenIds
<1> QED BY <1>1, <1>2

LEMMA GrantedType ==
    ASSUME NEW ttl \in Nat \cup {None}, NEW default \in Nat
    PROVE  Granted(ttl, default) \in Nat /\ Granted(ttl, default) <= MaxTTL
BY DEF Granted, Lesser

LEMMA CreateLeaseType ==
    ASSUME now \in Nat, LeasesOK, NEW path \in Paths, NEW token \in TokenIds,
           NEW ttl \in Nat \cup {None}, CreateLease(path, token, ttl), UNCHANGED issued
    PROVE  LeasesOK'
<1> DEFINE granted == Granted(ttl, DefaultTTL)
           new == [path |-> path, token |-> token, ttl |-> granted,
                   expiresAt |-> now + granted, revoked |-> FALSE]
<1>1. /\ leasesIssued' = leasesIssued + 1 /\ leasesIssued' \in Nat
      /\ leases' = [x \in DOMAIN leases \cup {leasesIssued'} |->
                      IF x = leasesIssued' THEN new ELSE leases[x]]
    BY DEF CreateLease, LeasesOK, Put
<1>2. granted \in Nat
    BY GrantedType
<1>3. token \in Nat
    BY DEF TokenIds
<1>4. new \in LeaseRecord /\ new.token \in TokenIds
    <2> HIDE DEF granted
    <2> QED BY <1>2, <1>3 DEF LeaseRecord
<1> HIDE DEF new
<1>5. /\ DOMAIN leases' = DOMAIN leases \cup {leasesIssued'}
      /\ leases'[leasesIssued'] = new
      /\ \A x \in DOMAIN leases : x # leasesIssued' => leases'[x] = leases[x]
    BY <1>1
<1>6. DOMAIN leases' \subseteq 1 .. leasesIssued'
    BY <1>1, <1>5 DEF LeasesOK
<1> QED BY <1>1, <1>4, <1>5, <1>6 DEF LeasesOK, TokenIds

LEMMA RenewLeaseType ==
    ASSUME now \in Nat, LeasesOK, NEW l, NEW ttl \in Nat \cup {None},
           RenewLease(l, ttl), UNCHANGED issued
    PROVE  LeasesOK'
<1> DEFINE granted == Granted(ttl, leases[l].ttl)
<1>1. /\ l \in DOMAIN leases
      /\ leases' = [leases EXCEPT ![l].ttl = granted, ![l].expiresAt = now + granted]
      /\ UNCHANGED leasesIssued
    BY DEF RenewLease
<1>2. granted \in Nat
    <2>1. leases[l].ttl \in Nat
        BY <1>1 DEF LeasesOK, LeaseRecord
    <2> QED BY <2>1, GrantedType
<1> HIDE DEF granted
<1>3. ASSUME NEW x \in DOMAIN leases
      PROVE  leases'[x] \in LeaseRecord /\ leases'[x].token = leases[x].token
    <2>1. leases[x] \in LeaseRecord
        BY DEF LeasesOK
    <2> QED BY <1>1, <1>2, <2>1 DEF LeaseRecord
<1>4. DOMAIN leases' = DOMAIN leases
    BY <1>1
<1> QED BY <1>1, <1>3, <1>4 DEF LeasesOK, TokenIds

LEMMA RevokeLeasesType ==
    ASSUME LeasesOK, NEW L, RevokeLeases(L), UNCHANGED issued
    PROVE  LeasesOK'
<1>1. /\ leases' = [l \in DOMAIN leases |-> [leases[l] EXCEPT !.revoked = @ \/ l \in L]]
      /\ UNCHANGED leasesIssued
    BY DEF RevokeLeases
<1>2. ASSUME NEW x \in DOMAIN leases
      PROVE  leases'[x] \in LeaseRecord /\ leases'[x].token = leases[x].token
    <2>1. leases[x] \in LeaseRecord
        BY DEF LeasesOK
    <2>2. leases'[x] = [leases[x] EXCEPT !.revoked = leases[x].revoked \/ x \in L]
        BY <1>1
    <2> QED BY <2>1, <2>2 DEF LeaseRecord
<1>3. DOMAIN leases' = DOMAIN leases
    BY <1>1
<1> QED BY <1>1, <1>2, <1>3 DEF LeasesOK, TokenIds

LEMMA CleanupLeasesType ==
    ASSUME LeasesOK, CleanupExpiredLeases, UNCHANGED issued
    PROVE  LeasesOK'
<1>1. /\ DOMAIN leases' \subseteq DOMAIN leases
      /\ \A x \in DOMAIN leases' : leases'[x] = leases[x]
      /\ UNCHANGED leasesIssued
    BY DEF CleanupExpiredLeases, Restrict
<1> QED BY <1>1 DEF LeasesOK, TokenIds

(* More ids never hurt the types of leases and handlers. *)
LEMMA MoreIds ==
    ASSUME issued \in Nat, issued' \in {issued, issued + 1}
    PROVE  /\ LeasesOK /\ UNCHANGED leaseVars => LeasesOK'
           /\ HandlersOK /\ UNCHANGED <<handler, targeted>> => HandlersOK'
<1>1. TokenIds \subseteq TokenIds'
    BY DEF TokenIds
<1>2. LeasesOK /\ UNCHANGED leaseVars => LeasesOK'
    BY <1>1 DEF LeasesOK, leaseVars
<1>3. HandlersOK /\ UNCHANGED <<handler, targeted>> => HandlersOK'
    BY <1>1 DEF HandlersOK
<1> QED BY <1>2, <1>3

(* A thread starts or ends a request, or goes on to the leases. *)
LEMMA HandlerStep ==
    ASSUME HandlersOK, issued \in Nat, issued' \in {issued, issued + 1},
           NEW th \in Threads,
           NEW h \in {Idle} \cup [token : TokenIds, revoking : TokenIds \cup {None}],
           handler' = [handler EXCEPT ![th] = h],
           targeted' \subseteq TokenIds
    PROVE  HandlersOK'
<1>1. TokenIds \subseteq TokenIds'
    BY DEF TokenIds
<1>2. h \in {Idle} \cup [token : TokenIds', revoking : TokenIds' \cup {None}]
    BY <1>1
<1>3. \A x \in Threads :
        handler[x] \in {Idle} \cup [token : TokenIds', revoking : TokenIds' \cup {None}]
    BY <1>1 DEF HandlersOK
<1> QED BY <1>1, <1>2, <1>3 DEF HandlersOK

LEMMA SameTokens == TokensOK /\ UNCHANGED tokenVars => TokensOK' /\ UNCHANGED issued
BY DEF TokensOK, tokenVars, TokenIds

LEMMA ActingHandler ==
    ASSUME HandlersOK, NEW th \in Threads, handler[th] # Idle
    PROVE  /\ handler[th].token \in TokenIds
           /\ handler[th].revoking # None => handler[th].revoking \in TokenIds
BY DEF HandlersOK

LEMMA TypeInit == Init => TypeOK
<1> SUFFICES ASSUME Init
             PROVE  TypeOK
    OBVIOUS
<1>1. TokensOK
    <2>1. TokenIds = {}
        BY DEF Init, TokensInit, TokenIds
    <2> QED BY <2>1 DEF Init, TokensInit, TokensOK
<1>2. LeasesOK
    BY DEF Init, LeasesInit, LeasesOK
<1>3. HandlersOK
    BY DEF Init, HandlersOK
<1> QED BY <1>1, <1>2, <1>3, TypeParts DEF Init

LEMMA TypeNext == TypeOK /\ [Next]_vars => TypeOK'
<1> SUFFICES ASSUME TypeOK, [Next]_vars
             PROVE  TypeOK'
    OBVIOUS
<1>0. now \in Nat /\ TokensOK /\ LeasesOK /\ HandlersOK /\ issued \in Nat
    BY TypeParts DEF TokensOK
<1> DEFINE Goal == now' \in Nat /\ TokensOK' /\ LeasesOK' /\ HandlersOK'
<1>1. ASSUME Initialize
      PROVE  Goal
    <2>1. Issue(None, None, 0, FALSE, TRUE) /\ UNCHANGED approles
        BY <1>1 DEF Initialize, CreateRootToken
    <2>2. TokensOK' /\ issued' = issued + 1
        BY <1>0, <2>1, IssueType
    <2>3. UNCHANGED <<leaseVars, handler, targeted>> /\ UNCHANGED now
        BY <1>1 DEF Initialize
    <2> QED BY <1>0, <2>2, <2>3, MoreIds
<1>2. ASSUME NEW th \in Threads, NEW t \in TokenIds, Authenticate(th, t)
      PROVE  Goal
    <2>1. TokensOK' /\ UNCHANGED issued
        BY <1>0, <1>2, ValidateType DEF Authenticate
    <2>2. handler' = [handler EXCEPT ![th] = [token |-> t, revoking |-> None]]
        BY <1>2 DEF Authenticate
    <2>3. UNCHANGED <<leaseVars, targeted>> /\ UNCHANGED now
        BY <1>2 DEF Authenticate
    <2>4. HandlersOK'
        BY <1>0, <2>1, <2>2, <2>3, HandlerStep DEF HandlersOK
    <2> QED BY <1>0, <2>1, <2>3, <2>4, MoreIds
<1>3. ASSUME NEW th \in Threads, Return(th)
      PROVE  Goal
    <2>1. handler' = [handler EXCEPT ![th] = Idle]
        BY <1>3 DEF Return, Ends
    <2>2. UNCHANGED tokenVars /\ UNCHANGED <<leaseVars, targeted>> /\ UNCHANGED now
        BY <1>3 DEF Return
    <2>3. TokensOK' /\ UNCHANGED issued
        BY <1>0, <2>2, SameTokens
    <2>4. HandlersOK'
        BY <1>0, <2>1, <2>2, <2>3, HandlerStep DEF HandlersOK
    <2> QED BY <1>0, <2>2, <2>3, <2>4, MoreIds
<1>4. ASSUME NEW th \in Threads, DoCreateToken(th)
      PROVE  Goal
    <2>1. PICK ttl \in TokenTTLs, uses \in UseLimits, renewable \in BOOLEAN :
            CreateToken(handler[th].token, ttl, uses, renewable)
        BY <1>4 DEF DoCreateToken
    <2>2. handler[th].token \in TokenIds
        BY <1>0, <1>4, ActingHandler DEF DoCreateToken, Acting
    <2>3. TokensOK' /\ issued' = issued + 1
        <3>1. /\ Issue(handler[th].token, ttl, uses, renewable, FALSE)
              /\ UNCHANGED approles
            BY <2>1 DEF CreateToken
        <3>2. ttl \in Nat \cup {None} /\ uses \in Nat
            OBVIOUS
        <3>3. CASE renewable = TRUE
            <4>1. Issue(handler[th].token, ttl, uses, TRUE, FALSE)
                BY <3>1, <3>3
            <4> QED BY <1>0, <2>2, <3>1, <3>2, <4>1, IssueType
        <3>4. CASE renewable = FALSE
            <4>1. Issue(handler[th].token, ttl, uses, FALSE, FALSE)
                BY <3>1, <3>4
            <4> QED BY <1>0, <2>2, <3>1, <3>2, <4>1, IssueType
        <3> QED BY <3>3, <3>4
    <2>4. /\ handler' = [handler EXCEPT ![th] = Idle]
          /\ UNCHANGED <<leaseVars, targeted>> /\ UNCHANGED now
        BY <1>4 DEF DoCreateToken, Ends
    <2>5. targeted' \subseteq TokenIds
        BY <1>0, <2>4 DEF HandlersOK
    <2>6. HandlersOK'
        BY <1>0, <2>3, <2>4, <2>5, HandlerStep
    <2> QED BY <1>0, <2>3, <2>4, <2>6, MoreIds
<1>5. ASSUME NEW th \in Threads, DoRevokeToken(th)
      PROVE  Goal
    <2>1. PICK target \in TokenIds :
            /\ RevokeToken(target)
            /\ handler' = [handler EXCEPT ![th].revoking = target]
        BY <1>5 DEF DoRevokeToken
    <2>2. TokensOK' /\ UNCHANGED issued
        BY <1>0, <2>1, RevokeType
    <2>3. UNCHANGED <<leaseVars, targeted>> /\ UNCHANGED now /\ handler[th] # Idle
        BY <1>5 DEF DoRevokeToken, Acting
    <2>4. handler[th] \in [token : TokenIds, revoking : TokenIds \cup {None}]
        BY <1>0, <2>3 DEF HandlersOK
    <2>5. [handler[th] EXCEPT !.revoking = target]
             \in [token : TokenIds, revoking : TokenIds \cup {None}]
        BY <2>1, <2>4
    <2>6. handler' = [handler EXCEPT ![th] = [handler[th] EXCEPT !.revoking = target]]
        BY <2>1
    <2>7. HandlersOK'
        BY <1>0, <2>2, <2>3, <2>5, <2>6, HandlerStep DEF HandlersOK
    <2> QED BY <1>0, <2>2, <2>3, <2>7, MoreIds
<1>6. ASSUME NEW th \in Threads, DoRevokeLeases(th)
      PROVE  Goal
    <2>1. UNCHANGED tokenVars /\ UNCHANGED now /\ handler' = [handler EXCEPT ![th] = Idle]
        BY <1>6 DEF DoRevokeLeases, Ends
    <2>2. TokensOK' /\ UNCHANGED issued
        BY <1>0, <2>1, SameTokens
    <2>3. LeasesOK'
        BY <1>0, <1>6, <2>2, RevokeLeasesType DEF DoRevokeLeases, RevokeByToken
    <2>4. handler[th] # Idle /\ handler[th].revoking \in TokenIds
        BY <1>0, <1>6, ActingHandler DEF DoRevokeLeases
    <2>5. targeted' \subseteq TokenIds
        BY <1>0, <1>6, <2>4 DEF DoRevokeLeases, HandlersOK
    <2>6. HandlersOK'
        BY <1>0, <2>1, <2>2, <2>5, HandlerStep
    <2> QED BY <1>0, <2>1, <2>2, <2>3, <2>6
<1>7. ASSUME NEW th \in Threads, DoRead(th)
      PROVE  Goal
    <2>1. /\ UNCHANGED tokenVars /\ UNCHANGED now /\ UNCHANGED targeted
          /\ handler' = [handler EXCEPT ![th] = Idle]
        BY <1>7 DEF DoRead, Ends
    <2>2. TokensOK' /\ UNCHANGED issued
        BY <1>0, <2>1, SameTokens
    <2>3. handler[th].token \in TokenIds
        BY <1>0, <1>7, ActingHandler DEF DoRead, Acting
    <2>4. PICK path \in Paths : CreateLease(path, handler[th].token, None)
        BY <1>7 DEF DoRead
    <2>5. LeasesOK'
        BY <1>0, <2>2, <2>3, <2>4, CreateLeaseType
    <2>6. HandlersOK'
        BY <1>0, <2>1, <2>2, HandlerStep DEF HandlersOK
    <2> QED BY <1>0, <2>1, <2>2, <2>5, <2>6
<1>8. ASSUME NEW th \in Threads, DoLease(th)
      PROVE  Goal
    <2>1. /\ UNCHANGED tokenVars /\ UNCHANGED now /\ UNCHANGED targeted
          /\ handler' = [handler EXCEPT ![th] = Idle]
        BY <1>8 DEF DoLease, Ends
    <2>2. TokensOK' /\ UNCHANGED issued
        BY <1>0, <2>1, SameTokens
    <2>3. (\E l \in DOMAIN leases, ttl \in LeaseTTLs : RenewLease(l, ttl)) => LeasesOK'
        BY <1>0, <2>2, RenewLeaseType
    <2>4. (\E l \in DOMAIN leases : RevokeLease(l)) => LeasesOK'
        BY <1>0, <2>2, RevokeLeasesType DEF RevokeLease
    <2>5. LeasesOK'
        BY <1>8, <2>3, <2>4 DEF DoLease
    <2>6. HandlersOK'
        BY <1>0, <2>1, <2>2, HandlerStep DEF HandlersOK
    <2> QED BY <1>0, <2>1, <2>2, <2>5, <2>6
<1>9. ASSUME NEW th \in Threads, DoCreateApprole(th)
      PROVE  Goal
    <2>1. /\ UNCHANGED <<leaseVars, targeted>> /\ UNCHANGED now
          /\ handler' = [handler EXCEPT ![th] = Idle]
        BY <1>9 DEF DoCreateApprole, Ends
    <2>2. PICK ttl \in TokenTTLs : CreateApprole(ttl)
        BY <1>9 DEF DoCreateApprole
    <2>3. TokensOK' /\ UNCHANGED issued
        BY <1>0, <2>2 DEF CreateApprole, TokensOK, TokenIds
    <2>4. HandlersOK'
        BY <1>0, <2>1, <2>3, HandlerStep DEF HandlersOK
    <2> QED BY <1>0, <2>1, <2>3, <2>4, MoreIds
<1>10. ASSUME Login
       PROVE  Goal
    <2>1. PICK ttl \in approles : ApproleLogin(ttl)
        BY <1>10 DEF Login
    <2>2. ttl \in Nat \cup {None}
        BY <1>0 DEF TokensOK
    <2>3. TokensOK' /\ issued' = issued + 1
        BY <1>0, <2>1, <2>2, IssueType DEF ApproleLogin
    <2>4. UNCHANGED <<leaseVars, handler, targeted>> /\ UNCHANGED now
        BY <1>10 DEF Login
    <2> QED BY <1>0, <2>3, <2>4, MoreIds
<1>11. ASSUME KeepHouse
       PROVE  Goal
    <2>1. UNCHANGED <<handler, targeted>> /\ UNCHANGED now
        BY <1>11 DEF KeepHouse
    <2>2. CASE /\ \/ CleanupExpiredTokens
                  \/ \E t \in DOMAIN tokens, ttl \in TokenTTLs \ {None} : RenewToken(t, ttl)
               /\ UNCHANGED leaseVars
        <3>1. TokensOK' /\ UNCHANGED issued
            BY <1>0, <2>2, HousekeepingType
        <3> QED BY <1>0, <2>1, <2>2, <3>1, MoreIds
    <2>3. CASE /\ CleanupExpiredLeases \/ \E path \in Paths : RevokeByPath(path)
               /\ UNCHANGED tokenVars
        <3>1. TokensOK' /\ UNCHANGED issued
            BY <1>0, <2>3, SameTokens
        <3>2. LeasesOK'
            BY <1>0, <2>3, <3>1, CleanupLeasesType, RevokeLeasesType DEF RevokeByPath
        <3> QED BY <1>0, <2>1, <3>1, <3>2, MoreIds
    <2> QED BY <1>11, <2>2, <2>3 DEF KeepHouse
<1>12. ASSUME TimePasses
       PROVE  Goal
    <2>1. /\ UNCHANGED tokenVars /\ UNCHANGED <<leaseVars, handler, targeted>>
          /\ now' \in Nat
        BY <1>0, <1>12 DEF TimePasses, Tick
    <2>2. TokensOK' /\ UNCHANGED issued
        BY <1>0, <2>1, SameTokens
    <2> QED BY <1>0, <2>1, <2>2, MoreIds
<1>13. ASSUME UNCHANGED vars
       PROVE  Goal
    <2>1. UNCHANGED tokenVars /\ UNCHANGED <<leaseVars, handler, targeted>> /\ UNCHANGED now
        BY <1>13 DEF vars
    <2>2. TokensOK' /\ UNCHANGED issued
        BY <1>0, <2>1, SameTokens
    <2> QED BY <1>0, <2>1, <2>2, MoreIds
<1>14. Goal => TypeOK'
    BY DEF TypeOK, TokensOK, LeasesOK, HandlersOK
<1> HIDE DEF Goal
<1> QED BY <1>1, <1>2, <1>3, <1>4, <1>5, <1>6, <1>7, <1>8, <1>9, <1>10, <1>11, <1>12, <1>13,
           <1>14 DEF Next

(* Types, whatever the flags: for overlapping requests and with housekeeping too. *)
THEOREM TypeInvariant == Spec => []TypeOK
BY TypeInit, TypeNext, PTL DEF Spec

-----------------------------------------------------------------------------
(***************************************************************************)
(* The cascade, when requests do not overlap.  A child can be given to a   *)
(* revoked parent only by a request that was admitted before the           *)
(* revocation and creates after it; with one request at a time there is    *)
(* none, so below a revoked token every token is revoked.  The walk of     *)
(* revoke_token skips what is already revoked, and loses nothing by it     *)
(* because of that very invariant.                                         *)
(***************************************************************************)
Tree ==
    /\ DOMAIN tokens = TokenIds
    /\ \A t \in TokenIds :
         lineage[t] = {t} \cup (IF tokens[t].parent = None THEN {} ELSE lineage[tokens[t].parent])
    /\ everRevoked = {t \in TokenIds : tokens[t].revoked}
    /\ CascadeRevocation

OneRequest == \A a, b \in Threads : handler[a] # Idle /\ handler[b] # Idle => a = b

Admitted ==
    \A th \in Threads : handler[th] # Idle =>
        IF handler[th].revoking = None
        THEN ~tokens[handler[th].token].revoked
        ELSE tokens[handler[th].revoking].revoked

TargetsDone ==
    /\ \A t \in targeted : tokens[t].revoked
    /\ RevokedHoldsNoLease

SerialInv == TypeOK /\ Tree /\ OneRequest /\ Admitted /\ TargetsDone

LEMMA LeastElement ==
    ASSUME NEW T, T \subseteq Nat, T # {}
    PROVE  \E x \in T : \A y \in T : ~(y < x)
<1>1. IsWellFoundedOn(OpToRel(<, Nat), Nat)
    BY NatLessThanWellFounded, Zenon
<1>2. PICK x \in T : \A y \in T : ~(<<y, x>> \in OpToRel(<, Nat))
    BY <1>1, WFMin, Zenon
<1>3. \A y \in T : y < x => <<y, x>> \in OpToRel(<, Nat)
    BY DEF OpToRel
<1> QED BY <1>2, <1>3, Zenon

(* Everything below a token the walk reaches is reached, or was revoked. *)
LEMMA WalkReachesBelow ==
    ASSUME TypeOK, Tree, NEW target, NEW t \in TokenIds, NEW a \in lineage[t] \cap Reached(target)
    PROVE  tokens[t].revoked \/ t \in Reached(target)
<1> DEFINE Missed == {x \in TokenIds : /\ lineage[x] \cap Reached(target) # {}
                                       /\ ~tokens[x].revoked
                                       /\ x \notin Reached(target)}
<1>1. SUFFICES ASSUME Missed # {}
               PROVE  FALSE
    OBVIOUS
<1>2. Missed \subseteq Nat
    BY DEF TokenIds
<1> HIDE DEF Missed
<1>3. PICK x \in Missed : \A y \in Missed : ~(y < x)
    BY <1>1, <1>2, LeastElement
<1>4. /\ x \in TokenIds /\ ~tokens[x].revoked /\ x \notin Reached(target)
      /\ lineage[x] \cap Reached(target) # {}
    BY <1>3 DEF Missed
<1>5. PICK b \in lineage[x] : b \in Reached(target)
    BY <1>4
<1> DEFINE p == tokens[x].parent
<1>6. /\ lineage[x] = {x} \cup (IF p = None THEN {} ELSE lineage[p])
      /\ x \in DOMAIN tokens
    BY <1>4 DEF Tree
<1>7. p # None /\ b \in lineage[p]
    BY <1>4, <1>5, <1>6
<1>8. p \in 1 .. (x - 1) /\ x \in TokenIds
    BY <1>4, <1>6, <1>7 DEF TypeOK
<1>9. p \in TokenIds /\ p < x /\ p \in DOMAIN tokens
    BY <1>8 DEF TokenIds, TypeOK, Tree
<1>10. p \notin Missed
    BY <1>3, <1>9
<1>11. CASE tokens[p].revoked
    <2>1. p \in everRevoked
        BY <1>9, <1>11 DEF Tree
    <2>2. p \in lineage[p]
        BY <1>9 DEF Tree
    <2>3. p \in lineage[x]
        BY <1>6, <1>7, <2>2
    <2> QED BY <1>4, <1>6, <2>1, <2>3 DEF Tree, CascadeRevocation
<1>12. CASE p \in Reached(target)
    <2>1. LiveChild(p, x)
        BY <1>4 DEF LiveChild
    <2> QED BY <1>4, <1>6, <1>9, <1>12, <2>1 DEF Reached
<1> QED BY <1>5, <1>7, <1>9, <1>10, <1>11, <1>12 DEF Missed

LEMMA RevokeKeepsTree ==
    ASSUME TypeOK, Tree, NEW target \in TokenIds, RevokeToken(target)
    PROVE  /\ Tree'
           /\ tokens'[target].revoked
           /\ \A t \in TokenIds : tokens[t].revoked => tokens'[t].revoked
           /\ UNCHANGED issued
<1>1. /\ UNCHANGED <<issued, lineage>>
      /\ everRevoked' = everRevoked \cup Reached(target)
      /\ tokens' = [x \in DOMAIN tokens |->
                      [tokens[x] EXCEPT !.revoked = @ \/ x \in Reached(target)]]
    BY DEF RevokeToken
<1>2. Reached(target) \subseteq DOMAIN tokens /\ DOMAIN tokens = TokenIds /\ TokenIds' = TokenIds
    BY <1>1 DEF Reached, Tree, TokenIds
<1>3. ASSUME NEW t \in TokenIds
      PROVE  /\ tokens'[t].revoked <=> tokens[t].revoked \/ t \in Reached(target)
             /\ tokens'[t].parent = tokens[t].parent
    <2>1. tokens[t] \in TokenRecord
        BY <1>2 DEF TypeOK
    <2>2. tokens'[t] = [tokens[t] EXCEPT !.revoked = tokens[t].revoked \/ t \in Reached(target)]
        BY <1>1, <1>2
    <2> QED BY <2>1, <2>2 DEF TokenRecord
<1>4. DOMAIN tokens' = TokenIds'
    BY <1>1, <1>2
<1>5. everRevoked' = {t \in TokenIds' : tokens'[t].revoked}
    BY <1>1, <1>2, <1>3 DEF Tree
<1>6. ASSUME NEW t \in TokenIds, lineage[t] \cap (everRevoked \cup Reached(target)) # {}
      PROVE  tokens'[t].revoked
    <2>1. CASE lineage[t] \cap everRevoked # {}
        BY <1>2, <1>3, <2>1 DEF Tree, CascadeRevocation
    <2>2. CASE lineage[t] \cap Reached(target) # {}
        BY <1>3, <2>2, WalkReachesBelow
    <2> QED BY <1>6, <2>1, <2>2
<1>7. CascadeRevocation'
    BY <1>1, <1>2, <1>4, <1>6 DEF CascadeRevocation
<1>8. \A t \in TokenIds' :
        lineage'[t] = {t} \cup (IF tokens'[t].parent = None THEN {} ELSE lineage'[tokens'[t].parent])
    BY <1>1, <1>2, <1>3 DEF Tree
<1>9. tokens[target].revoked \/ target \in Reached(target)
    BY <1>2 DEF Reached
<1> QED BY <1>1, <1>3, <1>4, <1>5, <1>7, <1>8, <1>9 DEF Tree

LEMMA IssueKeepsTree ==
    ASSUME TypeOK, Tree, NEW parent \in TokenIds \cup {None},
           parent # None => ~tokens[parent].revoked,
           NEW ttl, NEW uses, NEW renewable, NEW root,
           Issue(parent, ttl, uses, renewable, root)
    PROVE  /\ Tree'
           /\ \A t \in TokenIds : t \in TokenIds' /\ tokens'[t] = tokens[t]
<1> DEFINE n == issued + 1
           new == [parent |-> parent, expiresAt |-> ExpiresAt(ttl), renewable |-> renewable,
                   maxUses |-> uses, useCount |-> 0, revoked |-> FALSE, isRoot |-> root]
           line == {n} \cup (IF parent = None THEN {} ELSE lineage[parent])
<1>1. /\ issued' = n
      /\ tokens' = Put(tokens, n, new)
      /\ lineage' = Put(lineage, n, line)
      /\ everRevoked' = everRevoked
    BY DEF Issue
<1>2. new.parent = parent /\ new.revoked = FALSE
    OBVIOUS
<1> HIDE DEF new
<1>3. /\ TokenIds' = TokenIds \cup {n} /\ n \notin TokenIds
      /\ DOMAIN tokens = TokenIds /\ DOMAIN lineage = TokenIds
    BY <1>1 DEF TokenIds, TypeOK, Tree
<1>4. /\ DOMAIN tokens' = TokenIds'
      /\ tokens'[n] = new
      /\ \A t \in TokenIds : tokens'[t] = tokens[t]
    BY <1>1, <1>3 DEF Put
<1>5. /\ lineage'[n] = line
      /\ \A t \in TokenIds : lineage'[t] = lineage[t]
    BY <1>1, <1>3 DEF Put
<1>6. everRevoked' = {t \in TokenIds' : tokens'[t].revoked}
    BY <1>1, <1>2, <1>3, <1>4 DEF Tree
<1>7. ASSUME NEW t \in TokenIds
      PROVE  lineage'[t] = {t} \cup (IF tokens'[t].parent = None THEN {} ELSE lineage'[tokens'[t].parent])
    <2>1. tokens[t].parent # None => tokens[t].parent \in 1 .. (t - 1)
        BY <1>3 DEF TypeOK
    <2>2. tokens[t].parent # None => tokens[t].parent \in TokenIds
        BY <2>1 DEF TokenIds, TypeOK
    <2> QED BY <1>4, <1>5, <2>2 DEF Tree
<1>8. lineage'[n] = {n} \cup (IF tokens'[n].parent = None THEN {} ELSE lineage'[tokens'[n].parent])
    BY <1>2, <1>4, <1>5
<1>9. ASSUME NEW t \in TokenIds', lineage'[t] \cap everRevoked # {}
      PROVE  tokens'[t].revoked
    <2>1. CASE t \in TokenIds
        BY <1>3, <1>4, <1>5, <1>9, <2>1 DEF Tree, CascadeRevocation
    <2>2. CASE t = n
        <3>1. n \notin everRevoked
            BY <1>3 DEF TypeOK
        <3>2. parent # None /\ lineage[parent] \cap everRevoked # {}
            BY <1>5, <1>9, <2>2, <3>1
        <3> QED BY <1>3, <3>2 DEF Tree, CascadeRevocation
    <2> QED BY <1>3, <2>1, <2>2
<1>10. CascadeRevocation'
    BY <1>1, <1>4, <1>9 DEF CascadeRevocation
<1> QED BY <1>3, <1>4, <1>6, <1>7, <1>8, <1>10 DEF Tree

LEMMA SerialInit == Init => SerialInv
<1> SUFFICES ASSUME Init
             PROVE  SerialInv
    OBVIOUS
<1>1. TokenIds = {} /\ tokens = << >> /\ leases = << >> /\ everRevoked = {} /\ targeted = {}
    BY DEF Init, TokensInit, LeasesInit, TokenIds
<1>2. Tree
    BY <1>1 DEF Tree, CascadeRevocation
<1>3. \A th \in Threads : handler[th] = Idle
    BY DEF Init
<1>4. OneRequest /\ Admitted
    BY <1>3 DEF OneRequest, Admitted
<1>5. TargetsDone
    BY <1>1 DEF TargetsDone, RevokedHoldsNoLease
<1> QED BY <1>2, <1>4, <1>5, TypeInit DEF SerialInv

(* Steps that keep the tokens that have been issued as they are, revoked or not. *)
LEMMA KeepsRevocations ==
    ASSUME SerialInv,
           \A t \in TokenIds : t \in TokenIds' /\ (tokens[t].revoked <=> tokens'[t].revoked)
    PROVE  /\ \A th \in Threads :
                 handler'[th] \in {Idle, handler[th]} /\ handler[th] # Idle /\ handler'[th] # Idle =>
                    IF handler'[th].revoking = None
                    THEN ~tokens'[handler'[th].token].revoked
                    ELSE tokens'[handler'[th].revoking].revoked
           /\ UNCHANGED <<targeted, leases>> => TargetsDone'
<1>1. ASSUME NEW th \in Threads, handler[th] # Idle
      PROVE  /\ handler[th].token \in TokenIds
             /\ handler[th].revoking # None => handler[th].revoking \in TokenIds
    BY <1>1 DEF SerialInv, TypeOK
<1>2. targeted \subseteq TokenIds
    BY DEF SerialInv, TypeOK
<1> QED BY <1>1, <1>2 DEF SerialInv, Admitted, TargetsDone, RevokedHoldsNoLease

LEMMA SerialNext ==
    ASSUME ~Concurrent, ~Housekeeping
    PROVE  SerialInv /\ [Next]_vars => SerialInv'
<1> SUFFICES ASSUME SerialInv, [Next]_vars
             PROVE  SerialInv'
    OBVIOUS
<1>0. TypeOK' /\ TypeOK /\ Tree /\ OneRequest /\ Admitted /\ TargetsDone
    BY TypeNext DEF SerialInv
<1> DEFINE Goal == Tree' /\ OneRequest' /\ Admitted' /\ TargetsDone'
<1>1. ASSUME UNCHANGED <<tokens, issued, lineage, everRevoked>>
      PROVE  /\ Tree'
             /\ \A t \in TokenIds : t \in TokenIds' /\ (tokens[t].revoked <=> tokens'[t].revoked)
    BY <1>0, <1>1 DEF Tree, CascadeRevocation, TokenIds
(* A request that ends. *)
<1>2. ASSUME NEW th \in Threads, Ends(th),
             \A t \in TokenIds : t \in TokenIds' /\ (tokens[t].revoked <=> tokens'[t].revoked)
      PROVE  OneRequest' /\ Admitted'
    <2>1. /\ handler' \in [Threads -> {Idle} \cup [token : TokenIds', revoking : TokenIds' \cup {None}]]
          /\ \A x \in Threads : handler'[x] \in {Idle, handler[x]}
          /\ \A x \in Threads : handler'[x] # Idle => handler[x] # Idle
        BY <1>0, <1>2 DEF Ends, TypeOK
    <2> QED BY <1>0, <1>2, <2>1, KeepsRevocations DEF OneRequest, Admitted
<1>3. ASSUME Initialize
      PROVE  Goal
    <2>1. Issue(None, None, 0, FALSE, TRUE) /\ UNCHANGED <<leaseVars, handler, targeted>>
        BY <1>3 DEF Initialize, CreateRootToken
    <2>2. Tree' /\ \A t \in TokenIds : t \in TokenIds' /\ tokens'[t] = tokens[t]
        BY <1>0, <2>1, IssueKeepsTree
    <2>3. OneRequest'
        BY <1>0, <2>1 DEF OneRequest
    <2>4. Admitted' /\ TargetsDone'
        BY <2>1, <2>2, KeepsRevocations DEF Admitted, leaseVars
    <2> QED BY <2>2, <2>3, <2>4
<1>4. ASSUME NEW th \in Threads, NEW t \in TokenIds, Authenticate(th, t)
      PROVE  Goal
    <2>1. /\ \A x \in Threads : handler[x] = Idle
          /\ handler' = [handler EXCEPT ![th] = [token |-> t, revoking |-> None]]
          /\ UNCHANGED <<leaseVars, targeted>>
          /\ ValidateToken(t)
        BY <1>4 DEF Authenticate, Free
    <2>2. /\ UNCHANGED <<issued, lineage, everRevoked>>
          /\ ~tokens[t].revoked /\ t \in DOMAIN tokens
          /\ DOMAIN tokens' = DOMAIN tokens
        BY <2>1 DEF ValidateToken, Valid
    <2>3. \A x \in TokenIds : tokens'[x].revoked = tokens[x].revoked /\ tokens'[x].parent = tokens[x].parent
        <3>1. \A x \in TokenIds : x \in DOMAIN tokens /\ tokens[x] \in TokenRecord
            BY <1>0 DEF Tree, TypeOK
        <3>2. PICK n : tokens' = [tokens EXCEPT ![t].useCount = n]
            BY <2>1 DEF ValidateToken
        <3> QED BY <3>1, <3>2 DEF TokenRecord
    <2>4. TokenIds' = TokenIds
        BY <2>2 DEF TokenIds
    <2>5. Tree'
        BY <1>0, <2>2, <2>3, <2>4 DEF Tree, CascadeRevocation
    <2>6. /\ handler'[th] = [token |-> t, revoking |-> None]
          /\ \A x \in Threads : x # th => handler'[x] = Idle
        BY <1>0, <2>1 DEF TypeOK
    <2>7. OneRequest' /\ Admitted'
        BY <2>2, <2>3, <2>6 DEF OneRequest, Admitted
    <2>8. TargetsDone'
        BY <2>1, <2>3, <2>4, KeepsRevocations DEF leaseVars
    <2> QED BY <2>5, <2>7, <2>8
<1>5. ASSUME NEW th \in Threads, Return(th)
      PROVE  Goal
    <2>1. UNCHANGED <<tokens, issued, lineage, everRevoked>> /\ UNCHANGED <<leases, targeted>> /\ Ends(th)
        BY <1>5 DEF Return, tokenVars, leaseVars
    <2> QED BY <1>1, <1>2, <2>1, KeepsRevocations
<1>6. ASSUME NEW th \in Threads, DoCreateToken(th)
      PROVE  Goal
    <2>1. PICK ttl \in TokenTTLs, uses \in UseLimits, renewable \in BOOLEAN :
            Issue(handler[th].token, ttl, uses, renewable, FALSE)
        BY <1>6 DEF DoCreateToken, CreateToken
    <2>2. handler[th].token \in TokenIds /\ ~tokens[handler[th].token].revoked
        BY <1>0, <1>6 DEF DoCreateToken, Acting, Admitted, TypeOK
    <2>3. Tree' /\ \A t \in TokenIds : t \in TokenIds' /\ tokens'[t] = tokens[t]
        BY <1>0, <2>1, <2>2, IssueKeepsTree
    <2>4. UNCHANGED <<leases, targeted>> /\ Ends(th)
        BY <1>6 DEF DoCreateToken, leaseVars
    <2> QED BY <1>2, <2>3, <2>4, KeepsRevocations
<1>7. ASSUME NEW th \in Threads, DoRevokeToken(th)
      PROVE  Goal
    <2>1. PICK target \in TokenIds :
            /\ RevokeToken(target)
            /\ handler' = [handler EXCEPT ![th].revoking = target]
        BY <1>7 DEF DoRevokeToken
    <2>2. /\ Tree'
          /\ tokens'[target].revoked
          /\ \A t \in TokenIds : tokens[t].revoked => tokens'[t].revoked
          /\ UNCHANGED issued
        BY <1>0, <2>1, RevokeKeepsTree
    <2>3. handler[th] # Idle /\ UNCHANGED <<leases, targeted>>
        BY <1>7 DEF DoRevokeToken, Acting, leaseVars
    <2>4. \A x \in Threads : x # th => handler[x] = Idle
        BY <1>0, <2>3 DEF OneRequest
    <2>5. /\ handler[th] \in [token : TokenIds, revoking : TokenIds \cup {None}]
          /\ handler'[th].revoking = target
          /\ \A x \in Threads : x # th => handler'[x] = Idle
        BY <1>0, <2>1, <2>3, <2>4 DEF TypeOK
    <2>6. target # None
        BY DEF TokenIds
    <2>7. OneRequest' /\ Admitted'
        BY <2>2, <2>5, <2>6 DEF OneRequest, Admitted
    <2>8. TargetsDone'
        BY <1>0, <2>2, <2>3 DEF TargetsDone, RevokedHoldsNoLease, TypeOK
    <2> QED BY <2>2, <2>7, <2>8
<1>8. ASSUME NEW th \in Threads, DoRevokeLeases(th)
      PROVE  Goal
    <2> DEFINE target == handler[th].revoking
    <2>1. /\ UNCHANGED <<tokens, issued, lineage, everRevoked>>
          /\ Ends(th)
          /\ targeted' = targeted \cup {target}
          /\ leases' = [l \in DOMAIN leases |->
                [leases[l] EXCEPT !.revoked = @ \/ l \in {k \in DOMAIN leases : leases[k].token = target}]]
        BY <1>8 DEF DoRevokeLeases, RevokeByToken, RevokeLeases, tokenVars
    <2>2. tokens[target].revoked
        BY <1>0, <1>8 DEF DoRevokeLeases, Admitted
    <2>3. ASSUME NEW l \in DOMAIN leases, leases'[l].token \in targeted'
          PROVE  leases'[l].revoked
        <3>1. leases[l] \in LeaseRecord
            BY <1>0 DEF TypeOK
        <3>2. leases'[l] = [leases[l] EXCEPT !.revoked = leases[l].revoked \/ leases[l].token = target]
            BY <2>1
        <3>3. /\ leases'[l].token = leases[l].token
              /\ leases'[l].revoked <=> leases[l].revoked \/ leases[l].token = target
            BY <3>1, <3>2 DEF LeaseRecord
        <3> QED BY <1>0, <2>1, <2>3, <3>3 DEF TargetsDone, RevokedHoldsNoLease
    <2>4. DOMAIN leases' = DOMAIN leases
        BY <2>1
    <2>5. TargetsDone'
        BY <1>0, <2>1, <2>2, <2>3, <2>4 DEF TargetsDone, RevokedHoldsNoLease
    <2> QED BY <1>1, <1>2, <2>1, <2>5
<1>9. ASSUME NEW th \in Threads, DoRead(th)
      PROVE  Goal
    <2>1. /\ UNCHANGED <<tokens, issued, lineage, everRevoked>>
          /\ UNCHANGED targeted
          /\ Ends(th)
        BY <1>9 DEF DoRead, tokenVars
    <2>2. PICK path \in Paths : CreateLease(path, handler[th].token, None)
        BY <1>9 DEF DoRead
    <2>3. handler[th].token \notin targeted
        BY <1>0, <1>9 DEF DoRead, Acting, Admitted, TargetsDone
    <2> DEFINE new == [path |-> path, token |-> handler[th].token, ttl |-> Granted(None, DefaultTTL),
                       expiresAt |-> now + Granted(None, DefaultTTL), revoked |-> FALSE]
    <2>4. leases' = [l \in DOMAIN leases \cup {leasesIssued'} |->
                       IF l = leasesIssued' THEN new ELSE leases[l]]
        BY <2>2 DEF CreateLease, Put
    <2>5. new.token = handler[th].token
        OBVIOUS
    <2> HIDE DEF new
    <2>6. TargetsDone'
        BY <1>0, <2>1, <2>3, <2>4, <2>5 DEF TargetsDone, RevokedHoldsNoLease
    <2> QED BY <1>1, <1>2, <2>1, <2>6
<1>10. ASSUME NEW th \in Threads, DoLease(th)
       PROVE  Goal
    <2>1. /\ UNCHANGED <<tokens, issued, lineage, everRevoked>>
          /\ UNCHANGED targeted
          /\ Ends(th)
        BY <1>10 DEF DoLease, tokenVars
    <2>2. /\ DOMAIN leases' = DOMAIN leases
          /\ \A l \in DOMAIN leases :
               leases'[l].token = leases[l].token /\ (leases[l].revoked => leases'[l].revoked)
        <3>1. \A l \in DOMAIN leases : leases[l] \in LeaseRecord
            BY <1>0 DEF TypeOK
        <3>2. ASSUME NEW k \in DOMAIN leases, NEW ttl \in LeaseTTLs, RenewLease(k, ttl)
              PROVE  <2>2!1 /\ <2>2!2
            <4>1. PICK g, e : leases' = [leases EXCEPT ![k].ttl = g, ![k].expiresAt = e]
                BY <3>2 DEF RenewLease
            <4> QED BY <3>1, <4>1 DEF LeaseRecord
        <3>3. ASSUME NEW k \in DOMAIN leases, RevokeLease(k)
              PROVE  <2>2!1 /\ <2>2!2
            <4>1. leases' = [l \in DOMAIN leases |-> [leases[l] EXCEPT !.revoked = leases[l].revoked \/ l \in {k}]]
                BY <3>3 DEF RevokeLease, RevokeLeases
            <4> QED BY <3>1, <4>1 DEF LeaseRecord
        <3> QED BY <1>10, <3>2, <3>3 DEF DoLease
    <2>3. TargetsDone'
        BY <1>0, <2>1, <2>2 DEF TargetsDone, RevokedHoldsNoLease
    <2> QED BY <1>1, <1>2, <2>1, <2>3
<1>11. ASSUME NEW th \in Threads, DoCreateApprole(th)
       PROVE  Goal
    <2>1. UNCHANGED <<tokens, issued, lineage, everRevoked>> /\ UNCHANGED <<leases, targeted>> /\ Ends(th)
        BY <1>11 DEF DoCreateApprole, CreateApprole, leaseVars
    <2> QED BY <1>1, <1>2, <2>1, KeepsRevocations
<1>12. ASSUME Login
       PROVE  Goal
    <2>1. PICK ttl \in approles : Issue(None, ttl, 0, TRUE, FALSE)
        BY <1>12 DEF Login, ApproleLogin
    <2>2. Tree' /\ \A t \in TokenIds : t \in TokenIds' /\ tokens'[t] = tokens[t]
        BY <1>0, <2>1, IssueKeepsTree
    <2>3. UNCHANGED <<leases, handler, targeted>>
        BY <1>12 DEF Login, leaseVars
    <2>4. OneRequest'
        BY <1>0, <2>3 DEF OneRequest
    <2>5. Admitted' /\ TargetsDone'
        BY <2>2, <2>3, KeepsRevocations DEF Admitted
    <2> QED BY <2>2, <2>4, <2>5
<1>13. ASSUME TimePasses \/ UNCHANGED vars
       PROVE  Goal
    <2>1. UNCHANGED <<tokens, issued, lineage, everRevoked>> /\ UNCHANGED <<leases, handler, targeted>>
        BY <1>13 DEF TimePasses, vars, tokenVars, leaseVars
    <2>2. OneRequest'
        BY <1>0, <2>1 DEF OneRequest
    <2>3. Tree' /\ Admitted' /\ TargetsDone'
        BY <1>1, <2>1, KeepsRevocations DEF Admitted
    <2> QED BY <2>2, <2>3
<1>14. ~KeepHouse
    BY DEF KeepHouse
<1> HIDE DEF Goal
<1>15. Goal
    BY <1>3, <1>4, <1>5, <1>6, <1>7, <1>8, <1>9, <1>10, <1>11, <1>12, <1>13, <1>14 DEF Next
<1> QED BY <1>0, <1>15 DEF Goal, SerialInv

(* With one request at a time, revoking a token revokes its whole subtree,
   for ever, and leaves the revoked token no lease that is not revoked. *)
THEOREM SerialRevocation ==
    ASSUME ~Concurrent, ~Housekeeping
    PROVE  Spec => [](CascadeRevocation /\ RevokedHoldsNoLease)
<1>1. SerialInv /\ [Next]_vars => SerialInv'
    BY SerialNext
<1>2. SerialInv => CascadeRevocation /\ RevokedHoldsNoLease
    BY DEF SerialInv, Tree, TargetsDone
<1> QED BY <1>1, <1>2, SerialInit, PTL DEF Spec

(* Once revoke_token has returned, its target has no lease that is not revoked. *)
THEOREM SerialLeases ==
    ASSUME ~Concurrent, ~Housekeeping
    PROVE  Spec => []RevokedHoldsNoLease
BY SerialRevocation, PTL

(* With one request at a time nobody is admitted with a token after it, or any
   token it descends from, was revoked: validate_token looks only at the flag of
   the token itself, and the cascade has set it. *)
THEOREM SerialAdmission ==
    ASSUME ~Concurrent, ~Housekeeping
    PROVE  Spec => NoRequestAfterRevocation
<1> DEFINE Clean == \A th \in Threads :
                      handler[th] = Idle /\ handler'[th] # Idle =>
                        lineage[handler'[th].token] \cap everRevoked = {}
<1>1. SerialInv /\ [Next]_vars => Clean
    <2> SUFFICES ASSUME SerialInv, [Next]_vars,
                        NEW th \in Threads, handler[th] = Idle, handler'[th] # Idle
                 PROVE  lineage[handler'[th].token] \cap everRevoked = {}
        OBVIOUS
    <2>1. handler \in [Threads -> {Idle} \cup [token : TokenIds, revoking : TokenIds \cup {None}]]
        BY DEF SerialInv, TypeOK
    <2>2. PICK x \in Threads, t \in TokenIds : Authenticate(x, t)
        <3>1. \A x \in Threads : ~(Return(x) \/ DoCreateToken(x) \/ DoRevokeLeases(x) \/ DoRead(x)
                                     \/ DoLease(x) \/ DoCreateApprole(x))
            BY <2>1 DEF Return, DoCreateToken, DoRevokeLeases, DoRead, DoLease, DoCreateApprole, Ends
        <3>2. \A x \in Threads : ~DoRevokeToken(x)
            BY <2>1 DEF DoRevokeToken, Acting
        <3>3. ~(Initialize \/ Login \/ KeepHouse \/ TimePasses \/ UNCHANGED vars)
            BY DEF Initialize, Login, KeepHouse, TimePasses, vars
        <3> QED BY <3>1, <3>2, <3>3 DEF Next
    <2>3. handler' = [handler EXCEPT ![x] = [token |-> t, revoking |-> None]]
        BY <2>2 DEF Authenticate
    <2>4. x = th /\ handler'[th].token = t
        BY <2>1, <2>3
    <2>5. t \in DOMAIN tokens /\ ~tokens[t].revoked
        BY <2>2 DEF Authenticate, ValidateToken, Valid
    <2> QED BY <2>4, <2>5 DEF SerialInv, Tree, CascadeRevocation
<1>2. SerialInv /\ [Next]_vars => SerialInv'
    BY SerialNext
<1> QED BY <1>1, <1>2, SerialInit, PTL DEF Spec, NoRequestAfterRevocation

-----------------------------------------------------------------------------
(***************************************************************************)
(* What holds whatever the flags: requests that overlap in any way, and    *)
(* the housekeeping methods at any moment.  A step of Next makes at most   *)
(* one call of TokenManager and at most one of LeaseManager.               *)
(***************************************************************************)
SameTokenTable == UNCHANGED <<tokens, issued, everRevoked>>

IssueStep ==
    \E parent, ttl, uses, renewable, root : Issue(parent, ttl, uses, renewable, root)

LEMMA TokenSteps ==
    ASSUME [Next]_vars
    PROVE  \/ SameTokenTable
           \/ IssueStep
           \/ \E t : ValidateToken(t)
           \/ \E t : RevokeToken(t)
           \/ \E t, ttl : RenewToken(t, ttl)
           \/ CleanupExpiredTokens
<1> DEFINE Goal == \/ SameTokenTable
                   \/ IssueStep
                   \/ \E t : ValidateToken(t)
                   \/ \E t : RevokeToken(t)
                   \/ \E t, ttl : RenewToken(t, ttl)
                   \/ CleanupExpiredTokens
<1>1. ASSUME UNCHANGED tokenVars  PROVE Goal
    BY <1>1 DEF tokenVars, SameTokenTable
<1>2. Initialize => Goal
    BY Zenon DEF Initialize, CreateRootToken, IssueStep
<1>3. Login => Goal
    BY Zenon DEF Login, ApproleLogin, IssueStep
<1>4. KeepHouse => Goal
    BY <1>1 DEF KeepHouse
<1>5. TimePasses \/ UNCHANGED vars => Goal
    BY <1>1 DEF TimePasses, vars
<1>6. ASSUME NEW th \in Threads
      PROVE  /\ (\E t \in TokenIds : Authenticate(th, t)) => Goal
             /\ Return(th) \/ DoRevokeLeases(th) \/ DoRead(th) \/ DoLease(th) => Goal
             /\ DoCreateToken(th) => Goal
             /\ DoRevokeToken(th) => Goal
             /\ DoCreateApprole(th) => Goal
    <2>1. (\E t \in TokenIds : Authenticate(th, t)) => Goal
        BY Zenon DEF Authenticate
    <2>2. Return(th) \/ DoRevokeLeases(th) \/ DoRead(th) \/ DoLease(th) => Goal
        BY <1>1 DEF Return, DoRevokeLeases, DoRead, DoLease
    <2>3. DoCreateToken(th) => Goal
        BY Zenon DEF DoCreateToken, CreateToken, IssueStep
    <2>4. DoRevokeToken(th) => Goal
        BY Zenon DEF DoRevokeToken
    <2>5. DoCreateApprole(th) => Goal
        BY DEF DoCreateApprole, CreateApprole, SameTokenTable
    <2> QED BY <2>1, <2>2, <2>3, <2>4, <2>5
<1> HIDE DEF Goal
<1>7. Goal
    BY <1>2, <1>3, <1>4, <1>5, <1>6 DEF Next
<1> QED BY <1>7 DEF Goal

(* Validation changes a use count, and renewal an expiry, of one token. *)
LEMMA ValidateEffect ==
    ASSUME TypeOK, NEW t, ValidateToken(t)
    PROVE  /\ UNCHANGED <<issued, everRevoked>>
           /\ DOMAIN tokens' = DOMAIN tokens
           /\ \A x \in DOMAIN tokens :
                /\ tokens'[x].revoked = tokens[x].revoked
                /\ tokens'[x].maxUses = tokens[x].maxUses
                /\ x # t => tokens'[x].useCount = tokens[x].useCount
           /\ tokens[t].maxUses # 0 => tokens'[t].useCount <= tokens[t].maxUses
<1> DEFINE count == IF tokens[t].maxUses = 0 THEN 0 ELSE tokens[t].useCount + 1
<1>1. /\ tokens' = [tokens EXCEPT ![t].useCount = count]
      /\ t \in DOMAIN tokens /\ ~UsesExhausted(t)
      /\ UNCHANGED <<issued, everRevoked>>
    BY DEF ValidateToken, Valid
<1>2. \A x \in DOMAIN tokens : tokens[x] \in TokenRecord
    BY DEF TypeOK
<1>3. tokens[t].maxUses # 0 => count <= tokens[t].maxUses
    BY <1>1, <1>2 DEF UsesExhausted, TokenRecord
<1> HIDE DEF count
<1> QED BY <1>1, <1>2, <1>3 DEF TokenRecord

LEMMA RenewTokenEffect ==
    ASSUME TypeOK, NEW t, NEW ttl, RenewToken(t, ttl)
    PROVE  /\ UNCHANGED <<issued, everRevoked>>
           /\ DOMAIN tokens' = DOMAIN tokens
           /\ \A x \in DOMAIN tokens :
                /\ tokens'[x].revoked = tokens[x].revoked
                /\ tokens'[x].maxUses = tokens[x].maxUses
                /\ tokens'[x].useCount = tokens[x].useCount
<1> DEFINE expiry == now + ttl
<1>1. /\ tokens' = [tokens EXCEPT ![t].expiresAt = expiry]
      /\ UNCHANGED <<issued, everRevoked>>
    BY DEF RenewToken
<1>2. \A x \in DOMAIN tokens : tokens[x] \in TokenRecord
    BY DEF TypeOK
<1> HIDE DEF expiry
<1> QED BY <1>1, <1>2 DEF TokenRecord

LEMMA RevokeEffect ==
    ASSUME TypeOK, NEW t, RevokeToken(t)
    PROVE  /\ UNCHANGED issued
           /\ DOMAIN tokens' = DOMAIN tokens
           /\ everRevoked' = everRevoked \cup Reached(t)
           /\ Reached(t) \subseteq DOMAIN tokens
           /\ \A x \in DOMAIN tokens :
                /\ tokens'[x].revoked <=> tokens[x].revoked \/ x \in Reached(t)
                /\ tokens'[x].maxUses = tokens[x].maxUses
                /\ tokens'[x].useCount = tokens[x].useCount
<1>1. /\ tokens' = [x \in DOMAIN tokens |-> [tokens[x] EXCEPT !.revoked = @ \/ x \in Reached(t)]]
      /\ everRevoked' = everRevoked \cup Reached(t) /\ UNCHANGED issued
    BY DEF RevokeToken
<1>2. Reached(t) \subseteq DOMAIN tokens
    BY DEF Reached
<1>3. ASSUME NEW x \in DOMAIN tokens
      PROVE  /\ tokens'[x].revoked <=> tokens[x].revoked \/ x \in Reached(t)
             /\ tokens'[x].maxUses = tokens[x].maxUses
             /\ tokens'[x].useCount = tokens[x].useCount
    <2>1. tokens[x] \in TokenRecord
        BY DEF TypeOK
    <2>2. tokens'[x] = [tokens[x] EXCEPT !.revoked = tokens[x].revoked \/ x \in Reached(t)]
        BY <1>1
    <2> QED BY <2>1, <2>2 DEF TokenRecord
<1> QED BY <1>1, <1>2, <1>3

LEMMA IssueEffect ==
    ASSUME TypeOK, IssueStep
    PROVE  /\ issued' = issued + 1 /\ UNCHANGED everRevoked
           /\ DOMAIN tokens' = DOMAIN tokens \cup {issued'}
           /\ \A x \in DOMAIN tokens : tokens'[x] = tokens[x]
           /\ tokens'[issued'].useCount = 0 /\ ~tokens'[issued'].revoked
<1>1. PICK parent, ttl, uses, renewable, root : Issue(parent, ttl, uses, renewable, root)
    BY Zenon DEF IssueStep
<1> DEFINE new == [parent |-> parent, expiresAt |-> ExpiresAt(ttl), renewable |-> renewable,
                   maxUses |-> uses, useCount |-> 0, revoked |-> FALSE, isRoot |-> root]
<1>2. /\ issued' = issued + 1 /\ UNCHANGED everRevoked
      /\ tokens' = [x \in DOMAIN tokens \cup {issued'} |-> IF x = issued' THEN new ELSE tokens[x]]
    BY <1>1 DEF Issue, Put
<1>3. new.useCount = 0 /\ ~new.revoked
    OBVIOUS
<1> HIDE DEF new
<1>4. issued' \notin DOMAIN tokens
    BY <1>2 DEF TypeOK, TokenIds
<1> QED BY <1>2, <1>3, <1>4

LEMMA CleanupEffect ==
    ASSUME CleanupExpiredTokens
    PROVE  /\ UNCHANGED <<issued, everRevoked>>
           /\ DOMAIN tokens' \subseteq DOMAIN tokens
           /\ \A x \in DOMAIN tokens' : tokens'[x] = tokens[x]
BY DEF CleanupExpiredTokens, Restrict

(* validate_token counts a use only below max_uses, under the lock: two
   requests cannot both take the last use. *)
THEOREM UsesBounded == Spec => []UseCountBounded
<1> DEFINE Inv == TypeOK /\ UseCountBounded
<1>1. Init => Inv
    BY TypeInit DEF Init, TokensInit, UseCountBounded
<1>2. Inv /\ [Next]_vars => Inv'
    <2> SUFFICES ASSUME TypeOK, UseCountBounded, [Next]_vars
                 PROVE  UseCountBounded'
        BY TypeNext
    <2>1. CASE SameTokenTable
        BY <2>1 DEF SameTokenTable, UseCountBounded
    <2>2. CASE IssueStep
        <3>1. \A x \in DOMAIN tokens' : x \in DOMAIN tokens \/ x = issued'
            BY <2>2, IssueEffect
        <3>2. tokens'[issued'] \in TokenRecord
            BY <2>2, IssueEffect, TypeNext DEF TypeOK
        <3>3. tokens'[issued'].maxUses \in Nat
            BY <3>2 DEF TokenRecord
        <3> QED BY <2>2, <3>1, <3>3, IssueEffect DEF UseCountBounded
    <2>3. CASE \E t : ValidateToken(t)
        <3>1. PICK t : ValidateToken(t)
            BY <2>3
        <3> QED BY <3>1, ValidateEffect DEF UseCountBounded
    <2>4. CASE \E t : RevokeToken(t)
        BY <2>4, RevokeEffect DEF UseCountBounded
    <2>5. CASE \E t, ttl : RenewToken(t, ttl)
        BY <2>5, RenewTokenEffect DEF UseCountBounded
    <2>6. CASE CleanupExpiredTokens
        BY <2>6, CleanupEffect DEF UseCountBounded
    <2> QED BY <2>1, <2>2, <2>3, <2>4, <2>5, <2>6, TokenSteps
<1> QED BY <1>1, <1>2, PTL DEF Spec

(* A token that was marked stays marked for as long as it is held, and no id
   is given out twice. *)
MarkedStaysMarked == \A t \in everRevoked : t \in DOMAIN tokens => tokens[t].revoked

(* Neither renew_token nor cleanup_expired nor an overlapping request makes a
   token that was revoked acceptable again. *)
THEOREM RevocationIsFinal == Spec => []RevokedForever
<1> DEFINE Inv == TypeOK /\ MarkedStaysMarked
<1>1. Init => Inv
    BY TypeInit DEF Init, TokensInit, MarkedStaysMarked
<1>2. Inv /\ [Next]_vars => Inv'
    <2> SUFFICES ASSUME TypeOK, MarkedStaysMarked, [Next]_vars
                 PROVE  MarkedStaysMarked'
        BY TypeNext
    <2>1. CASE SameTokenTable
        BY <2>1 DEF SameTokenTable, MarkedStaysMarked
    <2>2. CASE IssueStep
        <3>1. issued' \notin everRevoked'
            BY <2>2, IssueEffect DEF TypeOK, TokenIds
        <3> QED BY <2>2, <3>1, IssueEffect DEF MarkedStaysMarked
    <2>3. CASE \E t : ValidateToken(t)
        BY <2>3, ValidateEffect DEF MarkedStaysMarked
    <2>4. CASE \E t : RevokeToken(t)
        BY <2>4, RevokeEffect DEF MarkedStaysMarked
    <2>5. CASE \E t, ttl : RenewToken(t, ttl)
        BY <2>5, RenewTokenEffect DEF MarkedStaysMarked
    <2>6. CASE CleanupExpiredTokens
        BY <2>6, CleanupEffect DEF MarkedStaysMarked
    <2> QED BY <2>1, <2>2, <2>3, <2>4, <2>5, <2>6, TokenSteps
<1>3. Inv => RevokedForever
    BY DEF MarkedStaysMarked, RevokedForever, Valid
<1> QED BY <1>1, <1>2, <1>3, PTL DEF Spec

-----------------------------------------------------------------------------
(* Leases. *)
SameLeaseTable == UNCHANGED leaseVars /\ now' \in {now, now + 1}

LEMMA LeaseSteps ==
    ASSUME TypeOK, [Next]_vars
    PROVE  \/ SameLeaseTable
           \/ UNCHANGED now /\ \E path, token : CreateLease(path, token, None)
           \/ UNCHANGED now /\ \E l \in DOMAIN leases, ttl \in Nat \cup {None} : RenewLease(l, ttl)
           \/ UNCHANGED now /\ \E L : RevokeLeases(L)
           \/ UNCHANGED now /\ CleanupExpiredLeases
<1> DEFINE Goal == \/ SameLeaseTable
                   \/ UNCHANGED now /\ \E path, token : CreateLease(path, token, None)
                   \/ UNCHANGED now /\ \E l \in DOMAIN leases, ttl \in Nat \cup {None} : RenewLease(l, ttl)
                   \/ UNCHANGED now /\ \E L : RevokeLeases(L)
                   \/ UNCHANGED now /\ CleanupExpiredLeases
<1>1. ASSUME UNCHANGED leaseVars, UNCHANGED now  PROVE Goal
    BY <1>1 DEF SameLeaseTable
<1>2. Initialize \/ Login => Goal
    BY <1>1 DEF Initialize, Login
<1>3. KeepHouse => Goal
    <2>1. ASSUME UNCHANGED now, CleanupExpiredLeases \/ \E path \in Paths : RevokeByPath(path)
          PROVE  Goal
        BY <2>1, Zenon DEF RevokeByPath
    <2> HIDE DEF Goal
    <2> QED BY <1>1, <2>1 DEF KeepHouse
<1>4. TimePasses \/ UNCHANGED vars => Goal
    BY DEF TimePasses, Tick, vars, SameLeaseTable
<1>5. ASSUME NEW th \in Threads
      PROVE  /\ (\E t \in TokenIds : Authenticate(th, t)) => Goal
             /\ Return(th) \/ DoCreateToken(th) \/ DoRevokeToken(th) \/ DoCreateApprole(th) => Goal
             /\ DoRevokeLeases(th) => Goal
             /\ DoRead(th) => Goal
             /\ DoLease(th) => Goal
    <2>1. (\E t \in TokenIds : Authenticate(th, t)) => Goal
        BY <1>1 DEF Authenticate
    <2>2. Return(th) \/ DoCreateToken(th) \/ DoRevokeToken(th) \/ DoCreateApprole(th) => Goal
        BY <1>1 DEF Return, DoCreateToken, DoRevokeToken, DoCreateApprole
    <2>3. DoRevokeLeases(th) => Goal
        BY Zenon DEF DoRevokeLeases, RevokeByToken
    <2>4. DoRead(th) => Goal
        BY Zenon DEF DoRead
    <2>5. DoLease(th) => Goal
        <3>1. ASSUME UNCHANGED now, \E l \in DOMAIN leases, ttl \in LeaseTTLs : RenewLease(l, ttl)
              PROVE  Goal
            <4>1. PICK l \in DOMAIN leases, ttl \in LeaseTTLs : RenewLease(l, ttl)
                BY <3>1
            <4>2. ttl \in Nat \cup {None}
                OBVIOUS
            <4> QED BY <3>1, <4>1, <4>2, Zenon
        <3>2. ASSUME UNCHANGED now, \E l \in DOMAIN leases : RevokeLease(l)
              PROVE  Goal
            BY <3>2, Zenon DEF RevokeLease
        <3> HIDE DEF Goal
        <3>3. DoLease(th) => UNCHANGED now
            BY DEF DoLease
        <3> QED BY <3>1, <3>2, <3>3 DEF DoLease
    <2> QED BY <2>1, <2>2, <2>3, <2>4, <2>5
<1> HIDE DEF Goal
<1>6. Goal
    BY <1>2, <1>3, <1>4, <1>5 DEF Next
<1> QED BY <1>6 DEF Goal

LEMMA CreateLeaseEffect ==
    ASSUME TypeOK, NEW path, NEW token, CreateLease(path, token, None), UNCHANGED now
    PROVE  /\ leasesIssued' = leasesIssued + 1
           /\ DOMAIN leases' = DOMAIN leases \cup {leasesIssued'}
           /\ \A l \in DOMAIN leases : leases'[l] = leases[l]
           /\ leases'[leasesIssued'].ttl \in Nat /\ leases'[leasesIssued'].ttl <= MaxTTL
           /\ leases'[leasesIssued'].expiresAt = now + leases'[leasesIssued'].ttl
<1> DEFINE granted == Granted(None, DefaultTTL)
           new == [path |-> path, token |-> token, ttl |-> granted,
                   expiresAt |-> now + granted, revoked |-> FALSE]
<1>1. /\ leasesIssued' = leasesIssued + 1
      /\ leases' = [l \in DOMAIN leases \cup {leasesIssued'} |->
                      IF l = leasesIssued' THEN new ELSE leases[l]]
    BY DEF CreateLease, Put
<1>2. granted \in Nat /\ granted <= MaxTTL
    BY GrantedType
<1>3. new.ttl = granted /\ new.expiresAt = now + granted
    OBVIOUS
<1> HIDE DEF new, granted
<1>4. leasesIssued' \notin DOMAIN leases
    BY <1>1 DEF TypeOK
<1> QED BY <1>1, <1>2, <1>3, <1>4

LEMMA RenewLeaseEffect ==
    ASSUME TypeOK, NEW l, NEW ttl \in Nat \cup {None}, RenewLease(l, ttl), UNCHANGED now
    PROVE  /\ UNCHANGED leasesIssued
           /\ DOMAIN leases' = DOMAIN leases
           /\ Active(l)
           /\ \A k \in DOMAIN leases : k # l => leases'[k] = leases[k]
           /\ leases'[l].ttl \in Nat /\ leases'[l].ttl <= MaxTTL
           /\ leases'[l].expiresAt = now + leases'[l].ttl
<1> DEFINE granted == Granted(ttl, leases[l].ttl)
           expiry == now + granted
<1>1. /\ l \in DOMAIN leases /\ ~leases[l].revoked /\ ~LeaseExpired(l)
      /\ leases' = [leases EXCEPT ![l].ttl = granted, ![l].expiresAt = expiry]
      /\ UNCHANGED leasesIssued
    BY DEF RenewLease
<1>2. leases[l] \in LeaseRecord
    BY <1>1 DEF TypeOK
<1>3. granted \in Nat /\ granted <= MaxTTL /\ expiry = now + granted
    BY <1>2, GrantedType DEF LeaseRecord
<1> HIDE DEF granted, expiry
<1>4. leases'[l].ttl = granted /\ leases'[l].expiresAt = expiry
    BY <1>1, <1>2 DEF LeaseRecord
<1> QED BY <1>1, <1>3, <1>4 DEF Active

LEMMA RevokeLeasesEffect ==
    ASSUME TypeOK, NEW L, RevokeLeases(L)
    PROVE  /\ UNCHANGED leasesIssued
           /\ DOMAIN leases' = DOMAIN leases
           /\ \A l \in DOMAIN leases :
                /\ leases'[l].ttl = leases[l].ttl
                /\ leases'[l].expiresAt = leases[l].expiresAt
                /\ leases[l].revoked => leases'[l].revoked
<1>1. /\ leases' = [l \in DOMAIN leases |-> [leases[l] EXCEPT !.revoked = @ \/ l \in L]]
      /\ UNCHANGED leasesIssued
    BY DEF RevokeLeases
<1>2. ASSUME NEW l \in DOMAIN leases
      PROVE  /\ leases'[l].ttl = leases[l].ttl
             /\ leases'[l].expiresAt = leases[l].expiresAt
             /\ leases[l].revoked => leases'[l].revoked
    <2>1. leases[l] \in LeaseRecord
        BY DEF TypeOK
    <2>2. leases'[l] = [leases[l] EXCEPT !.revoked = leases[l].revoked \/ l \in L]
        BY <1>1
    <2> QED BY <2>1, <2>2 DEF LeaseRecord
<1> QED BY <1>1, <1>2

LEMMA CleanupLeasesEffect ==
    ASSUME CleanupExpiredLeases
    PROVE  /\ UNCHANGED leasesIssued
           /\ DOMAIN leases' \subseteq DOMAIN leases
           /\ \A l \in DOMAIN leases' : leases'[l] = leases[l]
BY DEF CleanupExpiredLeases, Restrict

LEMMA LeaseNumbers ==
    ASSUME TypeOK, NEW l \in DOMAIN leases
    PROVE  leases[l].ttl \in Nat /\ leases[l].expiresAt \in Nat /\ leases[l].revoked \in BOOLEAN
BY DEF TypeOK, LeaseRecord

(* min(ttl, max_ttl) at every renewal, from the moment of the renewal on: no
   sequence of renewals gives a lease more than max_ttl from now. *)
THEOREM LeasesWithinMax == Spec => []LeaseWithinMax
<1> DEFINE Inv == TypeOK /\ LeaseWithinMax
<1>1. Init => Inv
    BY TypeInit DEF Init, LeasesInit, LeaseWithinMax
<1>2. Inv /\ [Next]_vars => Inv'
    <2> SUFFICES ASSUME TypeOK, LeaseWithinMax, [Next]_vars
                 PROVE  LeaseWithinMax'
        BY TypeNext
    <2>0. now \in Nat
        BY DEF TypeOK
    <2>1. CASE SameLeaseTable
        BY <2>0, <2>1, LeaseNumbers DEF SameLeaseTable, LeaseWithinMax, leaseVars
    <2>2. CASE UNCHANGED now /\ \E path, token : CreateLease(path, token, None)
        <3>1. PICK path, token : CreateLease(path, token, None)
            BY <2>2
        <3> QED BY <2>0, <2>2, <3>1, CreateLeaseEffect DEF LeaseWithinMax
    <2>3. CASE UNCHANGED now /\ \E l \in DOMAIN leases, ttl \in Nat \cup {None} : RenewLease(l, ttl)
        <3>1. PICK l \in DOMAIN leases, ttl \in Nat \cup {None} : RenewLease(l, ttl)
            BY <2>3
        <3> QED BY <2>0, <2>3, <3>1, RenewLeaseEffect DEF LeaseWithinMax
    <2>4. CASE UNCHANGED now /\ \E L : RevokeLeases(L)
        BY <2>4, RevokeLeasesEffect DEF LeaseWithinMax
    <2>5. CASE UNCHANGED now /\ CleanupExpiredLeases
        BY <2>5, CleanupLeasesEffect DEF LeaseWithinMax
    <2> QED BY <2>1, <2>2, <2>3, <2>4, <2>5, LeaseSteps
<1> QED BY <1>1, <1>2, PTL DEF Spec

(* A lease that was ever inactive stays so: renewals look at expiry under the
   lock, what is cleaned up is gone, and lease ids are never given out again. *)
THEOREM LeasesStayInactive == Spec => LeaseNeverRevives
<1> DEFINE NoneRevives == \A l \in 1 .. leasesIssued : ~Active(l) => ~Active(l)'
<1>1. TypeOK /\ [Next]_vars => NoneRevives
    <2> SUFFICES ASSUME TypeOK, [Next]_vars, NEW l \in 1 .. leasesIssued, Active(l)'
                 PROVE  Active(l)
        OBVIOUS
    <2>0. /\ now \in Nat
          /\ l \in DOMAIN leases' /\ ~leases'[l].revoked /\ ~(now' > leases'[l].expiresAt)
        BY DEF TypeOK, Active, LeaseExpired
    <2>1. CASE SameLeaseTable
        BY <2>0, <2>1, LeaseNumbers DEF SameLeaseTable, leaseVars, Active, LeaseExpired
    <2>2. CASE UNCHANGED now /\ \E path, token : CreateLease(path, token, None)
        <3>1. PICK path, token : CreateLease(path, token, None)
            BY <2>2
        <3>2. l # leasesIssued' /\ l \in DOMAIN leases /\ leases'[l] = leases[l]
            BY <2>0, <2>2, <3>1, CreateLeaseEffect DEF TypeOK
        <3> QED BY <2>0, <2>2, <3>2 DEF Active, LeaseExpired
    <2>3. CASE UNCHANGED now /\ \E k \in DOMAIN leases, ttl \in Nat \cup {None} : RenewLease(k, ttl)
        <3>1. PICK k \in DOMAIN leases, ttl \in Nat \cup {None} : RenewLease(k, ttl)
            BY <2>3
        <3>2. /\ DOMAIN leases' = DOMAIN leases /\ Active(k)
              /\ l # k => leases'[l] = leases[l]
            BY <2>0, <2>3, <3>1, RenewLeaseEffect
        <3> QED BY <2>0, <2>3, <3>2 DEF Active, LeaseExpired
    <2>4. CASE UNCHANGED now /\ \E L : RevokeLeases(L)
        BY <2>0, <2>4, RevokeLeasesEffect DEF Active, LeaseExpired
    <2>5. CASE UNCHANGED now /\ CleanupExpiredLeases
        BY <2>0, <2>5, CleanupLeasesEffect DEF Active, LeaseExpired
    <2> QED BY <2>1, <2>2, <2>3, <2>4, <2>5, LeaseSteps
<1>2. TypeOK /\ [Next]_vars => TypeOK'
    BY TypeNext
<1> QED BY <1>1, <1>2, TypeInit, PTL DEF Spec, LeaseNeverRevives

-----------------------------------------------------------------------------
(* Expiry of tokens. *)
LEMMA ClockRuns ==
    ASSUME TypeOK, [Next]_vars
    PROVE  now \in Nat /\ now' \in {now, now + 1}
<1>1. now \in Nat
    BY DEF TypeOK
<1> QED BY <1>1, LeaseSteps DEF SameLeaseTable

(* Only renew_token changes an expiry, and only that of a renewable token. *)
LEMMA ExpiryKept ==
    ASSUME TypeOK, [Next]_vars,
           NEW t \in DOMAIN tokens, t \in DOMAIN tokens', ~tokens[t].renewable
    PROVE  tokens'[t].expiresAt = tokens[t].expiresAt
<1>0. \A x \in DOMAIN tokens : tokens[x] \in TokenRecord
    BY DEF TypeOK
<1>1. CASE SameTokenTable
    BY <1>1 DEF SameTokenTable
<1>2. CASE IssueStep
    BY <1>2, IssueEffect
<1>3. CASE \E x : ValidateToken(x)
    <2>1. PICK x : ValidateToken(x)
        BY <1>3
    <2> DEFINE count == IF tokens[x].maxUses = 0 THEN 0 ELSE tokens[x].useCount + 1
    <2>2. tokens' = [tokens EXCEPT ![x].useCount = count]
        BY <2>1 DEF ValidateToken
    <2> HIDE DEF count
    <2> QED BY <1>0, <2>2 DEF TokenRecord
<1>4. CASE \E x : RevokeToken(x)
    <2>1. PICK x : RevokeToken(x)
        BY <1>4
    <2>2. tokens'[t] = [tokens[t] EXCEPT !.revoked = tokens[t].revoked \/ t \in Reached(x)]
        BY <2>1 DEF RevokeToken
    <2> QED BY <1>0, <2>2 DEF TokenRecord
<1>5. CASE \E x, ttl : RenewToken(x, ttl)
    <2>1. PICK x, ttl : RenewToken(x, ttl)
        BY <1>5
    <2>2. x # t
        BY <2>1 DEF RenewToken
    <2> DEFINE expiry == now + ttl
    <2>3. tokens' = [tokens EXCEPT ![x].expiresAt = expiry]
        BY <2>1 DEF RenewToken
    <2> HIDE DEF expiry
    <2> QED BY <2>2, <2>3
<1>6. CASE CleanupExpiredTokens
    BY <1>6, CleanupEffect
<1> QED BY <1>1, <1>2, <1>3, <1>4, <1>5, <1>6, TokenSteps

(* A token that may not be renewed is gone for good once it has expired,
   whatever requests and unused methods of the managers follow. *)
THEOREM ExpiryIsFinal == Spec => ExpiredForGood
<1> DEFINE NoneReturns == \A t \in DOMAIN tokens :
                            ~tokens[t].renewable /\ Expired(t) => ~Valid(t)'
<1>1. TypeOK /\ [Next]_vars => NoneReturns
    <2> SUFFICES ASSUME TypeOK, [Next]_vars, NEW t \in DOMAIN tokens,
                        ~tokens[t].renewable, Expired(t), Valid(t)'
                 PROVE  FALSE
        OBVIOUS
    <2>1. t \in DOMAIN tokens' /\ ~(tokens'[t].expiresAt # None /\ now' > tokens'[t].expiresAt)
        BY DEF Valid, Expired
    <2>2. tokens'[t].expiresAt = tokens[t].expiresAt
        BY <2>1, ExpiryKept
    <2>3. tokens[t].expiresAt # None /\ now > tokens[t].expiresAt
        BY DEF Expired
    <2>4. tokens[t].expiresAt \in Nat
        BY <2>3 DEF TypeOK, TokenRecord
    <2> QED BY <2>1, <2>2, <2>3, <2>4, ClockRuns
<1>2. TypeOK /\ [Next]_vars => TypeOK'
    BY TypeNext
<1> QED BY <1>1, <1>2, TypeInit, PTL DEF Spec, ExpiredForGood

=============================================================================
