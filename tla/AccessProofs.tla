---------------------------- MODULE AccessProofs ----------------------------
(***************************************************************************)
(* Theorems about Access: what acts was granted, and what a policy granted *)
(* all along is not refused, for any policies, tokens and requests, and    *)
(* whatever changes others make in between; what the hashes of the log     *)
(* show of lists of any length; and what a pattern of any length covers.   *)
(***************************************************************************)
EXTENDS Access, WellFoundedInduction, NaturalsInduction, SequenceTheorems, TLAPS

(* What grants the request now. *)
Now == Granting(policies, request.caller, request.what)

(* A name that has been looked up is not one that granted all along. *)
LookedUp == {request.caller.policies[j] : j \in 1 .. request.i - 1}

(* The history of the request agrees with the policies and with the names
   looked up so far. *)
HistoryOK ==
    request # Idle =>
        /\ request.i <= Len(request.caller.policies) + 1
        /\ request.steady \subseteq Now
        /\ Now # {} => request.granted
        /\ request.at = "authorize" => LookedUp \cap request.steady = {}
        /\ request.at \in {"act", "remove", "log"} =>
              request.caller.is_root \/ request.granted
        /\ request.at = "deny" => ~request.caller.is_root /\ request.steady = {}
        /\ request.at = "remove" => request.what.op = "delete" /\ request.what.name \notin BuiltIn

AccessInv == AccessTypeOK /\ HistoryOK

-----------------------------------------------------------------------------
(* The built-in policies are valid. *)
LEMMA BuiltInValid == ValidPolicy(Default) /\ ValidPolicy(Root)
<1>1. Default # {} /\ Root # {}
  BY DEF Default, Root
<1>2. \A r \in Default \cup Root : r.path # << >>
  BY DEF Default, Root, Rule
<1>3. \A r \in Default \cup Root : r.capabilities \subseteq ValidCapabilities
  BY DEF Default, Root, Rule, ValidCapabilities
<1> QED
  BY <1>1, <1>2, <1>3 DEF ValidPolicy

(* A new process has valid policies. *)
LEMMA NewPoliciesOK ==
    /\ DOMAIN NewPolicies = Names
    /\ \A n \in Names : NewPolicies[n] = Absent \/ ValidPolicy(NewPolicies[n])
    /\ \A n \in BuiltIn : NewPolicies[n] # Absent
<1> BuiltIn \subseteq Names
  BY NamesAssumption
<1> QED
  BY BuiltInValid, AbsentAssumption DEF NewPolicies, BuiltIn

(* What grants a request is on its token's list. *)
LEMMA GrantingIsNamed ==
    ASSUME NEW policyOf, NEW caller \in Callers, NEW r
    PROVE  Granting(policyOf, caller, r) \subseteq Names
<1>1. caller.policies \in Seq(Names)
  BY CallersAssumption
<1>2. Range(caller.policies) \subseteq Names
  BY <1>1 DEF Range
<1> QED
  BY <1>2 DEF Granting

(* A change of policies keeps the types and the history right, whoever makes
   it and wherever the request goes on. *)
LEMMA ChangeKeepsInv ==
    ASSUME AccessInv, NEW name \in Names, NEW rules,
           ValidPolicy(rules) \/ rules = Absent,
           rules = Absent => name \notin BuiltIn,
           policies' = [policies EXCEPT ![name] = rules],
           NEW step \in {"authorize", "deny", "act", "remove", "log"},
           request # Idle =>
               request' = [Noting(policies') EXCEPT !.at = step],
           request = Idle => request' = Idle,
           request # Idle => step = request.at \/ (step = "log" /\ request.at \in {"act", "remove"}),
           reply' = reply
    PROVE  AccessInv'
<1>1. /\ DOMAIN policies' = Names
      /\ \A n \in Names : policies'[n] = Absent \/ ValidPolicy(policies'[n])
      /\ \A n \in BuiltIn : policies'[n] # Absent
  BY NamesAssumption DEF AccessInv, AccessTypeOK
<1>2. CASE request = Idle
  BY <1>1, <1>2 DEF AccessInv, AccessTypeOK, HistoryOK
<1>3. CASE request # Idle
  <2> DEFINE now == Granting(policies', request.caller, request.what)
  <2>1. request \in RequestStates
    BY <1>3 DEF AccessInv, AccessTypeOK
  <2>2. now \subseteq Names
    BY <2>1, GrantingIsNamed DEF RequestStates
  <2>3. request' = [[request EXCEPT !.granted = @ \/ now # {}, !.steady = @ \cap now]
                      EXCEPT !.at = step]
    BY <1>3 DEF Noting
  <2> HIDE DEF now
  <2>4. /\ request'.at = step /\ request'.i = request.i
        /\ request'.what = request.what /\ request'.caller = request.caller
        /\ request'.granted = (request.granted \/ now # {})
        /\ request'.steady = request.steady \cap now
        /\ request' \in RequestStates
    BY <2>1, <2>3, Zenon DEF RequestStates
  <2>5. Now' = now
    BY <2>4 DEF Now, now
  <2>6. LookedUp' = LookedUp
    BY <2>4 DEF LookedUp
  <2>7. HistoryOK'
    BY <1>3, <2>4, <2>5, <2>6 DEF AccessInv, HistoryOK
  <2> QED
    BY <1>1, <2>4, <2>7 DEF AccessInv, AccessTypeOK
<1> QED
  BY <1>2, <1>3

-----------------------------------------------------------------------------
(* The statuses a request may end with. *)
LEMMA StatusIsOne ==
    \A e \in {"AuthenticationError", "AuthorizationError", "SealedError",
              "SecretNotFoundError", "PolicyError", "InitializationError",
              "CryptoError", "JSONDecodeError", "other"} : Status(e) \in Statuses
BY DEF Status, Statuses

(* A request that ends leaves nothing to remember. *)
LEMMA EndKeepsInv ==
    ASSUME AccessInv, request' = Idle, reply' \in Statuses, policies' = policies
    PROVE  AccessInv'
BY DEF AccessInv, AccessTypeOK, HistoryOK

(* A request that only goes to another step, as its history allows. *)
LEMMA GoingKeepsInv ==
    ASSUME AccessInv, NEW step \in {"authorize", "deny", "act", "remove", "log"},
           request # Idle, Goes(step), policies' = policies,
           \/ /\ step \in {"act", "remove", "log"}
              /\ request.caller.is_root \/ request.granted
              /\ step = "remove" => request.what.op = "delete" /\ request.what.name \notin BuiltIn
           \/ step = "deny" /\ ~request.caller.is_root /\ request.steady = {}
    PROVE  AccessInv'
<1>1. request \in RequestStates
  BY DEF AccessInv, AccessTypeOK
<1>2. /\ request'.at = step /\ request'.i = request.i
      /\ request'.what = request.what /\ request'.caller = request.caller
      /\ request'.granted = request.granted /\ request'.steady = request.steady
      /\ request' \in RequestStates
  BY <1>1 DEF Goes, RequestStates
<1>3. Now' = Now
  BY <1>2 DEF Now
<1>4. HistoryOK'
  BY <1>2, <1>3 DEF AccessInv, HistoryOK
<1> QED
  BY <1>2, <1>4 DEF AccessInv, AccessTypeOK, Goes

LEMMA InitOK == AccessInit => AccessInv
<1> SUFFICES ASSUME AccessInit PROVE AccessInv
  OBVIOUS
<1>1. AccessTypeOK
  BY NewPoliciesOK DEF AccessInit, AccessTypeOK, Statuses
<1> QED
  BY <1>1 DEF AccessInit, AccessInv, HistoryOK

LEMMA AdmitOK ==
    ASSUME AccessInv, NEW caller \in Callers, NEW r \in Requests, Admit(caller, r)
    PROVE  AccessInv'
<1>1. CASE request' = Idle /\ reply' \in Statuses
  BY <1>1, EndKeepsInv DEF Admit
<1>2. CASE /\ request' = [at |-> "authorize", what |-> r, caller |-> caller, i |-> 1,
                          granted |-> Granting(policies, caller, r) # {},
                          steady |-> Granting(policies, caller, r)]
           /\ reply' = 0
  <2> DEFINE now == Granting(policies, caller, r)
  <2>1. now \subseteq Names
    BY GrantingIsNamed
  <2>2. policies' = policies
    BY DEF Admit
  <2> HIDE DEF now
  <2>3. request' = [at |-> "authorize", what |-> r, caller |-> caller, i |-> 1,
                    granted |-> now # {}, steady |-> now]
    BY <1>2 DEF now
  <2>4. request' \in RequestStates
    BY <2>1, <2>3 DEF RequestStates
  <2>5. Now' = now
    BY <2>2, <2>3 DEF Now, now
  <2>6. LookedUp' = {}
    BY <2>3 DEF LookedUp
  <2>7. Len(caller.policies) \in Nat
    BY CallersAssumption
  <2>8. /\ request'.at = "authorize" /\ request'.i = 1 /\ request'.caller = caller
        /\ request'.steady = now /\ request'.granted = (now # {})
    BY <2>3
  <2>9. request'.i <= Len(request'.caller.policies) + 1
    BY <2>7, <2>8
  <2>10. HistoryOK'
    BY <2>5, <2>6, <2>8, <2>9, Zenon DEF HistoryOK
  <2> QED
    BY <1>2, <2>2, <2>4, <2>10 DEF AccessInv, AccessTypeOK, Statuses
<1> QED
  BY <1>1, <1>2, StatusIsOne DEF Admit, Raises, Returns

(* One lookup: if it grants, then the policies grant now; if not, the name is
   none of those that granted all along. *)
LEMMA CheckOK ==
    ASSUME AccessInv, Check
    PROVE  AccessInv'
<1> DEFINE name == request.caller.policies[request.i]
<1>1. /\ request \in RequestStates /\ request # Idle /\ policies' = policies
      /\ request.at = "authorize"
  BY DEF Check, At, AccessInv, AccessTypeOK
<1>2. /\ request.caller.policies \in Seq(Names)
      /\ request.i \in 1 .. Len(request.caller.policies)
      /\ ~request.caller.is_root
  BY <1>1, CallersAssumption DEF Check, RequestStates
<1>3. name \in Range(request.caller.policies)
  BY <1>2 DEF Range
<1>4. CASE Grants(policies[name], Resource(request.what), Capability(request.what))
  <2>1. name \in Now
    BY <1>3, <1>4 DEF Now, Granting
  <2>2. request.granted
    BY <1>1, <2>1 DEF AccessInv, HistoryOK
  <2>3. Goes("act")
    BY <1>4 DEF Check
  <2> QED
    BY <1>1, <2>2, <2>3, GoingKeepsInv
<1>5. CASE ~Grants(policies[name], Resource(request.what), Capability(request.what))
  <2>1. name \notin request.steady
    BY <1>1, <1>5 DEF AccessInv, HistoryOK, Now, Granting
  <2>2. request' = [request EXCEPT !.i = @ + 1] /\ reply' = reply
    BY <1>5 DEF Check
  <2>3. /\ request'.at = "authorize" /\ request'.i = request.i + 1
        /\ request'.what = request.what /\ request'.caller = request.caller
        /\ request'.granted = request.granted /\ request'.steady = request.steady
        /\ request' \in RequestStates
    BY <1>1, <2>2 DEF RequestStates
  <2>4. LookedUp' \subseteq LookedUp \cup {name}
    BY <1>2, <2>3 DEF LookedUp
  <2>5. Now' = Now
    BY <1>1, <2>3 DEF Now
  <2>6. HistoryOK'
    BY <1>1, <1>2, <2>1, <2>3, <2>4, <2>5 DEF AccessInv, HistoryOK
  <2> QED
    BY <1>1, <2>2, <2>3, <2>6 DEF AccessInv, AccessTypeOK
<1> QED
  BY <1>4, <1>5

(* When the whole list has been looked up, nothing granted all along. *)
LEMMA CheckedAllOK ==
    ASSUME AccessInv, CheckedAll
    PROVE  AccessInv'
<1>1. /\ request \in RequestStates /\ request # Idle /\ policies' = policies
      /\ request.at = "authorize" /\ ~request.caller.is_root
  BY DEF CheckedAll, At, AccessInv, AccessTypeOK
<1>2. /\ request.caller.policies \in Seq(Names)
      /\ request.i = Len(request.caller.policies) + 1
  BY <1>1, CallersAssumption DEF CheckedAll, AccessInv, HistoryOK, RequestStates
<1>3. LookedUp = Range(request.caller.policies)
  BY <1>2 DEF LookedUp, Range
<1>4. request.steady \subseteq Range(request.caller.policies)
  BY <1>1 DEF AccessInv, HistoryOK, Now, Granting
<1>5. request.steady = {}
  BY <1>1, <1>3, <1>4 DEF AccessInv, HistoryOK
<1> QED
  BY <1>1, <1>5, GoingKeepsInv DEF CheckedAll

LEMMA PutOK ==
    ASSUME AccessInv, Put
    PROVE  AccessInv'
<1>1. /\ request \in RequestStates /\ request # Idle
      /\ request.at = "act" /\ request.what.op = "put"
  BY DEF Put, At, AccessInv, AccessTypeOK
<1>2. request.what.name \in Names
  BY <1>1, RequestsAssumption DEF RequestStates
<1>3. CASE ValidPolicy(request.what.rules)
  <2>1. request.what.rules # Absent
    BY <1>1, RequestsAssumption DEF RequestStates
  <2>2. Changes(request.what.name, request.what.rules)
    BY <1>3 DEF Put
  <2> QED
    BY <1>1, <1>2, <1>3, <2>1, <2>2, ChangeKeepsInv DEF Changes
<1>4. CASE ~ValidPolicy(request.what.rules)
  BY <1>4, EndKeepsInv, StatusIsOne DEF Put, Raises, Returns
<1> QED
  BY <1>3, <1>4

LEMMA DeleteOK ==
    ASSUME AccessInv, Delete
    PROVE  AccessInv'
<1>1. /\ request # Idle /\ request.at = "act" /\ request.what.op = "delete"
      /\ policies' = policies
  BY DEF Delete, At
<1>2. request.caller.is_root \/ request.granted
  BY <1>1 DEF AccessInv, HistoryOK
<1>3. CASE request.what.name \in BuiltIn /\ Raises("PolicyError")
  BY <1>1, <1>3, EndKeepsInv, StatusIsOne DEF Raises, Returns
<1>4. CASE request.what.name \notin BuiltIn /\ (Goes("log") \/ Goes("remove"))
  BY <1>1, <1>2, <1>4, GoingKeepsInv
<1> QED
  BY <1>3, <1>4 DEF Delete

LEMMA RemovePolicyOK ==
    ASSUME AccessInv, RemovePolicy
    PROVE  AccessInv'
<1>1. /\ request \in RequestStates /\ request # Idle
      /\ request.at = "remove"
  BY DEF RemovePolicy, At, AccessInv, AccessTypeOK
<1>2. request.what.op = "delete" /\ request.what.name \notin BuiltIn
  BY <1>1 DEF AccessInv, HistoryOK
<1>3. request.what.name \in Names
  BY <1>1, <1>2, RequestsAssumption DEF RequestStates
<1>4. CASE policies[request.what.name] # Absent
  <2>1. Changes(request.what.name, Absent)
    BY <1>4 DEF RemovePolicy
  <2> QED
    BY <1>1, <1>2, <1>3, <2>1, ChangeKeepsInv DEF Changes
<1>5. CASE policies[request.what.name] = Absent
  BY <1>5, EndKeepsInv, StatusIsOne DEF RemovePolicy, Raises, Returns
<1> QED
  BY <1>4, <1>5

LEMMA UseOK ==
    ASSUME AccessInv, Use \/ Look
    PROVE  AccessInv'
<1>1. request # Idle /\ request.at = "act" /\ policies' = policies
  BY DEF Use, Look, At
<1>2. request.caller.is_root \/ request.granted
  BY <1>1 DEF AccessInv, HistoryOK
<1>3. CASE Goes("log")
  BY <1>1, <1>2, <1>3, GoingKeepsInv
<1>4. CASE request' = Idle /\ reply' \in Statuses
  BY <1>1, <1>4, EndKeepsInv
<1> QED
  BY <1>3, <1>4, StatusIsOne DEF Use, Look, Raises, Returns, Statuses

(* The changes of others, which the request only notices. *)
LEMMA OthersChangeOK ==
    ASSUME AccessInv, NEW c \in Others, OthersChange(c[1], c[2])
    PROVE  AccessInv'
<1>1. /\ c[1] \in Names
      /\ ValidPolicy(c[2]) \/ c[2] = Absent
      /\ c[2] = Absent => c[1] \notin BuiltIn
  BY OthersAssumption, RequestsAssumption
<1>2. /\ policies' = [policies EXCEPT ![c[1]] = c[2]]
      /\ request' = Noting(policies') /\ reply' = reply
  BY DEF OthersChange
<1>3. CASE request = Idle
  BY <1>1, <1>2, <1>3, ChangeKeepsInv DEF Noting
<1>4. CASE request # Idle
  <2> DEFINE now == Granting(policies', request.caller, request.what)
  <2>1. request \in RequestStates
    BY <1>4 DEF AccessInv, AccessTypeOK
  <2>2. request' = [request EXCEPT !.granted = @ \/ now # {}, !.steady = @ \cap now]
    BY <1>2, <1>4 DEF Noting
  <2> HIDE DEF now
  <2>3. request' = [request' EXCEPT !.at = request.at]
    BY <2>1, <2>2, Zenon DEF RequestStates
  <2>4. request.at \in {"authorize", "deny", "act", "remove", "log"}
    BY <2>1 DEF RequestStates
  <2> QED
    BY <1>1, <1>2, <1>4, <2>3, <2>4, ChangeKeepsInv
<1> QED
  BY <1>3, <1>4

LEMMA StepOK ==
    ASSUME AccessInv, [AccessNext]_accessVars
    PROVE  AccessInv'
<1>1. ASSUME NEW caller \in Callers, NEW r \in Requests, Admit(caller, r)
      PROVE  AccessInv'
  BY <1>1, AdmitOK
<1>2. CASE CheckRoot
  BY <1>2, GoingKeepsInv DEF CheckRoot, At
<1>3. CASE Check
  BY <1>3, CheckOK
<1>4. CASE CheckedAll
  BY <1>4, CheckedAllOK
<1>5. CASE Deny \/ LogAndReturn
  BY <1>5, EndKeepsInv, StatusIsOne DEF Deny, LogAndReturn, Raises, Returns, Statuses
<1>6. CASE Put
  BY <1>6, PutOK
<1>7. CASE Delete
  BY <1>7, DeleteOK
<1>8. CASE RemovePolicy
  BY <1>8, RemovePolicyOK
<1>9. CASE Use \/ Look
  BY <1>9, UseOK
<1>10. ASSUME NEW c \in Others, OthersChange(c[1], c[2])
       PROVE  AccessInv'
  BY <1>10, OthersChangeOK
<1>11. CASE Restart
  BY <1>11, NewPoliciesOK DEF Restart, AccessInv, AccessTypeOK, HistoryOK, Statuses
<1>12. CASE UNCHANGED <<policies, request, reply>>
  <2>1. Now' = Now /\ LookedUp' = LookedUp
    BY <1>12 DEF Now, LookedUp
  <2> QED
    BY <1>12, <2>1 DEF AccessInv, AccessTypeOK, HistoryOK
<1> QED
  BY <1>1, <1>2, <1>3, <1>4, <1>5, <1>6, <1>7, <1>8, <1>9, <1>10, <1>11, <1>12
     DEF AccessNext, OthersLog, LogAltered, accessVars

-----------------------------------------------------------------------------
(* Types, and the validity of every policy in place. *)
THEOREM AccessTypes == AccessSpec => []AccessTypeOK
<1>1. AccessSpec => []AccessInv
  BY InitOK, StepOK, PTL DEF AccessSpec
<1>2. AccessInv => AccessTypeOK
  BY DEF AccessInv
<1> QED
  BY <1>1, <1>2, PTL

(* Whoever acts is root, or was granted the request by a policy of the token
   at some moment since it began: check_access without a lock admits nobody
   else. *)
THEOREM OnlyAllowedAct == AccessSpec => []ActsAllowed
<1>1. AccessSpec => []AccessInv
  BY InitOK, StepOK, PTL DEF AccessSpec
<1>2. AccessInv => ActsAllowed
  BY DEF AccessInv, HistoryOK, ActsAllowed
<1> QED
  BY <1>1, <1>2, PTL

(* What one policy granted from the beginning on is not refused. *)
THEOREM RefusalsJustified == AccessSpec => []DenialJustified
<1>1. AccessSpec => []AccessInv
  BY InitOK, StepOK, PTL DEF AccessSpec
<1>2. AccessInv => DenialJustified
  BY DEF AccessInv, HistoryOK, DenialJustified, At
<1> QED
  BY <1>1, <1>2, PTL

-----------------------------------------------------------------------------
(***************************************************************************)
(* The log.  Inductions over its length are made by least counterexample.  *)
(***************************************************************************)
LEMMA LeastElement ==
    ASSUME NEW T, T \subseteq Nat, T # {}
    PROVE  \E x \in T : \A y \in T : ~(y < x)
<1>1. IsWellFoundedOn(OpToRel(<, Nat), Nat)
  BY NatLessThanWellFounded, Zenon
<1>2. PICK x \in T : \A y \in T : ~(<<y, x>> \in OpToRel(<, Nat))
  BY <1>1, WFMin, Zenon
<1>3. \A y \in T : y < x => <<y, x>> \in OpToRel(<, Nat)
  BY DEF OpToRel
<1> QED
  BY <1>2, <1>3, Zenon

(* The same, in the form of an induction: a set of numbers with 0 in it and
   with each number's successor has all of them. *)
LEMMA Induction ==
    ASSUME NEW S, 0 \in S, \A n \in Nat : n \in S => n + 1 \in S
    PROVE  Nat \subseteq S
<1> SUFFICES ASSUME NEW k \in Nat, k \notin S PROVE FALSE
  OBVIOUS
<1> DEFINE T == {n \in Nat : n \notin S}
<1>1. PICK x \in T : \A y \in T : ~(y < x)
  <2>1. T \subseteq Nat /\ T # {}
    OBVIOUS
  <2> HIDE DEF T
  <2> QED
    BY <2>1, LeastElement
<1>2. x # 0 /\ x \in Nat
  OBVIOUS
<1>3. x - 1 \in Nat /\ x - 1 < x
  BY <1>2
<1>4. x - 1 \in S
  BY <1>1, <1>3
<1> QED
  BY <1>2, <1>3, <1>4

(* Hashes is what its definition says: for each n there is one function on
   0 .. n that follows it. *)
HashesBelow(g, m) ==
    g = [n \in 0 .. m |-> IF n = 0 THEN {Genesis} ELSE Chained(g[n - 1])]

LEMMA HashesBelowExist == \A m \in Nat : \E g : HashesBelow(g, m)
<1> DEFINE S == {m \in Nat : \E g : HashesBelow(g, m)}
<1>1. 0 \in S
  <2> DEFINE g == [n \in 0 .. 0 |-> {Genesis}]
  <2>1. HashesBelow(g, 0)
    BY DEF HashesBelow
  <2> QED
    BY <2>1
<1>2. ASSUME NEW m \in Nat, m \in S PROVE m + 1 \in S
  <2>1. PICK g : HashesBelow(g, m)
    BY <1>2
  <2> DEFINE h == [n \in 0 .. m + 1 |-> IF n = m + 1 THEN Chained(g[m]) ELSE g[n]]
  <2>2. \A n \in 0 .. m : g[n] = IF n = 0 THEN {Genesis} ELSE Chained(g[n - 1])
    BY <2>1 DEF HashesBelow
  <2>3. \A n \in 0 .. m + 1 : h[n] = IF n = 0 THEN {Genesis} ELSE Chained(h[n - 1])
    <3> SUFFICES ASSUME NEW n \in 0 .. m + 1
                 PROVE  h[n] = IF n = 0 THEN {Genesis} ELSE Chained(h[n - 1])
      OBVIOUS
    <3>1. CASE n = m + 1
      <4>1. n - 1 = m /\ n # 0 /\ h[n - 1] = g[m]
        BY <3>1
      <4> QED
        BY <3>1, <4>1
    <3>2. CASE n # m + 1
      <4>1. n \in 0 .. m /\ h[n] = g[n]
        BY <3>2
      <4>2. n # 0 => n - 1 \in 0 .. m /\ n - 1 # m + 1 /\ h[n - 1] = g[n - 1]
        BY <4>1
      <4> QED
        BY <2>2, <4>1, <4>2
    <3> QED
      BY <3>1, <3>2
  <2>4. HashesBelow(h, m + 1)
    BY <2>3 DEF HashesBelow
  <2> QED
    BY <2>4
<1>3. Nat \subseteq S
  <2> HIDE DEF S
  <2> QED
    BY <1>1, <1>2, Induction
<1> QED
  BY <1>3

LEMMA HashesBelowAgree ==
    ASSUME NEW m \in Nat, NEW k \in Nat, NEW g, NEW h, HashesBelow(g, m), HashesBelow(h, k)
    PROVE  \A n \in Nat : n <= m /\ n <= k => g[n] = h[n]
<1> DEFINE S == {n \in Nat : n <= m /\ n <= k => g[n] = h[n]}
<1>1. /\ \A n \in 0 .. m : g[n] = IF n = 0 THEN {Genesis} ELSE Chained(g[n - 1])
      /\ \A n \in 0 .. k : h[n] = IF n = 0 THEN {Genesis} ELSE Chained(h[n - 1])
  BY DEF HashesBelow
<1>2. 0 \in S
  BY <1>1
<1>3. ASSUME NEW n \in Nat, n \in S PROVE n + 1 \in S
  <2>1. n + 1 <= m => g[n + 1] = Chained(g[n])
    BY <1>1
  <2>2. n + 1 <= k => h[n + 1] = Chained(h[n])
    BY <1>1
  <2> QED
    BY <1>3, <2>1, <2>2
<1>4. Nat \subseteq S
  <2> HIDE DEF S
  <2> QED
    BY <1>2, <1>3, Induction
<1> QED
  BY <1>4

LEMMA HashesAre ==
    \A n \in Nat : Hashes[n] = IF n = 0 THEN {Genesis} ELSE Chained(Hashes[n - 1])
<1> DEFINE Below(m) == CHOOSE g : HashesBelow(g, m)
           G == [m \in Nat |-> Below(m)[m]]
<1>1. \A m \in Nat : HashesBelow(Below(m), m)
  BY HashesBelowExist
<1> HIDE DEF Below
<1>2. ASSUME NEW m \in Nat PROVE G[m] = IF m = 0 THEN {Genesis} ELSE Chained(G[m - 1])
  <2>1. Below(m)[m] = IF m = 0 THEN {Genesis} ELSE Chained(Below(m)[m - 1])
    <3>1. HashesBelow(Below(m), m) /\ m \in 0 .. m
      BY <1>1
    <3> QED
      BY <3>1 DEF HashesBelow
  <2>2. CASE m # 0
    <3>1. m - 1 \in Nat /\ m - 1 <= m
      BY <2>2
    <3>2. HashesBelow(Below(m), m) /\ HashesBelow(Below(m - 1), m - 1)
      BY <1>1, <3>1
    <3>3. Below(m)[m - 1] = Below(m - 1)[m - 1]
      BY <3>1, <3>2, HashesBelowAgree
    <3> QED
      BY <2>1, <2>2, <3>1, <3>3
  <2> QED
    BY <2>1, <2>2
<1>3. G = [m \in Nat |-> IF m = 0 THEN {Genesis} ELSE Chained(G[m - 1])]
  BY <1>2
<1> HIDE DEF G
<1>4. Hashes = [m \in Nat |-> IF m = 0 THEN {Genesis} ELSE Chained(Hashes[m - 1])]
  BY <1>3, Zenon DEF Hashes
<1> QED
  BY <1>4

(* A longer chain reaches every hash a shorter one does. *)
LEMMA HashesGrow ==
    ASSUME NEW m \in Nat, NEW n \in Nat, m <= n
    PROVE  Hashes[m] \subseteq Hashes[n]
<1> DEFINE S == {i \in Nat : Hashes[i] \subseteq Hashes[i + 1]}
<1>1. ASSUME NEW i \in Nat PROVE Hashes[i + 1] = Chained(Hashes[i])
  <2>1. i + 1 \in Nat /\ i + 1 # 0 /\ (i + 1) - 1 = i
    OBVIOUS
  <2> QED
    BY <2>1, HashesAre
<1>2. 0 \in S
  <2>1. Hashes[0] = {Genesis} /\ Hashes[0 + 1] = Chained(Hashes[0])
    BY <1>1, HashesAre
  <2> QED
    BY <2>1 DEF Chained
<1>3. ASSUME NEW i \in Nat, i \in S PROVE i + 1 \in S
  <2>1. Chained(Hashes[i]) \subseteq Chained(Hashes[i + 1])
    BY <1>3 DEF Chained
  <2> QED
    BY <1>1, <2>1
<1>4. \A i \in Nat : Hashes[i] \subseteq Hashes[i + 1]
  <2>1. Nat \subseteq S
    <3> HIDE DEF S
    <3> QED
      BY <1>2, <1>3, Induction
  <2> QED
    BY <2>1
<1> DEFINE R == {i \in Nat : Hashes[m] \subseteq Hashes[m + i]}
<1>5. 0 \in R
  OBVIOUS
<1>6. ASSUME NEW i \in Nat, i \in R PROVE i + 1 \in R
  <2>1. Hashes[m + i] \subseteq Hashes[(m + i) + 1] /\ (m + i) + 1 = m + (i + 1)
    BY <1>4
  <2> QED
    BY <1>6, <2>1
<1>7. Nat \subseteq R
  <2> HIDE DEF R
  <2> QED
    BY <1>5, <1>6, Induction
<1>8. n - m \in R /\ m + (n - m) = n
  BY <1>7
<1> QED
  BY <1>8

-----------------------------------------------------------------------------
(* What entries may hold when no chain of hashes is longer than n. *)
EntriesTo(n) == [content : Contents, prev : Hashes[n], hash : Hashes[n]]

LEMMA EntriesGrow ==
    ASSUME NEW m \in Nat, NEW n \in Nat, m <= n, NEW list \in Seq(EntriesTo(m))
    PROVE  list \in Seq(EntriesTo(n))
<1>1. EntriesTo(m) \subseteq EntriesTo(n)
  BY HashesGrow DEF EntriesTo
<1> QED
  BY <1>1

LEMMA HashesHave ==
    ASSUME NEW n \in Nat
    PROVE  /\ Genesis \in Hashes[n]
           /\ \A c \in Contents, h \in Hashes[n] : Hash(c, h) \in Hashes[n + 1]
<1>1. Hashes[0] = {Genesis}
  BY HashesAre
<1>2. Hashes[0] \subseteq Hashes[n]
  BY HashesGrow
<1>3. n + 1 \in Nat /\ n + 1 # 0 /\ (n + 1) - 1 = n
  OBVIOUS
<1>4. Hashes[n + 1] = Chained(Hashes[n])
  BY <1>3, HashesAre
<1> QED
  BY <1>1, <1>2, <1>4 DEF Chained

(* The hash an entry is chained to is one of the list's, or GENESIS_HASH. *)
LEMMA PrevIsHash ==
    ASSUME NEW n \in Nat, NEW list \in Seq(EntriesTo(n)), NEW i \in 1 .. Len(list) + 1
    PROVE  PrevOf(list, i) \in Hashes[n]
<1>1. CASE i = 1
  BY <1>1, HashesHave DEF PrevOf
<1>2. CASE i # 1
  <2>1. i - 1 \in 1 .. Len(list)
    BY <1>2
  <2>2. list[i - 1] \in EntriesTo(n)
    BY <2>1
  <2> QED
    BY <1>2, <2>2 DEF PrevOf, EntriesTo
<1> QED
  BY <1>1, <1>2

(* log() makes the longest chain one hash longer. *)
LEMMA LoggedTypes ==
    ASSUME NEW n \in Nat, NEW list \in Seq(EntriesTo(n)), NEW c \in Contents
    PROVE  /\ Logged(list, c) \in Seq(EntriesTo(n + 1))
           /\ Len(Logged(list, c)) = Len(list) + 1
<1> DEFINE prev == PrevOf(list, Len(list) + 1)
<1>1. prev \in Hashes[n]
  BY PrevIsHash
<1> HIDE DEF prev
<1>2. prev \in Hashes[n + 1] /\ Hash(c, prev) \in Hashes[n + 1]
  BY <1>1, HashesHave, HashesGrow
<1>3. Entry(c, prev) \in EntriesTo(n + 1)
  BY <1>2 DEF Entry, EntriesTo
<1>4. list \in Seq(EntriesTo(n + 1))
  BY EntriesGrow
<1>5. Logged(list, c) = Append(list, Entry(c, prev))
  BY DEF Logged, prev
<1> QED
  BY <1>3, <1>4, <1>5

-----------------------------------------------------------------------------
(***************************************************************************)
(* FoldLeft goes through a sequence place by place.  It is defined by a    *)
(* choice of a function on the sets of places, so this has to be shown:    *)
(* that the function exists, that it has its values where they should be,  *)
(* and that the sequence of its values on 1 .. k leads from the base to the*)
(* result.                                                                 *)
(***************************************************************************)
LEMMA MaxOf ==
    ASSUME NEW m \in Nat, NEW s \in SUBSET (1 .. m), s # {}
    PROVE  Max(s) \in s /\ \A x \in s : x <= Max(s)
<1> DEFINE T == {j \in Nat : \E x \in s : j = m - x}
<1>1. T \subseteq Nat /\ T # {}
  <2>1. PICK x \in s : TRUE
    OBVIOUS
  <2>2. m - x \in T
    BY <2>1
  <2> QED
    BY <2>2
<1> HIDE DEF T
<1>2. PICK j \in T : \A y \in T : ~(y < j)
  BY <1>1, LeastElement
<1> USE DEF T
<1>3. PICK x \in s : j = m - x
  BY <1>2
<1>4. \A y \in s : x >= y
  <2>1. \A y \in s : m - y \in T
    OBVIOUS
  <2> QED
    BY <1>2, <1>3, <2>1
<1> QED
  BY <1>4 DEF Max

Folds(g, F, base, D, n) ==
    /\ DOMAIN g = SUBSET (1 .. n)
    /\ \A s \in SUBSET (1 .. n) :
          /\ g[s] \in D
          /\ g[s] = IF s = {} THEN base ELSE F[<<g[s \ {Max(s)}], Max(s)>>]

LEMMA FoldExists ==
    ASSUME NEW D, NEW base \in D, NEW n \in Nat, NEW F,
           \A x \in D, k \in 1 .. n : F[<<x, k>>] \in D
    PROVE  \E g : Folds(g, F, base, D, n)
<1> DEFINE S == {m \in Nat : m <= n => \E g : Folds(g, F, base, D, m)}
<1>1. 0 \in S
  <2> DEFINE g == [s \in SUBSET (1 .. 0) |-> base]
  <2>1. \A s \in SUBSET (1 .. 0) : s = {}
    OBVIOUS
  <2>2. Folds(g, F, base, D, 0)
    BY <2>1 DEF Folds
  <2> QED
    BY <2>2
<1>2. ASSUME NEW m \in Nat, m \in S PROVE m + 1 \in S
  <2> SUFFICES ASSUME m + 1 <= n PROVE \E g : Folds(g, F, base, D, m + 1)
    OBVIOUS
  <2>0. PICK g : Folds(g, F, base, D, m)
    BY <1>2
  <2>1. \A s \in SUBSET (1 .. m) :
           /\ g[s] \in D
           /\ g[s] = IF s = {} THEN base ELSE F[<<g[s \ {Max(s)}], Max(s)>>]
    BY <2>0 DEF Folds
  <2> DEFINE h == [s \in SUBSET (1 .. m + 1) |->
                     IF m + 1 \in s THEN F[<<g[s \ {m + 1}], m + 1>>] ELSE g[s]]
  <2>2. ASSUME NEW s \in SUBSET (1 .. m + 1)
        PROVE  /\ h[s] \in D
               /\ h[s] = IF s = {} THEN base ELSE F[<<h[s \ {Max(s)}], Max(s)>>]
    <3>1. CASE s = {}
      <4>1. s \in SUBSET (1 .. m) /\ h[s] = g[s]
        BY <3>1
      <4> QED
        BY <2>1, <3>1, <4>1
    <3>2. CASE s # {} /\ m + 1 \in s
      <4>1. Max(s) = m + 1
        <5>1. m + 1 \in Nat
          OBVIOUS
        <5>2. Max(s) \in s /\ \A x \in s : x <= Max(s)
          BY <3>2, <5>1, MaxOf
        <5>3. Max(s) \in 1 .. m + 1 /\ m + 1 <= Max(s)
          BY <3>2, <5>2
        <5> QED
          BY <5>3
      <4>2. /\ s \ {m + 1} \in SUBSET (1 .. m + 1) /\ m + 1 \notin s \ {m + 1}
            /\ s \ {m + 1} \in SUBSET (1 .. m)
        OBVIOUS
      <4>3. h[s \ {m + 1}] = g[s \ {m + 1}] /\ g[s \ {m + 1}] \in D
        BY <2>1, <4>2
      <4>4. h[s] = F[<<g[s \ {m + 1}], m + 1>>]
        BY <3>2
      <4>5. m + 1 \in 1 .. n
        OBVIOUS
      <4>6. F[<<g[s \ {m + 1}], m + 1>>] \in D
        BY <4>3, <4>5
      <4> QED
        BY <3>2, <4>1, <4>3, <4>4, <4>6
    <3>3. CASE s # {} /\ m + 1 \notin s
      <4>1. s \in SUBSET (1 .. m)
        BY <3>3
      <4>2. s \ {Max(s)} \in SUBSET (1 .. m) /\ s \ {Max(s)} \in SUBSET (1 .. m + 1)
        BY <4>1
      <4>3. m + 1 \notin s \ {Max(s)}
        BY <3>3
      <4>4. h[s] = g[s] /\ h[s \ {Max(s)}] = g[s \ {Max(s)}]
        BY <3>3, <4>2, <4>3
      <4>5. g[s] = F[<<g[s \ {Max(s)}], Max(s)>>] /\ g[s] \in D
        BY <2>1, <3>3, <4>1
      <4> QED
        BY <3>3, <4>4, <4>5
    <3> QED
      BY <3>1, <3>2, <3>3
  <2>3. DOMAIN h = SUBSET (1 .. m + 1)
    OBVIOUS
  <2> HIDE DEF h
  <2>4. Folds(h, F, base, D, m + 1)
    BY <2>2, <2>3 DEF Folds
  <2> QED
    BY <2>4
<1>3. Nat \subseteq S
  <2> HIDE DEF S
  <2> QED
    BY <1>1, <1>2, Induction
<1> QED
  BY <1>3

(* Whatever follows the steps of a fold, where they are defined, is the fold. *)
LEMMA FoldTyped ==
    ASSUME NEW D, NEW base \in D, NEW n \in Nat, NEW F,
           \A x \in D, k \in 1 .. n : F[<<x, k>>] \in D,
           NEW h, DOMAIN h = SUBSET (1 .. n),
           \A s \in SUBSET (1 .. n) :
              /\ s = {} => h[s] = base
              /\ s # {} /\ h[s \ {Max(s)}] \in D => h[s] = F[<<h[s \ {Max(s)}], Max(s)>>]
    PROVE  Folds(h, F, base, D, n)
<1> DEFINE T == {m \in Nat : \A s \in SUBSET (1 .. n) : s \subseteq 1 .. m => h[s] \in D}
<1>1. 0 \in T
  <2>1. \A s \in SUBSET (1 .. n) : s \subseteq 1 .. 0 => s = {}
    OBVIOUS
  <2> QED
    BY <2>1
<1>2. ASSUME NEW s \in SUBSET (1 .. n), s # {}
      PROVE  /\ Max(s) \in s /\ \A x \in s : x <= Max(s)
             /\ s \ {Max(s)} \in SUBSET (1 .. n)
  BY <1>2, MaxOf
<1>3. ASSUME NEW m \in Nat, m \in T PROVE m + 1 \in T
  <2>1. ASSUME NEW s \in SUBSET (1 .. n), s \subseteq 1 .. m + 1 PROVE h[s] \in D
    <3>1. CASE s = {}
      BY <3>1
    <3>2. CASE s # {}
      <4> DEFINE k == Max(s)
      <4>1. k \in s /\ (\A x \in s : x <= k) /\ s \ {k} \in SUBSET (1 .. n)
        BY <1>2, <3>2
      <4>2. h[s \ {k}] \in D => h[s] = F[<<h[s \ {k}], k>>]
        BY <3>2
      <4> HIDE DEF k
      <4>3. k \in 1 .. n /\ k \in 1 .. m + 1
        BY <2>1, <4>1
      <4>4. s \ {k} \subseteq 1 .. m
        BY <2>1, <4>1, <4>3
      <4>5. h[s \ {k}] \in D
        BY <1>3, <4>1, <4>4
      <4> QED
        BY <4>2, <4>3, <4>5
    <3> QED
      BY <3>1, <3>2
  <2> QED
    BY <2>1
<1>4. \A s \in SUBSET (1 .. n) : h[s] \in D
  <2>1. Nat \subseteq T
    <3> HIDE DEF T
    <3> QED
      BY <1>1, <1>3, Induction
  <2>2. n \in T
    BY <2>1
  <2> QED
    BY <2>2
<1>5. ASSUME NEW s \in SUBSET (1 .. n)
      PROVE  h[s] = IF s = {} THEN base ELSE F[<<h[s \ {Max(s)}], Max(s)>>]
  BY <1>2, <1>4
<1> QED
  BY <1>4, <1>5 DEF Folds

(* From place to place. *)
Walks(at, F, base, D, n) ==
    /\ at \in [0 .. n -> D]
    /\ at[0] = base
    /\ \A k \in 1 .. n : at[k] = F[<<at[k - 1], k>>]

LEMMA FoldSteps ==
    ASSUME NEW D, NEW base, NEW n \in Nat, NEW F, NEW g, Folds(g, F, base, D, n)
    PROVE  \E at : Walks(at, F, base, D, n) /\ at[n] = g[1 .. n]
<1> DEFINE at == [k \in 0 .. n |-> g[1 .. k]]
<1>1. \A k \in 0 .. n : 1 .. k \in SUBSET (1 .. n) /\ at[k] = g[1 .. k]
  OBVIOUS
<1>2. at \in [0 .. n -> D]
  BY <1>1 DEF Folds
<1>3. at[0] = base
  <2>1. 1 .. 0 = {} /\ 0 \in 0 .. n
    OBVIOUS
  <2> QED
    BY <1>1, <2>1 DEF Folds
<1>4. ASSUME NEW k \in 1 .. n PROVE at[k] = F[<<at[k - 1], k>>]
  <2>1. k \in Nat /\ k \in 0 .. n /\ k - 1 \in 0 .. n /\ k \in 1 .. k
    OBVIOUS
  <2>2. 1 .. k \in SUBSET (1 .. k) /\ 1 .. k # {}
    BY <2>1
  <2>3. Max(1 .. k) \in 1 .. k /\ \A x \in 1 .. k : x <= Max(1 .. k)
    BY <2>1, <2>2, MaxOf
  <2>4. Max(1 .. k) = k
    BY <2>1, <2>3
  <2>5. (1 .. k) \ {k} = 1 .. k - 1
    OBVIOUS
  <2>6. g[1 .. k] = F[<<g[1 .. k - 1], k>>]
    BY <1>1, <2>1, <2>2, <2>4, <2>5 DEF Folds
  <2> QED
    BY <1>1, <2>1, <2>6
<1>5. at[n] = g[1 .. n]
  BY <1>1
<1> HIDE DEF at
<1>6. Walks(at, F, base, D, n)
  BY <1>2, <1>3, <1>4 DEF Walks
<1> QED
  BY <1>5, <1>6

(* A list logged anew has as many entries at most, and no longer chains. *)
LEMMA RelogTypes ==
    ASSUME NEW says \in Seq(Contents)
    PROVE  LET new == FoldLeft(Logged, << >>, says)
           IN  new \in Seq(EntriesTo(Len(new))) /\ Len(new) <= Len(says)
<1> DEFINE n == Len(says)
           D == {list \in UNION {Seq(EntriesTo(m)) : m \in Nat} :
                    list \in Seq(EntriesTo(Len(list)))}
           P == DOMAIN says
           F == [x \in D \X (1 .. n) |-> Logged(x[1], says[x[2]])]
           iter == CHOOSE g : g = [s \in SUBSET P |->
                     IF s = {} THEN << >> ELSE Logged(g[s \ {Max(s)}], says[Max(s)])]
<1>1. FoldLeft(Logged, << >>, says) = iter[P]
  BY Zenon DEF FoldLeft, MapThenFoldSet
<1>2. n \in Nat /\ P = 1 .. n /\ \A i \in 1 .. n : says[i] \in Contents
  OBVIOUS
<1>3. << >> \in D
  <2>1. << >> \in Seq(EntriesTo(0)) /\ Len(<< >>) = 0 /\ 0 \in Nat
    OBVIOUS
  <2> QED
    BY <2>1
<1>4. ASSUME NEW x \in D, NEW c \in Contents
      PROVE  Logged(x, c) \in D /\ Len(Logged(x, c)) = Len(x) + 1
  <2>1. PICK m : m = Len(x)
    OBVIOUS
  <2>2. x \in Seq(EntriesTo(m)) /\ m \in Nat /\ m + 1 \in Nat
    BY <2>1
  <2>3. Logged(x, c) \in Seq(EntriesTo(m + 1)) /\ Len(Logged(x, c)) = m + 1
    BY <2>1, <2>2, LoggedTypes
  <2> QED
    BY <2>1, <2>2, <2>3
<1>5. \A x \in D, k \in 1 .. n : F[<<x, k>>] = Logged(x, says[k])
  OBVIOUS
<1> HIDE DEF F, D, n
<1>6. \A x \in D, k \in 1 .. n : F[<<x, k>>] \in D
  BY <1>2, <1>4, <1>5
<1>7. PICK g : Folds(g, F, << >>, D, n)
  BY <1>2, <1>3, <1>6, FoldExists
<1>8. ASSUME NEW f, NEW s \in SUBSET (1 .. n), s # {}, f[s \ {Max(s)}] \in D
      PROVE  F[<<f[s \ {Max(s)}], Max(s)>>] = Logged(f[s \ {Max(s)}], says[Max(s)])
  <2>1. Max(s) \in 1 .. n
    BY <1>2, <1>8, MaxOf
  <2> QED
    BY <1>5, <1>8, <2>1
<1>9. \E h : h = [s \in SUBSET P |->
             IF s = {} THEN << >> ELSE Logged(h[s \ {Max(s)}], says[Max(s)])]
  <2> DEFINE h == [s \in SUBSET P |-> g[s]]
  <2>1. ASSUME NEW s \in SUBSET P
        PROVE  h[s] = IF s = {} THEN << >> ELSE Logged(h[s \ {Max(s)}], says[Max(s)])
    <3>1. s \ {Max(s)} \in SUBSET P /\ s \in SUBSET (1 .. n)
      BY <1>2
    <3>2. /\ g[s] = IF s = {} THEN << >> ELSE F[<<g[s \ {Max(s)}], Max(s)>>]
          /\ g[s \ {Max(s)}] \in D
      BY <1>2, <1>7, <3>1 DEF Folds
    <3> QED
      BY <1>8, <3>1, <3>2
  <2>2. h = [s \in SUBSET P |->
               IF s = {} THEN << >> ELSE Logged(h[s \ {Max(s)}], says[Max(s)])]
    BY <2>1
  <2> HIDE DEF h
  <2> QED
    BY <2>2
<1>10. iter = [s \in SUBSET P |->
                 IF s = {} THEN << >> ELSE Logged(iter[s \ {Max(s)}], says[Max(s)])]
  BY <1>9, Zenon
<1> HIDE DEF iter, P
<1>11. Folds(iter, F, << >>, D, n)
  <2>1. /\ DOMAIN iter = SUBSET (1 .. n)
        /\ \A s \in SUBSET (1 .. n) :
              iter[s] = IF s = {} THEN << >> ELSE Logged(iter[s \ {Max(s)}], says[Max(s)])
    BY <1>2, <1>10
  <2>2. \A s \in SUBSET (1 .. n) :
           /\ s = {} => iter[s] = << >>
           /\ s # {} /\ iter[s \ {Max(s)}] \in D =>
                iter[s] = F[<<iter[s \ {Max(s)}], Max(s)>>]
    BY <1>8, <2>1
  <2> QED
    BY <1>2, <1>3, <1>6, <2>1, <2>2, FoldTyped
<1>12. PICK at : Walks(at, F, << >>, D, n) /\ at[n] = iter[1 .. n]
  BY <1>2, <1>11, FoldSteps
<1>13. /\ at \in [0 .. n -> D] /\ at[0] = << >>
       /\ \A k \in 1 .. n : at[k] = F[<<at[k - 1], k>>]
  BY <1>12 DEF Walks
<1> DEFINE S == {k \in Nat : k <= n => Len(at[k]) = k}
<1>14. 0 \in S
  <2>1. Len(at[0]) = 0
    BY <1>13
  <2> QED
    BY <2>1
<1>15. ASSUME NEW k \in Nat, k \in S PROVE k + 1 \in S
  <2> SUFFICES ASSUME k + 1 <= n PROVE Len(at[k + 1]) = k + 1
    OBVIOUS
  <2>1. k + 1 \in 1 .. n /\ (k + 1) - 1 = k /\ k \in 0 .. n
    BY <1>2
  <2>2. Len(at[k]) = k /\ at[k] \in D
    BY <1>2, <1>13, <1>15, <2>1
  <2>3. at[k + 1] = Logged(at[k], says[k + 1])
    BY <1>5, <1>13, <2>1, <2>2
  <2>4. Len(Logged(at[k], says[k + 1])) = Len(at[k]) + 1
    BY <1>2, <1>4, <2>1, <2>2
  <2> QED
    BY <2>2, <2>3, <2>4
<1>16. n \in S
  <2>1. Nat \subseteq S
    <3> HIDE DEF S
    <3> QED
      BY <1>14, <1>15, Induction
  <2> QED
    BY <1>2, <2>1
<1>17. PICK new : new = at[n]
  OBVIOUS
<1>18. new \in D /\ Len(new) = n
  BY <1>2, <1>13, <1>16, <1>17
<1>19. new = FoldLeft(Logged, << >>, says)
  BY <1>1, <1>2, <1>12, <1>17
<1>20. new \in Seq(EntriesTo(Len(new)))
  BY <1>18 DEF D
<1> QED
  BY <1>2, <1>18, <1>19, <1>20 DEF n

-----------------------------------------------------------------------------
(* A list that comes back altered has no longer chains than the one that was
   saved, counting one more for the alteration. *)
LEMMA AlteredTypes ==
    ASSUME NEW k \in Nat, NEW list, list \in Seq(EntriesTo(Len(list) + k)),
           NEW new \in Altered(list)
    PROVE  new \in Seq(EntriesTo(Len(new) + (k + 1))) /\ Len(new) <= Len(list)
<1> DEFINE n == Len(list)
           E == EntriesTo(n + k)
           Rewritten(i, c) == [list EXCEPT ![i].content = c]
<1>1. /\ n \in Nat /\ n + k \in Nat
      /\ DOMAIN list = 1 .. n
      /\ list \in Seq(E)
      /\ \A i \in 1 .. n : list[i] \in E
  OBVIOUS
<1> HIDE DEF n, E
<1>2. ASSUME NEW other \in Seq(E), Len(other) \in {n, n - 1}
      PROVE  other \in Seq(EntriesTo(Len(other) + (k + 1))) /\ Len(other) <= n
  <2>1. /\ Len(other) \in Nat /\ n + k <= Len(other) + (k + 1)
        /\ Len(other) + (k + 1) \in Nat /\ Len(other) <= n
    BY <1>1, <1>2
  <2>2. other \in Seq(EntriesTo(n + k))
    BY DEF E
  <2> QED
    BY <1>1, <2>1, <2>2, EntriesGrow
<1>3. ASSUME NEW i \in 1 .. n, NEW c \in Contents
      PROVE  Rewritten(i, c) \in Seq(E) /\ Len(Rewritten(i, c)) = n
  <2>1. [list[i] EXCEPT !.content = c] \in E
    BY <1>1 DEF E, EntriesTo
  <2>2. Rewritten(i, c) = [list EXCEPT ![i] = [list[i] EXCEPT !.content = c]]
    BY <1>1
  <2> QED
    BY <1>1, <2>1, <2>2 DEF n
<1>4. CASE new = list
  BY <1>1, <1>2, <1>4 DEF n
<1>5. ASSUME NEW i \in 1 .. n, new = RemoveAt(list, i)
      PROVE  new \in Seq(E) /\ Len(new) = n - 1
  <2>1. SubSeq(list, 1, i - 1) \in Seq(E) /\ Len(SubSeq(list, 1, i - 1)) = i - 1
    <3>1. 1 \in Int /\ i - 1 \in Int /\ \A j \in 1 .. i - 1 : list[j] \in E
      BY <1>1
    <3>2. /\ SubSeq(list, 1, i - 1) \in Seq(E)
          /\ Len(SubSeq(list, 1, i - 1)) = IF 1 <= i - 1 THEN (i - 1) - 1 + 1 ELSE 0
      BY <3>1, SubSeqProperties
    <3> QED
      BY <1>1, <3>2
  <2>2. SubSeq(list, i + 1, n) \in Seq(E) /\ Len(SubSeq(list, i + 1, n)) = n - i
    <3>1. i + 1 \in Int /\ n \in Int /\ \A j \in i + 1 .. n : list[j] \in E
      BY <1>1
    <3>2. /\ SubSeq(list, i + 1, n) \in Seq(E)
          /\ Len(SubSeq(list, i + 1, n)) = IF i + 1 <= n THEN n - (i + 1) + 1 ELSE 0
      BY <3>1, SubSeqProperties
    <3> QED
      BY <1>1, <3>2
  <2>3. new = SubSeq(list, 1, i - 1) \o SubSeq(list, i + 1, n)
    BY <1>5 DEF RemoveAt, n
  <2>4. PICK a, b : a = SubSeq(list, 1, i - 1) /\ b = SubSeq(list, i + 1, n)
    OBVIOUS
  <2>5. a \o b \in Seq(E) /\ Len(a \o b) = Len(a) + Len(b)
    BY <2>1, <2>2, <2>4
  <2> QED
    BY <1>1, <2>1, <2>2, <2>3, <2>4, <2>5
<1>6. ASSUME NEW i \in 1 .. n, NEW j \in 1 .. n,
             new = [list EXCEPT ![i] = list[j], ![j] = list[i]]
      PROVE  new \in Seq(E) /\ Len(new) = n
  BY <1>1, <1>6 DEF n
<1>7. ASSUME NEW i \in 1 .. n, NEW c \in Contents,
             new = [list EXCEPT ![i] = Entry(c, list[i].prev)]
      PROVE  new \in Seq(EntriesTo(n + k + 1)) /\ Len(new) = n
  <2>1. list[i].prev \in Hashes[n + k]
    BY <1>1 DEF E, EntriesTo
  <2>2. /\ list[i].prev \in Hashes[n + k + 1]
        /\ Hash(c, list[i].prev) \in Hashes[n + k + 1]
    <3>1. n + k + 1 \in Nat /\ n + k <= n + k + 1
      BY <1>1
    <3>2. Hashes[n + k] \subseteq Hashes[n + k + 1]
      BY <1>1, <3>1, HashesGrow
    <3>3. Hash(c, list[i].prev) \in Hashes[(n + k) + 1]
      BY <1>1, <2>1, HashesHave
    <3> QED
      BY <2>1, <3>2, <3>3
  <2>3. Entry(c, list[i].prev) \in EntriesTo(n + k + 1)
    BY <2>2 DEF Entry, EntriesTo
  <2>4. list \in Seq(EntriesTo(n + k + 1))
    <3>1. n + k + 1 \in Nat /\ n + k <= n + k + 1 /\ list \in Seq(EntriesTo(n + k))
      BY <1>1 DEF E
    <3> QED
      BY <1>1, <3>1, EntriesGrow
  <2> QED
    BY <1>1, <1>7, <2>3, <2>4 DEF n
<1>8. ASSUME NEW i \in 1 .. n, NEW c \in Contents,
             new = FoldLeft(Logged, << >>, Says(Rewritten(i, c)))
      PROVE  new \in Seq(EntriesTo(Len(new))) /\ Len(new) <= n
  <2>1. PICK other : other = Rewritten(i, c)
    OBVIOUS
  <2>2. other \in Seq(E) /\ Len(other) = n
    BY <1>3, <2>1
  <2>3. ASSUME NEW j \in 1 .. n PROVE other[j].content \in Contents
    <3>1. other[j] \in E
      BY <1>1, <2>2
    <3> QED
      BY <3>1 DEF E, EntriesTo
  <2>4. Says(other) \in Seq(Contents) /\ Len(Says(other)) = n
    BY <1>1, <2>2, <2>3 DEF Says
  <2> QED
    BY <1>8, <2>1, <2>4, RelogTypes
<1>9. ASSUME NEW m \in Nat, new \in Seq(EntriesTo(m)), m <= Len(new) + (k + 1)
      PROVE  new \in Seq(EntriesTo(Len(new) + (k + 1)))
  <2>1. Len(new) \in Nat /\ Len(new) + (k + 1) \in Nat
    BY <1>9
  <2> QED
    BY <1>9, <2>1, EntriesGrow
<1>10. \/ new = list
       \/ \E i \in 1 .. n : new = RemoveAt(list, i)
       \/ \E i \in 1 .. n, j \in 1 .. n : new = [list EXCEPT ![i] = list[j], ![j] = list[i]]
       \/ \E i \in 1 .. n, c \in Contents : new = Rewritten(i, c)
       \/ \E i \in 1 .. n, c \in Contents : new = [list EXCEPT ![i] = Entry(c, list[i].prev)]
       \/ \E i \in 1 .. n, c \in Contents :
             new = FoldLeft(Logged, << >>, Says(Rewritten(i, c)))
  <2> DEFINE A2 == {RemoveAt(list, i) : i \in 1 .. n}
             A3 == {[list EXCEPT ![i] = list[j], ![j] = list[i]] : i, j \in 1 .. n}
             A4 == {Rewritten(i, c) : i \in 1 .. n, c \in Contents}
             A5 == {[list EXCEPT ![i] = Entry(c, list[i].prev)] : i \in 1 .. n, c \in Contents}
             A6 == {FoldLeft(Logged, << >>, Says(Rewritten(i, c))) : i \in 1 .. n, c \in Contents}
  <2>1. Altered(list) = {list} \cup A2 \cup A3 \cup A4 \cup A5 \cup A6
    BY DEF Altered, n
  <2>2. new \in A2 => \E i \in 1 .. n : new = RemoveAt(list, i)
    BY Zenon
  <2>3. new \in A3 => \E i \in 1 .. n, j \in 1 .. n :
                        new = [list EXCEPT ![i] = list[j], ![j] = list[i]]
    OBVIOUS
  <2>4. new \in A4 => \E i \in 1 .. n, c \in Contents : new = Rewritten(i, c)
    OBVIOUS
  <2>5. new \in A5 => \E i \in 1 .. n, c \in Contents :
                        new = [list EXCEPT ![i] = Entry(c, list[i].prev)]
    OBVIOUS
  <2>6. new \in A6 => \E i \in 1 .. n, c \in Contents :
                        new = FoldLeft(Logged, << >>, Says(Rewritten(i, c)))
    OBVIOUS
  <2> HIDE DEF A2, A3, A4, A5, A6, Rewritten
  <2> QED
    BY <2>1, <2>2, <2>3, <2>4, <2>5, <2>6
<1> HIDE DEF Rewritten
<1>11. CASE \E i \in 1 .. n, c \in Contents : new = [list EXCEPT ![i] = Entry(c, list[i].prev)]
  <2>1. new \in Seq(EntriesTo(n + k + 1)) /\ Len(new) = n
    BY <1>7, <1>11
  <2>2. n + k + 1 \in Nat /\ n + k + 1 <= Len(new) + (k + 1)
    BY <1>1, <2>1
  <2> QED
    BY <1>1, <1>9, <2>1, <2>2 DEF n
<1>12. CASE \E i \in 1 .. n, c \in Contents :
               new = FoldLeft(Logged, << >>, Says(Rewritten(i, c)))
  <2>1. new \in Seq(EntriesTo(Len(new))) /\ Len(new) <= n
    BY <1>8, <1>12
  <2>2. Len(new) \in Nat /\ Len(new) <= Len(new) + (k + 1)
    BY <2>1
  <2> QED
    BY <1>9, <2>1, <2>2 DEF n
<1>13. CASE \/ \E i \in 1 .. n : new = RemoveAt(list, i)
            \/ \E i \in 1 .. n, j \in 1 .. n : new = [list EXCEPT ![i] = list[j], ![j] = list[i]]
            \/ \E i \in 1 .. n, c \in Contents : new = Rewritten(i, c)
  <2>1. new \in Seq(E) /\ Len(new) \in {n, n - 1}
    BY <1>3, <1>5, <1>6, <1>13
  <2> QED
    BY <1>2, <2>1 DEF n
<1> QED
  BY <1>4, <1>10, <1>11, <1>12, <1>13

-----------------------------------------------------------------------------
(* The hashes of a chain of contents, GENESIS_HASH at the beginning. *)
IsChain(f, says) ==
    /\ DOMAIN f = 0 .. Len(says)
    /\ f[0] = Genesis
    /\ \A i \in 1 .. Len(says) : f[i] = Hash(says[i], f[i - 1])

LEMMA ChainHashes ==
    ASSUME NEW says \in Seq(Contents), NEW f, IsChain(f, says),
           NEW n \in Nat, Len(says) <= n
    PROVE  \A i \in 0 .. Len(says) : f[i] \in Hashes[n]
<1> DEFINE S == {i \in Nat : i <= Len(says) => f[i] \in Hashes[i]}
<1>1. 0 \in S
  BY HashesHave DEF IsChain
<1>2. ASSUME NEW i \in Nat, i \in S PROVE i + 1 \in S
  <2> SUFFICES ASSUME i + 1 <= Len(says) PROVE f[i + 1] \in Hashes[i + 1]
    OBVIOUS
  <2>1. i + 1 \in 1 .. Len(says) /\ (i + 1) - 1 = i /\ f[i] \in Hashes[i]
    BY <1>2
  <2>2. f[i + 1] = Hash(says[i + 1], f[i]) /\ says[i + 1] \in Contents
    BY <2>1 DEF IsChain
  <2> QED
    BY <2>1, <2>2, HashesHave
<1>3. Nat \subseteq S
  <2> HIDE DEF S
  <2> QED
    BY <1>1, <1>2, Induction
<1> SUFFICES ASSUME NEW i \in 0 .. Len(says) PROVE f[i] \in Hashes[n]
  OBVIOUS
<1>4. i \in Nat /\ i <= n /\ f[i] \in Hashes[i]
  BY <1>3
<1> QED
  BY <1>4, HashesGrow

(* Two chains that meet say the same up to there: back from where they meet
   each hash names what it was made of, and both begin with GENESIS_HASH, which
   is the hash of nothing. *)
LEMMA ChainsMeet ==
    ASSUME NEW a \in Seq(Contents), NEW f, IsChain(f, a), Len(a) <= MaxEntries + MaxLoads,
           NEW b \in Seq(Contents), NEW g, IsChain(g, b), Len(b) <= MaxEntries + MaxLoads,
           NEW i \in 0 .. Len(a), f[i] = g[Len(b)]
    PROVE  i = Len(b) /\ \A k \in 1 .. i : a[k] = b[k]
<1> DEFINE n == Len(b)
           max == MaxEntries + MaxLoads
           S == {k \in Nat : k <= i /\ k <= n => f[i - k] = g[n - k]}
<1>1. n \in Nat /\ i \in Nat /\ max \in Nat /\ Len(a) \in Nat
  BY BoundsAssumption
<1>2. ASSUME NEW k \in 1 .. Len(a)
      PROVE  f[k] = Hash(a[k], f[k - 1]) /\ a[k] \in Contents /\ f[k - 1] \in Hashes[max]
  <2>1. k - 1 \in 0 .. Len(a) /\ a[k] \in Contents
    BY <1>1
  <2>2. \A j \in 0 .. Len(a) : f[j] \in Hashes[max]
    BY <1>1, ChainHashes
  <2>3. f[k] = Hash(a[k], f[k - 1])
    BY DEF IsChain
  <2> QED
    BY <2>1, <2>2, <2>3
<1>3. ASSUME NEW k \in 1 .. n
      PROVE  g[k] = Hash(b[k], g[k - 1]) /\ b[k] \in Contents /\ g[k - 1] \in Hashes[max]
  <2>1. k - 1 \in 0 .. n /\ b[k] \in Contents
    BY <1>1
  <2>2. \A j \in 0 .. n : g[j] \in Hashes[max]
    BY <1>1, ChainHashes
  <2>3. g[k] = Hash(b[k], g[k - 1])
    BY DEF IsChain
  <2> QED
    BY <2>1, <2>2, <2>3
<1>4. f[0] = Genesis /\ g[0] = Genesis /\ f[i] = g[n]
  BY DEF IsChain
<1>5. \A c \in Contents, h \in Hashes[max] : Genesis # Hash(c, h)
  BY GenesisAssumption
<1>6. \A c, d, x, y : Hash(c, x) = Hash(d, y) => c = d /\ x = y
  BY DEF Hash
<1> HIDE DEF n, max
<1>7. 0 \in S
  BY <1>1, <1>4
<1>8. ASSUME NEW k \in Nat, k \in S PROVE k + 1 \in S
  <2> SUFFICES ASSUME k + 1 <= i, k + 1 <= n PROVE f[i - (k + 1)] = g[n - (k + 1)]
    OBVIOUS
  <2>1. f[i - k] = g[n - k]
    BY <1>1, <1>8
  <2>2. /\ i - k \in 1 .. Len(a) /\ n - k \in 1 .. n
        /\ (i - k) - 1 = i - (k + 1) /\ (n - k) - 1 = n - (k + 1)
    BY <1>1
  <2>3. Hash(a[i - k], f[i - (k + 1)]) = Hash(b[n - k], g[n - (k + 1)])
    BY <1>2, <1>3, <2>1, <2>2
  <2> QED
    BY <1>6, <2>3
<1>9. Nat \subseteq S
  <2> HIDE DEF S
  <2> QED
    BY <1>7, <1>8, Induction
<1>10. i = n
  <2>1. CASE i < n
    <3>1. f[i - i] = g[n - i] /\ i - i = 0 /\ n - i \in 1 .. n
      BY <1>1, <1>9, <2>1
    <3> QED
      BY <1>3, <1>4, <1>5, <3>1
  <2>2. CASE i > n
    <3>1. f[i - n] = g[n - n] /\ n - n = 0 /\ i - n \in 1 .. Len(a)
      BY <1>1, <1>9, <2>2
    <3> QED
      BY <1>2, <1>4, <1>5, <3>1
  <2> QED
    BY <1>1, <2>1, <2>2
<1>11. ASSUME NEW k \in 0 .. i PROVE f[k] = g[k]
  <2>1. i - k \in Nat /\ i - k <= i /\ i - k <= n /\ i - (i - k) = k /\ n - (i - k) = k
    BY <1>1, <1>10
  <2> QED
    BY <1>9, <2>1
<1>12. ASSUME NEW k \in 1 .. i PROVE a[k] = b[k]
  <2>1. k \in 1 .. Len(a) /\ k \in 1 .. n /\ f[k] = g[k]
    BY <1>1, <1>10, <1>11
  <2> QED
    BY <1>2, <1>3, <1>6, <2>1
<1> QED
  BY <1>10, <1>12 DEF n

(* What verify_chain finds valid is a chain of what the entries say. *)
HashesOf(list) == [i \in 0 .. Len(list) |-> IF i = 0 THEN Genesis ELSE list[i].hash]

LEMMA BrokenIs ==
    ASSUME NEW list, Len(list) \in Nat, BrokenAt(list) = 0
    PROVE  \A i \in 1 .. Len(list) : ~Invalid(list, i)
<1> DEFINE T == {i \in 1 .. Len(list) : Invalid(list, i)}
<1>1. BrokenAt(list) = IF T = {} THEN 0 ELSE Min(T)
  BY DEF BrokenAt
<1>2. ASSUME T # {} PROVE Min(T) \in T
  <2>1. T \subseteq Nat
    OBVIOUS
  <2> HIDE DEF T
  <2>2. PICK x \in T : \A y \in T : ~(y < x)
    BY <1>2, <2>1, LeastElement
  <2>3. \A y \in T : x <= y
    BY <2>1, <2>2
  <2> QED
    BY <2>3 DEF Min
<1>3. 0 \notin T
  OBVIOUS
<1>4. T = {}
  <2> HIDE DEF T
  <2> QED
    BY <1>1, <1>2, <1>3
<1> QED
  BY <1>4

LEMMA ValidIsChain ==
    ASSUME NEW n \in Nat, NEW list \in Seq(EntriesTo(n)), BrokenAt(list) = 0
    PROVE  /\ Says(list) \in Seq(Contents) /\ Len(Says(list)) = Len(list)
           /\ IsChain(HashesOf(list), Says(list))
<1>1. Len(list) \in Nat /\ \A i \in 1 .. Len(list) : list[i] \in EntriesTo(n)
  OBVIOUS
<1>2. \A i \in 1 .. Len(list) : list[i].content \in Contents
  BY <1>1 DEF EntriesTo
<1>3. Says(list) \in Seq(Contents) /\ Len(Says(list)) = Len(list)
  BY <1>1, <1>2 DEF Says
<1>4. ASSUME NEW i \in 1 .. Len(list)
      PROVE  list[i].hash = Hash(list[i].content, HashesOf(list)[i - 1])
  <2>1. list[i].hash = Hash(list[i].content, PrevOf(list, i))
    BY <1>1, BrokenIs DEF Invalid
  <2>2. i - 1 \in 0 .. Len(list) /\ (i - 1 = 0 <=> i = 1)
    BY <1>1
  <2>3. PrevOf(list, i) = HashesOf(list)[i - 1]
    BY <2>2 DEF PrevOf, HashesOf
  <2> QED
    BY <2>1, <2>3
<1>5. ASSUME NEW i \in 1 .. Len(list)
      PROVE  HashesOf(list)[i] = list[i].hash /\ Says(list)[i] = list[i].content
  BY <1>1 DEF HashesOf, Says
<1>6. DOMAIN HashesOf(list) = 0 .. Len(list) /\ HashesOf(list)[0] = Genesis
  BY <1>1 DEF HashesOf
<1>7. \A i \in 1 .. Len(list) : HashesOf(list)[i] = Hash(Says(list)[i], HashesOf(list)[i - 1])
  BY <1>4, <1>5
<1> QED
  BY <1>3, <1>6, <1>7 DEF IsChain

-----------------------------------------------------------------------------
(* The log's types, with the length of the chains as it grows, and what was
   noted: the hash of a chain that says what the entries said. *)
LogInv ==
    /\ loads \in 0 .. MaxLoads
    /\ entries \in Seq(EntriesTo(Len(entries) + loads))
    /\ Len(entries) <= MaxEntries

NotedInv ==
    /\ noted.says \in Seq(Contents)
    /\ Len(noted.says) <= MaxEntries
    /\ \E f : IsChain(f, noted.says) /\ noted.hash = f[Len(noted.says)]

AuditInv == LogInv /\ NotedInv

LEMMA AuditInitInv == Init => AuditInv
<1> SUFFICES ASSUME Init PROVE AuditInv
  OBVIOUS
<1>1. entries = << >> /\ loads = 0 /\ noted.says = << >> /\ noted.hash = Genesis
  BY DEF Init
<1>2. LogInv
  BY <1>1, BoundsAssumption DEF LogInv
<1> DEFINE f == [i \in 0 .. 0 |-> Genesis]
<1>3. IsChain(f, << >>) /\ f[0] = Genesis
  BY DEF IsChain
<1> HIDE DEF f
<1>4. NotedInv
  BY <1>1, <1>3, BoundsAssumption DEF NotedInv
<1> QED
  BY <1>2, <1>4 DEF AuditInv

LEMMA AuditInvNext == AuditInv /\ [Next]_vars => AuditInv'
<1> SUFFICES ASSUME AuditInv, [Next]_vars PROVE AuditInv'
  OBVIOUS
<1>1. /\ loads \in 0 .. MaxLoads /\ loads \in Nat
      /\ Len(entries) \in Nat /\ Len(entries) <= MaxEntries
      /\ entries \in Seq(EntriesTo(Len(entries) + loads))
      /\ MaxEntries \in Nat /\ MaxLoads \in Nat
  BY BoundsAssumption DEF AuditInv, LogInv
<1>2. ASSUME UNCHANGED noted PROVE NotedInv'
  BY <1>2 DEF AuditInv, NotedInv
<1>3. ASSUME NEW c \in Contents, Log(c) PROVE AuditInv'
  <2>1. /\ Len(entries) < MaxEntries /\ entries' = Logged(entries, c)
        /\ loads' = loads /\ UNCHANGED noted
    BY <1>3 DEF Log
  <2>2. Len(entries) + loads \in Nat
    BY <1>1
  <2>3. /\ Logged(entries, c) \in Seq(EntriesTo((Len(entries) + loads) + 1))
        /\ Len(Logged(entries, c)) = Len(entries) + 1
    BY <1>1, <2>2, LoggedTypes
  <2>4. (Len(entries) + loads) + 1 = Len(entries') + loads'
    BY <1>1, <2>1, <2>3
  <2>5. LogInv'
    BY <1>1, <2>1, <2>3, <2>4 DEF LogInv
  <2> QED
    BY <1>2, <2>1, <2>5 DEF AuditInv
<1>4. ASSUME Verify PROVE AuditInv'
  <2>1. /\ BrokenAt(entries) = 0 /\ entries # << >>
        /\ noted' = [hash |-> Last(entries).hash, says |-> Says(entries)]
        /\ entries' = entries /\ loads' = loads
    BY <1>4 DEF Verify
  <2>2. Len(entries) + loads \in Nat /\ Len(entries) # 0
    BY <1>1, <2>1
  <2>3. /\ Says(entries) \in Seq(Contents) /\ Len(Says(entries)) = Len(entries)
        /\ IsChain(HashesOf(entries), Says(entries))
    BY <1>1, <2>1, <2>2, ValidIsChain
  <2>4. HashesOf(entries)[Len(entries)] = Last(entries).hash
    BY <1>1, <2>2 DEF HashesOf, Last
  <2>5. /\ noted'.says = Says(entries)
        /\ noted'.hash = HashesOf(entries)[Len(Says(entries))]
    BY <2>1, <2>3, <2>4
  <2>6. NotedInv'
    BY <1>1, <2>3, <2>5 DEF NotedInv
  <2>7. LogInv'
    BY <2>1 DEF AuditInv, LogInv
  <2> QED
    BY <2>6, <2>7 DEF AuditInv
<1>5. ASSUME NEW list \in Altered(entries), Load(list) PROVE AuditInv'
  <2>1. loads < MaxLoads /\ entries' = list /\ loads' = loads + 1 /\ UNCHANGED noted
    BY <1>5 DEF Load
  <2>2. list \in Seq(EntriesTo(Len(list) + (loads + 1))) /\ Len(list) <= Len(entries)
    BY <1>1, AlteredTypes
  <2>3. LogInv'
    BY <1>1, <2>1, <2>2 DEF LogInv
  <2> QED
    BY <1>2, <2>1, <2>3 DEF AuditInv
<1>6. ASSUME Clear PROVE AuditInv'
  <2>1. entries' = << >> /\ loads' = loads /\ UNCHANGED noted
    BY <1>6 DEF Clear
  <2>2. LogInv'
    BY <1>1, <2>1 DEF LogInv
  <2> QED
    BY <1>2, <2>1, <2>2 DEF AuditInv
<1>7. CASE UNCHANGED vars
  BY <1>7 DEF vars, AuditInv, LogInv, NotedInv
<1> QED
  BY <1>3, <1>4, <1>5, <1>6, <1>7 DEF Next

(* Whatever a request, or another, or a new process does to the log is a step
   of AuditLog. *)
LEMMA AccessUsesAudit == [AccessNext]_accessVars => [Next]_vars
<1> SUFFICES ASSUME [AccessNext]_accessVars PROVE [Next]_vars
  OBVIOUS
<1>1. ASSUME NEW c \in {"allow", "deny"}, Log(c) PROVE Next
  BY <1>1, OutcomesAssumption DEF Next
<1>2. CASE Deny \/ LogAndReturn \/ \E c \in {"allow", "deny"} : OthersLog(c)
  BY <1>1, <1>2 DEF Deny, LogAndReturn, OthersLog
<1>3. CASE Restart \/ LogAltered
  BY <1>3 DEF Restart, LogAltered, Next
<1>4. CASE UNCHANGED vars
  BY <1>4
<1> QED
  BY <1>2, <1>3, <1>4
     DEF AccessNext, accessVars, Admit, CheckRoot, Check, CheckedAll, Put, Delete,
         RemovePolicy, Use, Look, OthersChange

(* The invariant of the log in every run of requests. *)
LEMMA LogInvariant == AccessSpec => []AuditInv
<1>1. AccessInit => Init
  BY DEF AccessInit
<1> QED
  BY <1>1, AuditInitInv, AuditInvNext, AccessUsesAudit, PTL DEF AccessSpec

(* Types of the log: every entry, altered or not, is chained to a hash, and no
   alteration makes longer chains than the entries logged and lists loaded. *)
THEOREM LogTypes == AccessSpec => []TypeOK
<1>1. AuditInv => TypeOK
  <2> SUFFICES ASSUME AuditInv PROVE TypeOK
    OBVIOUS
  <2> DEFINE max == MaxEntries + MaxLoads
  <2>1. /\ Len(entries) \in Nat /\ loads \in Nat /\ max \in Nat
        /\ Len(entries) + loads \in Nat /\ Len(entries) + loads <= max
        /\ entries \in Seq(EntriesTo(Len(entries) + loads))
    BY BoundsAssumption DEF AuditInv, LogInv
  <2> HIDE DEF max
  <2>2. entries \in Seq(EntriesTo(max))
    BY <2>1, EntriesGrow
  <2>3. Range(entries) \subseteq [content : Contents, prev : Hashes[max], hash : Hashes[max]]
    <3>1. Range(entries) \subseteq EntriesTo(max)
      BY <2>2 DEF Range
    <3> QED
      BY <3>1 DEF EntriesTo
  <2>4. PICK f : IsChain(f, noted.says) /\ noted.hash = f[Len(noted.says)]
    BY DEF AuditInv, NotedInv
  <2>5. /\ noted.says \in Seq(Contents) /\ Len(noted.says) \in Nat
        /\ Len(noted.says) <= max
    BY BoundsAssumption DEF AuditInv, NotedInv, max
  <2>6. \A i \in 0 .. Len(noted.says) : f[i] \in Hashes[max]
    BY <2>1, <2>4, <2>5, ChainHashes
  <2>7. noted.hash \in Hashes[max]
    BY <2>4, <2>5, <2>6
  <2> QED
    BY <2>3, <2>7 DEF TypeOK, AuditInv, LogInv, max
<1> QED
  BY <1>1, LogInvariant, PTL

(* "Tampering with any entry breaks the chain", for any number of entries and
   alterations: a list that verifies and contains the hash that was noted says,
   up to there, what it said when it was noted. *)
THEOREM TamperingShows == AccessSpec => []TamperEvident
<1>1. AuditInv => TamperEvident
  <2> SUFFICES ASSUME AuditInv, BrokenAt(entries) = 0,
                      NEW i \in 1 .. Len(entries), entries[i].hash = noted.hash
               PROVE  SubSeq(Says(entries), 1, i) = noted.says
    BY DEF TamperEvident
  <2>1. /\ Len(entries) \in Nat /\ loads \in Nat /\ Len(entries) + loads \in Nat
        /\ Len(entries) <= MaxEntries + MaxLoads
        /\ entries \in Seq(EntriesTo(Len(entries) + loads))
    BY BoundsAssumption DEF AuditInv, LogInv
  <2>2. PICK says, f : /\ says = Says(entries) /\ f = HashesOf(entries)
    OBVIOUS
  <2>3. says \in Seq(Contents) /\ Len(says) = Len(entries) /\ IsChain(f, says)
    BY <2>1, <2>2, ValidIsChain
  <2>4. f[i] = noted.hash
    BY <2>1, <2>2 DEF HashesOf
  <2>5. PICK said, g : said = noted.says /\ IsChain(g, said) /\ noted.hash = g[Len(said)]
    BY DEF AuditInv, NotedInv
  <2>6. said \in Seq(Contents) /\ Len(said) \in Nat /\ Len(said) <= MaxEntries + MaxLoads
    BY <2>5, BoundsAssumption DEF AuditInv, NotedInv
  <2>7. i = Len(said) /\ \A k \in 1 .. i : says[k] = said[k]
    BY <2>1, <2>3, <2>4, <2>5, <2>6, ChainsMeet
  <2>8. /\ SubSeq(says, 1, i) \in Seq(Contents) /\ Len(SubSeq(says, 1, i)) = i
        /\ \A k \in 1 .. i : SubSeq(says, 1, i)[k] = says[k]
    BY <2>1, <2>3
  <2>9. SubSeq(says, 1, i) = said
    BY <2>6, <2>7, <2>8
  <2> QED
    BY <2>2, <2>5, <2>9
<1> QED
  BY <1>1, LogInvariant, PTL

(* Logging neither heals a broken chain nor hides where it breaks, whatever the
   list was altered to: verify_chain answers as before. *)
THEOREM LogHidesNothing == AccessSpec => LogKeepsVerdict
<1> DEFINE Kept == \A c \in Contents : Log(c) => BrokenAt(entries') = BrokenAt(entries)
<1>1. AuditInv => Kept
  <2> SUFFICES ASSUME AuditInv, NEW c \in Contents, Log(c)
               PROVE  BrokenAt(entries') = BrokenAt(entries)
    OBVIOUS
  <2>1. PICK old, new : old = entries /\ new = entries'
    OBVIOUS
  <2>2. PICK n \in Nat : old \in Seq(EntriesTo(n))
    <3>1. Len(entries) + loads \in Nat /\ entries \in Seq(EntriesTo(Len(entries) + loads))
      BY BoundsAssumption DEF AuditInv, LogInv
    <3> QED
      BY <2>1, <3>1
  <2> DEFINE last == Entry(c, PrevOf(old, Len(old) + 1))
  <2>3. new = Append(old, last)
    BY <2>1 DEF Log, Logged
  <2>4. /\ last.prev = PrevOf(old, Len(old) + 1)
        /\ last.hash = Hash(last.content, PrevOf(old, Len(old) + 1))
    BY DEF Entry
  <2> HIDE DEF last
  <2>5. /\ Len(old) \in Nat /\ Len(new) = Len(old) + 1
        /\ \A i \in 1 .. Len(old) : new[i] = old[i]
        /\ new[Len(old) + 1] = last
    BY <2>2, <2>3
  <2>6. \A i \in 1 .. Len(old) + 1 : PrevOf(new, i) = PrevOf(old, i)
    BY <2>5 DEF PrevOf
  <2>7. \A i \in 1 .. Len(old) : Invalid(new, i) <=> Invalid(old, i)
    BY <2>5, <2>6 DEF Invalid
  <2>8. ~Invalid(new, Len(old) + 1)
    BY <2>4, <2>5, <2>6 DEF Invalid
  <2>9. {i \in 1 .. Len(new) : Invalid(new, i)} = {i \in 1 .. Len(old) : Invalid(old, i)}
    BY <2>5, <2>7, <2>8
  <2>10. BrokenAt(new) = BrokenAt(old)
    BY <2>9 DEF BrokenAt
  <2> QED
    BY <2>1, <2>10
<1> QED
  BY <1>1, LogInvariant, PTL DEF LogKeepsVerdict

-----------------------------------------------------------------------------
(***************************************************************************)
(* What patterns cover.                                                    *)
(***************************************************************************)
(* fnmatch: where in the path one may stand after each segment of a pattern. *)
LEMMA FnmatchSteps ==
    ASSUME NEW pattern, NEW n \in Nat, DOMAIN pattern = 1 .. n,
           NEW path, Len(path) \in Nat
    PROVE  \E at \in [0 .. n -> SUBSET (0 .. Len(path))] :
              /\ at[0] = {0}
              /\ \A k \in 1 .. n : at[k] = Behind(at[k - 1], pattern[k], path)
              /\ Fnmatch(pattern, path) <=> Len(path) \in at[n]
<1> DEFINE D == SUBSET (0 .. Len(path))
           F == [x \in D \X (1 .. n) |-> Behind(x[1], pattern[x[2]], path)]
           P == DOMAIN pattern
           iter == CHOOSE g : g = [s \in SUBSET P |->
                     IF s = {} THEN {0} ELSE Behind(g[s \ {Max(s)}], pattern[Max(s)], path)]
<1>1. Fnmatch(pattern, path) <=> Len(path) \in iter[P]
  BY DEF Fnmatch, FoldLeft, MapThenFoldSet
<1>2. \A at, s : Behind(at, s, path) \in D
  BY DEF Behind
<1>3. \A x \in D, k \in 1 .. n : F[<<x, k>>] = Behind(x, pattern[k], path)
  OBVIOUS
<1>4. {0} \in D
  OBVIOUS
<1> HIDE DEF F, D
<1>5. \A x \in D, k \in 1 .. n : F[<<x, k>>] \in D
  BY <1>2, <1>3
<1>6. PICK g : Folds(g, F, {0}, D, n)
  BY <1>4, <1>5, FoldExists
<1>7. ASSUME NEW f, NEW s \in SUBSET (1 .. n), s # {}, f[s \ {Max(s)}] \in D
      PROVE  F[<<f[s \ {Max(s)}], Max(s)>>] = Behind(f[s \ {Max(s)}], pattern[Max(s)], path)
  <2>1. Max(s) \in 1 .. n
    BY <1>7, MaxOf
  <2> QED
    BY <1>3, <1>7, <2>1
<1>8. \E h : h = [s \in SUBSET P |->
             IF s = {} THEN {0} ELSE Behind(h[s \ {Max(s)}], pattern[Max(s)], path)]
  <2> DEFINE h == [s \in SUBSET P |-> g[s]]
  <2>1. ASSUME NEW s \in SUBSET P
        PROVE  h[s] = IF s = {} THEN {0} ELSE Behind(h[s \ {Max(s)}], pattern[Max(s)], path)
    <3>1. s \ {Max(s)} \in SUBSET P /\ s \in SUBSET (1 .. n)
      OBVIOUS
    <3>2. /\ g[s] = IF s = {} THEN {0} ELSE F[<<g[s \ {Max(s)}], Max(s)>>]
          /\ g[s \ {Max(s)}] \in D
      BY <1>6, <3>1 DEF Folds
    <3> QED
      BY <1>7, <3>1, <3>2
  <2>2. h = [s \in SUBSET P |->
               IF s = {} THEN {0} ELSE Behind(h[s \ {Max(s)}], pattern[Max(s)], path)]
    BY <2>1
  <2> HIDE DEF h
  <2> QED
    BY <2>2
<1>9. iter = [s \in SUBSET P |->
                IF s = {} THEN {0} ELSE Behind(iter[s \ {Max(s)}], pattern[Max(s)], path)]
  BY <1>8, Zenon
<1> HIDE DEF iter
<1>10. \A s \in SUBSET (1 .. n) : iter[s] \in D
  BY <1>2, <1>4, <1>9
<1>11. Folds(iter, F, {0}, D, n)
  <2>1. DOMAIN iter = SUBSET (1 .. n)
    BY <1>9
  <2>2. ASSUME NEW s \in SUBSET (1 .. n)
        PROVE  iter[s] = IF s = {} THEN {0} ELSE F[<<iter[s \ {Max(s)}], Max(s)>>]
    <3>1. s \ {Max(s)} \in SUBSET (1 .. n)
      OBVIOUS
    <3> QED
      BY <1>7, <1>9, <1>10, <3>1
  <2> QED
    BY <1>10, <2>1, <2>2 DEF Folds
<1>12. PICK at : Walks(at, F, {0}, D, n) /\ at[n] = iter[1 .. n]
  BY <1>11, FoldSteps
<1>13. ASSUME NEW k \in 1 .. n PROVE at[k] = Behind(at[k - 1], pattern[k], path)
  <2>1. k - 1 \in 0 .. n /\ at[k - 1] \in D
    BY <1>12 DEF Walks
  <2> QED
    BY <1>3, <1>12, <2>1 DEF Walks
<1>14. at \in [0 .. n -> D] /\ at[0] = {0}
  BY <1>12 DEF Walks
<1> QED
  BY <1>1, <1>12, <1>13, <1>14 DEF D

(* replace("/**", ""): what is left of a pattern after each segment. *)
LEMMA BaseSteps ==
    ASSUME NEW S, NEW pattern \in Seq(S), pattern # << >>
    PROVE  \E at \in [0 .. Len(pattern) - 1 -> Seq(S)] :
              /\ at[0] = <<pattern[1]>>
              /\ \A k \in 1 .. Len(pattern) - 1 : at[k] = Shorten(at[k - 1], pattern[k + 1])
              /\ Base(pattern) = at[Len(pattern) - 1]
<1> DEFINE n == Len(pattern) - 1
           D == Seq(S)
           base == <<Head(pattern)>>
           tail == Tail(pattern)
           P == DOMAIN tail
           F == [x \in D \X (1 .. n) |-> Shorten(x[1], tail[x[2]])]
           iter == CHOOSE g : g = [s \in SUBSET P |->
                     IF s = {} THEN base ELSE Shorten(g[s \ {Max(s)}], tail[Max(s)])]
<1>1. Base(pattern) = iter[P]
  BY DEF Base, FoldLeft, MapThenFoldSet
<1>2. /\ n \in Nat /\ P = 1 .. n
      /\ base = <<pattern[1]>> /\ base \in D
      /\ \A k \in 1 .. n : tail[k] = pattern[k + 1] /\ tail[k] \in S
  OBVIOUS
<1>3. \A x \in D, s \in S : Shorten(x, s) \in D
  BY DEF Shorten
<1>4. \A x \in D, k \in 1 .. n : F[<<x, k>>] = Shorten(x, tail[k])
  OBVIOUS
<1> HIDE DEF F, D, base, tail, n
<1>5. \A x \in D, k \in 1 .. n : F[<<x, k>>] \in D
  BY <1>2, <1>3, <1>4
<1>6. PICK g : Folds(g, F, base, D, n)
  BY <1>2, <1>5, FoldExists
<1>7. ASSUME NEW f, NEW s \in SUBSET (1 .. n), s # {}, f[s \ {Max(s)}] \in D
      PROVE  F[<<f[s \ {Max(s)}], Max(s)>>] = Shorten(f[s \ {Max(s)}], tail[Max(s)])
  <2>1. Max(s) \in 1 .. n
    BY <1>2, <1>7, MaxOf
  <2> QED
    BY <1>2, <1>3, <1>4, <1>7, <2>1
<1>8. \E h : h = [s \in SUBSET P |->
             IF s = {} THEN base ELSE Shorten(h[s \ {Max(s)}], tail[Max(s)])]
  <2> DEFINE h == [s \in SUBSET P |-> g[s]]
  <2>1. ASSUME NEW s \in SUBSET P
        PROVE  h[s] = IF s = {} THEN base ELSE Shorten(h[s \ {Max(s)}], tail[Max(s)])
    <3>1. s \ {Max(s)} \in SUBSET P /\ s \in SUBSET (1 .. n)
      BY <1>2
    <3>2. /\ g[s] = IF s = {} THEN base ELSE F[<<g[s \ {Max(s)}], Max(s)>>]
          /\ g[s \ {Max(s)}] \in D
      BY <1>2, <1>6, <3>1 DEF Folds
    <3> QED
      BY <1>7, <3>1, <3>2
  <2>2. h = [s \in SUBSET P |->
               IF s = {} THEN base ELSE Shorten(h[s \ {Max(s)}], tail[Max(s)])]
    BY <2>1
  <2> HIDE DEF h
  <2> QED
    BY <2>2
<1>9. iter = [s \in SUBSET P |->
                IF s = {} THEN base ELSE Shorten(iter[s \ {Max(s)}], tail[Max(s)])]
  BY <1>8, Zenon
<1> HIDE DEF iter
<1> HIDE DEF P
<1>10. Folds(iter, F, base, D, n)
  <2>1. /\ DOMAIN iter = SUBSET (1 .. n)
        /\ \A s \in SUBSET (1 .. n) :
              iter[s] = IF s = {} THEN base ELSE Shorten(iter[s \ {Max(s)}], tail[Max(s)])
    BY <1>2, <1>9
  <2>2. \A s \in SUBSET (1 .. n) :
           /\ s = {} => iter[s] = base
           /\ s # {} /\ iter[s \ {Max(s)}] \in D =>
                iter[s] = F[<<iter[s \ {Max(s)}], Max(s)>>]
    BY <1>7, <2>1
  <2> QED
    BY <1>2, <1>5, <2>1, <2>2, FoldTyped
<1>11. PICK at : Walks(at, F, base, D, n) /\ at[n] = iter[1 .. n]
  BY <1>2, <1>10, FoldSteps
<1>12. ASSUME NEW k \in 1 .. n PROVE at[k] = Shorten(at[k - 1], pattern[k + 1])
  <2>1. k - 1 \in 0 .. n /\ at[k - 1] \in D
    BY <1>2, <1>11 DEF Walks
  <2> QED
    BY <1>2, <1>4, <1>11, <2>1 DEF Walks
<1>13. at \in [0 .. n -> D] /\ at[0] = base
  BY <1>11 DEF Walks
<1> QED
  BY <1>1, <1>2, <1>11, <1>12, <1>13 DEF D, n

-----------------------------------------------------------------------------
(* fnmatch covers what is documented, for patterns and paths of any length:
   after each segment one may stand where the segment's share ends. *)
LEMMA DocumentedMatches ==
    ASSUME NEW pattern \in Seq(Segments), NEW path \in Seq(Segments),
           MeantToMatch(pattern, path)
    PROVE  PathMatches(pattern, path)
<1> DEFINE n == Len(pattern)
<1>1. n \in Nat /\ DOMAIN pattern = 1 .. n /\ Len(path) \in Nat
  OBVIOUS
<1>2. CASE pattern = <<Star>>
  BY <1>2 DEF PathMatches
<1>3. CASE pattern # <<Star>>
  <2>1. PICK ends \in Shares(pattern, path) :
           \A k \in 1 .. n :
              \/ pattern[k] = StarStar
              \/ /\ ends[k] = ends[k - 1] + 1
                 /\ pattern[k] \in {Star, path[ends[k]]}
    BY <1>3 DEF MeantToMatch
  <2>2. /\ ends \in [0 .. n -> 0 .. Len(path)]
        /\ ends[0] = 0 /\ ends[n] = Len(path)
        /\ \A k \in 1 .. n : ends[k - 1] < ends[k]
    BY DEF Shares
  <2>3. PICK at \in [0 .. n -> SUBSET (0 .. Len(path))] :
           /\ at[0] = {0}
           /\ \A k \in 1 .. n : at[k] = Behind(at[k - 1], pattern[k], path)
           /\ Fnmatch(pattern, path) <=> Len(path) \in at[n]
    BY <1>1, FnmatchSteps
  <2> DEFINE S == {k \in Nat : k <= n => ends[k] \in at[k]}
  <2> HIDE DEF n
  <2>4. 0 \in S
    BY <2>2, <2>3
  <2>5. ASSUME NEW k \in Nat, k \in S PROVE k + 1 \in S
    <3> SUFFICES ASSUME k + 1 <= n PROVE ends[k + 1] \in at[k + 1]
      OBVIOUS
    <3> DEFINE j == ends[k + 1]
               segment == pattern[k + 1]
    <3>1. k + 1 \in 1 .. n /\ (k + 1) - 1 = k /\ k \in 0 .. n /\ k + 1 \in 0 .. n
      BY <1>1
    <3>2. /\ ends[k] \in 0 .. Len(path) /\ j \in 0 .. Len(path) /\ ends[k] < j
          /\ ends[k] \in at[k]
      BY <2>2, <2>5, <3>1
    <3>3. \/ segment = StarStar
          \/ j = ends[k] + 1 /\ segment \in {Star, path[j]}
      BY <2>1, <3>1 DEF n
    <3>4. at[k + 1] = Behind(at[k], segment, path)
      BY <2>3, <3>1
    <3> HIDE DEF j, segment
    <3>5. j \in 1 .. Len(path)
      BY <1>1, <3>2
    <3>6. CASE segment \in Wildcards
      BY <3>2, <3>4, <3>5, <3>6 DEF Behind, j
    <3>7. CASE segment \notin Wildcards
      <4>1. j - 1 = ends[k] /\ path[j] = segment
        BY <3>2, <3>3, <3>7 DEF Wildcards
      <4> QED
        BY <3>2, <3>4, <3>5, <3>7, <4>1 DEF Behind, j
    <3> QED
      BY <3>6, <3>7
  <2>6. Nat \subseteq S
    <3> HIDE DEF S
    <3> QED
      BY <2>4, <2>5, Induction
  <2>7. Len(path) \in at[n]
    BY <1>1, <2>2, <2>6
  <2> QED
    BY <2>3, <2>7 DEF PathMatches
<1> QED
  BY <1>2, <1>3

(* The segments of the literal beginning are no wildcards. *)
LEMMA LiteralPrefixIs ==
    ASSUME NEW pattern \in Seq(Segments)
    PROVE  \E l \in 0 .. Len(pattern) :
              /\ LiteralPrefix(pattern) = SubSeq(pattern, 1, l)
              /\ \A k \in 1 .. l : pattern[k] \notin Wildcards
<1> DEFINE wild == {k \in 1 .. Len(pattern) : pattern[k] \in Wildcards}
           l == IF wild = {} THEN Len(pattern) ELSE Min(wild) - 1
<1>1. LiteralPrefix(pattern) = SubSeq(pattern, 1, l)
  BY DEF LiteralPrefix
<1>2. ASSUME wild # {} PROVE Min(wild) \in wild /\ \A y \in wild : Min(wild) <= y
  <2>1. wild \subseteq Nat
    OBVIOUS
  <2> HIDE DEF wild
  <2>2. PICK x \in wild : \A y \in wild : ~(y < x)
    BY <1>2, <2>1, LeastElement
  <2>3. \A y \in wild : x <= y
    BY <2>1, <2>2
  <2> QED
    BY <2>3 DEF Min
<1>3. l \in 0 .. Len(pattern) /\ \A k \in 1 .. l : k \notin wild
  <2>1. CASE wild = {}
    BY <2>1
  <2>2. CASE wild # {}
    <3>1. Min(wild) \in 1 .. Len(pattern) /\ \A y \in wild : Min(wild) <= y
      BY <1>2, <2>2
    <3> HIDE DEF wild
    <3> QED
      BY <2>2, <3>1
  <2> QED
    BY <2>1, <2>2
<1>4. \A k \in 1 .. l : pattern[k] \notin Wildcards
  <2>1. \A k \in 1 .. l : k \in 1 .. Len(pattern)
    <3> HIDE DEF l
    <3> QED
      BY <1>3
  <2> QED
    BY <1>3, <2>1
<1> HIDE DEF l
<1> QED
  BY <1>1, <1>3, <1>4

(* A path that fnmatch lets pass begins with the pattern's literal beginning:
   there is but one place to stand, until the first wildcard. *)
LEMMA FnmatchConfined ==
    ASSUME NEW pattern \in Seq(Segments), NEW path \in Seq(Segments),
           NEW l \in 0 .. Len(pattern), \A k \in 1 .. l : pattern[k] \notin Wildcards
    PROVE  Fnmatch(pattern, path) =>
             l <= Len(path) /\ \A k \in 1 .. l : path[k] = pattern[k]
<1> DEFINE n == Len(pattern)
<1>1. n \in Nat /\ DOMAIN pattern = 1 .. n /\ Len(path) \in Nat /\ l \in 0 .. n
  OBVIOUS
<1>2. PICK at \in [0 .. n -> SUBSET (0 .. Len(path))] :
         /\ at[0] = {0}
         /\ \A k \in 1 .. n : at[k] = Behind(at[k - 1], pattern[k], path)
         /\ Fnmatch(pattern, path) <=> Len(path) \in at[n]
  BY <1>1, FnmatchSteps
<1> SUFFICES ASSUME Len(path) \in at[n]
             PROVE  l <= Len(path) /\ \A k \in 1 .. l : path[k] = pattern[k]
  BY <1>2
<1> HIDE DEF n
<1> DEFINE S == {i \in Nat : i <= n => at[n - i] # {}}
<1>3. 0 \in S
  BY <1>1, <1>2
<1>4. ASSUME NEW i \in Nat, i \in S PROVE i + 1 \in S
  <2> SUFFICES ASSUME i + 1 <= n PROVE at[n - (i + 1)] # {}
    OBVIOUS
  <2>1. n - i \in 1 .. n /\ (n - i) - 1 = n - (i + 1) /\ at[n - i] # {}
    BY <1>1, <1>4
  <2>2. at[n - i] = Behind(at[n - (i + 1)], pattern[n - i], path)
    BY <1>2, <2>1
  <2> QED
    BY <2>1, <2>2 DEF Behind
<1>5. at[l] # {}
  <2>1. Nat \subseteq S
    <3> HIDE DEF S
    <3> QED
      BY <1>3, <1>4, Induction
  <2>2. n - l \in Nat /\ n - l <= n /\ n - (n - l) = l
    BY <1>1
  <2> QED
    BY <2>1, <2>2
<1> DEFINE Along(k) ==
             at[k] # {} => /\ at[k] \subseteq {k}
                           /\ k <= Len(path)
                           /\ \A i \in 1 .. k : path[i] = pattern[i]
           R == {k \in Nat : k <= l => Along(k)}
<1>6. 0 \in R
  BY <1>1, <1>2
<1>7. ASSUME NEW k \in Nat, k \in R PROVE k + 1 \in R
  <2> HIDE DEF Along
  <2> SUFFICES ASSUME k + 1 <= l PROVE Along(k + 1)
    OBVIOUS
  <2> SUFFICES ASSUME at[k + 1] # {}
               PROVE  /\ at[k + 1] \subseteq {k + 1}
                      /\ k + 1 <= Len(path)
                      /\ \A i \in 1 .. k + 1 : path[i] = pattern[i]
    BY DEF Along
  <2>1. k + 1 \in 1 .. n /\ (k + 1) - 1 = k /\ k + 1 \in 1 .. l
    BY <1>1
  <2>2. at[k + 1] = {j \in 1 .. Len(path) : j - 1 \in at[k] /\ path[j] = pattern[k + 1]}
    BY <1>2, <2>1 DEF Behind
  <2>3. PICK j \in at[k + 1] : TRUE
    OBVIOUS
  <2>4. at[k] # {}
    BY <2>2, <2>3
  <2>5. at[k] \subseteq {k} /\ \A i \in 1 .. k : path[i] = pattern[i]
    BY <1>1, <1>7, <2>4 DEF Along
  <2>6. \A i \in at[k + 1] : i \in 1 .. Len(path) /\ i = k + 1 /\ path[i] = pattern[k + 1]
    BY <2>2, <2>5
  <2>7. k + 1 \in 1 .. Len(path) /\ path[k + 1] = pattern[k + 1]
    BY <2>3, <2>6
  <2>8. at[k + 1] \subseteq {k + 1}
    BY <2>6
  <2>9. \A i \in 1 .. k + 1 : i \in 1 .. k \/ i = k + 1
    OBVIOUS
  <2>10. \A i \in 1 .. k + 1 : path[i] = pattern[i]
    BY <2>5, <2>7, <2>9
  <2> QED
    BY <1>1, <2>7, <2>8, <2>10
<1>8. Nat \subseteq R
  <2> HIDE DEF R
  <2> QED
    BY <1>6, <1>7, Induction
<1>9. Along(l)
  <2> HIDE DEF Along
  <2> QED
    BY <1>1, <1>8
<1> QED
  BY <1>5, <1>9

(* What replace leaves of a pattern has the same literal beginning. *)
LEMMA BaseConfined ==
    ASSUME NEW pattern \in Seq(Segments), pattern # << >>,
           NEW l \in 1 .. Len(pattern), \A k \in 1 .. l : pattern[k] \notin Wildcards
    PROVE  /\ Base(pattern) \in Seq(Segments)
           /\ l <= Len(Base(pattern))
           /\ \A k \in 1 .. l : Base(pattern)[k] = pattern[k]
<1> DEFINE n == Len(pattern) - 1
<1>1. /\ n \in Nat /\ l \in 1 .. n + 1
      /\ \A k \in 1 .. n + 1 : pattern[k] \in Segments
  OBVIOUS
<1>2. PICK at \in [0 .. n -> Seq(Segments)] :
         /\ at[0] = <<pattern[1]>>
         /\ \A k \in 1 .. n : at[k] = Shorten(at[k - 1], pattern[k + 1])
         /\ Base(pattern) = at[n]
  BY BaseSteps
<1> HIDE DEF n
<1> DEFINE Along(k) ==
             /\ k + 1 <= l => Len(at[k]) = k + 1
             /\ l <= k + 1 => l <= Len(at[k])
             /\ \A i \in 1 .. l : i <= k + 1 => at[k][i] = pattern[i]
           S == {k \in Nat : k <= n => Along(k)}
<1>3. 0 \in S
  <2>1. PICK a, s : a = at[0] /\ s = pattern[1]
    OBVIOUS
  <2>2. a = <<s>>
    BY <1>2, <2>1
  <2>3. Len(a) = 1 /\ a[1] = s
    BY <2>2
  <2>4. \A i \in 1 .. l : i <= 1 => i = 1
    BY <1>1
  <2>5. \A i \in 1 .. l : i <= 1 => at[0][i] = pattern[i]
    BY <2>1, <2>3, <2>4
  <2>6. Along(0)
    BY <1>1, <2>1, <2>3, <2>5
  <2> HIDE DEF Along
  <2> QED
    BY <2>6
<1>4. ASSUME NEW k \in Nat, k \in S PROVE k + 1 \in S
  <2> SUFFICES ASSUME k + 1 <= n PROVE Along(k + 1)
    OBVIOUS
  <2>1. PICK old, new, s : old = at[k] /\ new = at[k + 1] /\ s = pattern[k + 2]
    OBVIOUS
  <2>2. /\ k + 1 \in 1 .. n /\ (k + 1) - 1 = k /\ (k + 1) + 1 = k + 2
        /\ k \in 0 .. n /\ k + 2 \in 1 .. n + 1
    BY <1>1
  <2>3. new = Shorten(old, s) /\ old \in Seq(Segments) /\ s \in Segments
    BY <1>1, <1>2, <2>1, <2>2
  <2>4. /\ k + 1 <= l => Len(old) = k + 1
        /\ l <= k + 1 => l <= Len(old)
        /\ \A i \in 1 .. l : i <= k + 1 => old[i] = pattern[i]
    BY <1>4, <2>1, <2>2
  <2>5. k + 2 <= l => new = Append(old, s)
    BY <1>1, <2>1, <2>2, <2>3 DEF Shorten, Wildcards
  <2>6. /\ Len(new) \in {Len(old), Len(old) + 1} /\ Len(old) \in Nat
        /\ \A i \in 1 .. Len(old) : new[i] = old[i]
        /\ new = Append(old, s) => Len(new) = Len(old) + 1 /\ new[Len(old) + 1] = s
    BY <2>3 DEF Shorten
  <2>7. k + 2 <= l => Len(new) = k + 2
    BY <1>1, <2>4, <2>5, <2>6
  <2>8. l <= k + 2 => l <= Len(new)
    BY <1>1, <2>4, <2>6, <2>7
  <2>9. ASSUME NEW i \in 1 .. l, i <= k + 2 PROVE new[i] = pattern[i]
    <3>1. CASE i <= k + 1
      <4>1. i \in 1 .. Len(old)
        BY <1>1, <2>4, <2>6, <3>1
      <4> QED
        BY <2>4, <2>6, <3>1, <4>1
    <3>2. CASE i = k + 2
      <4>1. k + 2 <= l /\ Len(old) = k + 1
        BY <1>1, <2>4, <3>2
      <4> QED
        BY <2>1, <2>5, <2>6, <3>2, <4>1
    <3> QED
      BY <1>1, <2>9, <3>1, <3>2
  <2> QED
    BY <2>1, <2>2, <2>7, <2>8, <2>9
<1>5. Nat \subseteq S
  <2> HIDE DEF S
  <2> QED
    BY <1>3, <1>4, Induction
<1>6. Along(n)
  BY <1>1, <1>5
<1> QED
  BY <1>1, <1>2, <1>6

(* No pattern covers a path outside its literal beginning. *)
LEMMA MatchesConfined ==
    ASSUME NEW pattern \in Seq(Segments), pattern # << >>, NEW path \in Seq(Segments),
           PathMatches(pattern, path)
    PROVE  IsPrefix(LiteralPrefix(pattern), path)
<1>1. Len(path) \in Nat /\ Len(pattern) \in Nat
  OBVIOUS
<1>3. PICK l \in 0 .. Len(pattern) :
         /\ LiteralPrefix(pattern) = SubSeq(pattern, 1, l)
         /\ \A k \in 1 .. l : pattern[k] \notin Wildcards
  BY <1>1, LiteralPrefixIs
<1>4. l <= Len(path) /\ \A k \in 1 .. l : path[k] = pattern[k]
  <2>1. CASE l = 0
    BY <1>1, <2>1
  <2>2. CASE l # 0 /\ Fnmatch(pattern, path)
    BY <1>1, <1>3, <2>2, FnmatchConfined
  <2>3. CASE l # 0 /\ pattern = <<Star>>
    <3>1. Len(pattern) = 1 /\ pattern[1] = Star /\ 1 \in 1 .. l
      BY <1>1, <2>3
    <3> QED
      BY <1>3, <3>1 DEF Wildcards
  <2>4. CASE l # 0 /\ AtOrBelow(Base(pattern), path)
    <3>1. l \in 1 .. Len(pattern)
      BY <1>1, <2>4
    <3>2. PICK base : base = Base(pattern)
      OBVIOUS
    <3>3. /\ base \in Seq(Segments) /\ l <= Len(base) /\ Len(base) \in Nat
          /\ \A k \in 1 .. l : base[k] = pattern[k]
      BY <1>1, <1>3, <3>1, <3>2, BaseConfined
    <3>4. /\ Len(base) <= Len(path)
          /\ SubSeq(base, 1, Len(base)) = SubSeq(path, 1, Len(base))
      BY <2>4, <3>2 DEF AtOrBelow, IsPrefix
    <3>5. \A k \in 1 .. Len(base) : base[k] = path[k]
      <4>1. \A k \in 1 .. Len(base) : SubSeq(base, 1, Len(base))[k] = base[k]
        BY <3>3
      <4>2. \A k \in 1 .. Len(base) : SubSeq(path, 1, Len(base))[k] = path[k]
        BY <1>1, <3>3, <3>4
      <4> QED
        BY <3>4, <4>1, <4>2
    <3> QED
      BY <1>1, <3>3, <3>4, <3>5
  <2> QED
    BY <2>1, <2>2, <2>3, <2>4 DEF PathMatches
<1>5. PICK a : a = SubSeq(pattern, 1, l)
  OBVIOUS
<1>6. /\ a \in Seq(Segments) /\ Len(a) = l
      /\ \A k \in 1 .. l : a[k] = pattern[k]
  BY <1>1, <1>5
<1>7. SubSeq(a, 1, l) = SubSeq(path, 1, l)
  <2>1. /\ SubSeq(a, 1, l) \in Seq(Segments) /\ Len(SubSeq(a, 1, l)) = l
        /\ \A k \in 1 .. l : SubSeq(a, 1, l)[k] = a[k]
    BY <1>6
  <2>2. /\ SubSeq(path, 1, l) \in Seq(Segments) /\ Len(SubSeq(path, 1, l)) = l
        /\ \A k \in 1 .. l : SubSeq(path, 1, l)[k] = path[k]
    BY <1>1, <1>4
  <2> QED
    BY <1>4, <1>6, <2>1, <2>2
<1> QED
  BY <1>3, <1>4, <1>5, <1>6, <1>7 DEF IsPrefix

-----------------------------------------------------------------------------
(* Every policy in place is built in, or one that some request may put. *)
StoredInv ==
    \A n \in Names : policies[n] = Absent \/ policies[n] \in PutRules \cup {Default, Root}

(* One name changes, to such a policy or to none. *)
LEMMA ChangeKeepsStored ==
    ASSUME StoredInv, NEW name \in Names, NEW rules,
           rules = Absent \/ rules \in PutRules,
           policies' = [policies EXCEPT ![name] = rules]
    PROVE  StoredInv'
<1>1. \A n \in Names : policies'[n] \in {policies[n], rules}
  OBVIOUS
<1> QED
  BY <1>1 DEF StoredInv

LEMMA StoredNext ==
    ASSUME AccessInv, StoredInv, [AccessNext]_accessVars
    PROVE  StoredInv'
<1>1. CASE Put
  <2>1. /\ request.what \in Requests /\ request.what.op = "put"
    BY <1>1 DEF Put, At, AccessInv, AccessTypeOK, RequestStates
  <2>2. request.what.name \in Names /\ request.what.rules \in PutRules
    BY <2>1, RequestsAssumption
  <2>3. CASE policies' = policies
    BY <2>3 DEF StoredInv
  <2>4. CASE policies' = [policies EXCEPT ![request.what.name] = request.what.rules]
    BY <2>2, <2>4, ChangeKeepsStored
  <2> QED
    BY <1>1, <2>3, <2>4 DEF Put, Changes
<1>2. CASE RemovePolicy
  <2>1. /\ request.what \in Requests /\ request.what.op = "delete"
    BY <1>2 DEF RemovePolicy, At, AccessInv, AccessTypeOK, HistoryOK, RequestStates
  <2>2. request.what.name \in Names
    BY <2>1, RequestsAssumption
  <2>3. CASE policies' = policies
    BY <2>3 DEF StoredInv
  <2>4. CASE policies' = [policies EXCEPT ![request.what.name] = Absent]
    BY <2>2, <2>4, ChangeKeepsStored
  <2> QED
    BY <1>2, <2>3, <2>4 DEF RemovePolicy, Changes
<1>3. ASSUME NEW c \in Others, OthersChange(c[1], c[2])
      PROVE  StoredInv'
  <2>1. c[1] \in Names /\ (c[2] = Absent \/ c[2] \in PutRules)
    BY OthersAssumption
  <2>2. policies' = [policies EXCEPT ![c[1]] = c[2]]
    BY <1>3 DEF OthersChange
  <2> QED
    BY <2>1, <2>2, ChangeKeepsStored
<1>4. CASE Restart
  BY <1>4 DEF Restart, StoredInv, NewPolicies
<1>5. CASE policies' = policies
  BY <1>5 DEF StoredInv
<1> QED
  BY <1>1, <1>2, <1>3, <1>4, <1>5
     DEF AccessNext, Admit, CheckRoot, Check, CheckedAll, Deny, Delete, Use, Look,
         LogAndReturn, OthersLog, LogAltered, accessVars

LEMMA StoredInvariant == AccessSpec => [](AccessInv /\ StoredInv)
<1>1. AccessInit => StoredInv
  BY DEF AccessInit, StoredInv, NewPolicies
<1> QED
  BY <1>1, InitOK, StepOK, StoredNext, PTL DEF AccessSpec

(* A rule in place names a pattern, and not the empty one. *)
LEMMA StoredRules ==
    ASSUME AccessInv, StoredInv, NEW n \in Names, policies[n] # Absent, NEW r \in policies[n]
    PROVE  r.path \in Patterns /\ r.path # << >>
<1>1. policies[n] \in PutRules \cup {Default, Root} /\ ValidPolicy(policies[n])
  BY DEF StoredInv, AccessInv, AccessTypeOK
<1> QED
  BY <1>1, PatternsAssumption DEF ValidPolicy

(* What the tables hold. *)
LEMMA Tables ==
    ASSUME NEW pattern \in Patterns, NEW path \in Paths
    PROVE  /\ Matches[pattern][path] <=> PathMatches(pattern, path)
           /\ Documented[pattern][path] <=> MeantToMatch(pattern, path)
           /\ Confined[pattern][path] <=>
                (Matches[pattern][path] => IsPrefix(LiteralPrefix(pattern), path))
<1>1. Matches[pattern][path] <=> PathMatches(pattern, path)
  BY DEF Matches
<1>2. Documented[pattern][path] <=> MeantToMatch(pattern, path)
  BY DEF Documented
<1>3. Confined[pattern][path] <=>
        (Matches[pattern][path] => IsPrefix(LiteralPrefix(pattern), path))
  BY DEF Confined
<1> QED
  BY <1>1, <1>2, <1>3

(* Whatever policy.py documents a rule to cover, the policy the rule stands in
   grants: no ** or * covers less than its documentation says, in patterns and
   paths of any length. *)
THEOREM GrantsWhatIsMeant == AccessSpec => []GrantsAsDocumented
<1>1. ASSUME AccessInv, StoredInv,
             NEW n \in Names, policies[n] # Absent,
             NEW r \in policies[n], NEW path \in Paths, Documented[r.path][path],
             NEW c \in r.capabilities
      PROVE  Grants(policies[n], path, c)
  <2>1. PICK pattern : pattern = r.path
    OBVIOUS
  <2>2. pattern \in Patterns
    BY <1>1, <2>1, StoredRules
  <2>3. pattern \in Seq(Segments) /\ path \in Seq(Segments)
    BY <2>2, SegmentsAssumption
  <2>4. MeantToMatch(pattern, path)
    BY <1>1, <2>1, <2>2, Tables, Zenon
  <2>5. PathMatches(pattern, path)
    BY <2>3, <2>4, DocumentedMatches, Zenon
  <2>6. Matches[r.path][path]
    BY <2>1, <2>2, <2>5, Tables, Zenon
  <2> QED
    BY <1>1, <2>6, Zenon DEF Grants
<1>2. AccessInv /\ StoredInv => GrantsAsDocumented
  BY <1>1, Zenon DEF GrantsAsDocumented
<1> QED
  BY <1>2, StoredInvariant, PTL

(* No rule covers a path that does not begin as its pattern does: that
   replace("/**", "") takes every ** out and that * crosses slashes lets no
   pattern out of its literal beginning. *)
THEOREM RulesStayBelow == AccessSpec => []RulesConfined
<1>1. ASSUME AccessInv, StoredInv,
             NEW n \in Names, policies[n] # Absent,
             NEW r \in policies[n], NEW path \in Paths
      PROVE  Confined[r.path][path]
  <2>1. PICK pattern : pattern = r.path
    OBVIOUS
  <2>2. pattern \in Patterns /\ pattern # << >>
    BY <1>1, <2>1, StoredRules
  <2>3. pattern \in Seq(Segments) /\ path \in Seq(Segments)
    BY <2>2, SegmentsAssumption
  <2>4. PathMatches(pattern, path) => IsPrefix(LiteralPrefix(pattern), path)
    BY <2>2, <2>3, MatchesConfined, Zenon
  <2>5. Confined[pattern][path]
    BY <2>2, <2>4, Tables, Zenon
  <2> QED
    BY <2>1, <2>5, Zenon
<1>2. AccessInv /\ StoredInv => RulesConfined
  BY <1>1, Zenon DEF RulesConfined
<1> QED
  BY <1>2, StoredInvariant, PTL

=============================================================================
