------------------------------- MODULE Access -------------------------------
(***************************************************************************)
(* A request to the vault from its admission to its reply: the policies of *)
(* its token are looked up one by one, then it acts, then it is logged.    *)
(* PolicyManager has no lock: between any two of these steps the requests  *)
(* of other threads may change policies and log entries.  What those are   *)
(* allowed to do is left open, so any of them may happen at any time.      *)
(*                                                                         *)
(* The log is the one of module Audit, with its alterations; an entry says *)
(* whether it is an "allow" or a "deny".  Policies live in memory only.    *)
(***************************************************************************)
EXTENDS Audit, Policies

CONSTANTS
    Idle,        \* no request is under way
    Callers,     \* tokens: whether they are root, and their policy names
    Names,       \* names of policies
    PutRules,    \* policies that requests put, valid or not
    Requests,    \* what the request may be
    Others       \* the changes that other requests may make: names and rules

ASSUME NamesAssumption == BuiltIn \subseteq Names
ASSUME CallersAssumption ==
    Callers \subseteq [is_root : BOOLEAN, policies : Seq(Names)]
ASSUME RequestsAssumption ==
    /\ Absent \notin PutRules
    /\ Requests \subseteq
          [op : {"put"}, name : Names, rules : PutRules]
          \cup [op : {"delete"}, name : Names]
          \* use: is logged; look: is not (metadata, get_policy, audit_log, ...)
          \cup [op : {"use", "look"}, path : Paths, capability : ValidCapabilities]
ASSUME PatternsAssumption ==
    \A rules \in PutRules \cup {Default, Root} : \A r \in rules : r.path \in Patterns
ASSUME OthersAssumption ==
    Others \subseteq
        (Names \X {rules \in PutRules : ValidPolicy(rules)})
        \cup ((Names \ BuiltIn) \X {Absent})
ASSUME OutcomesAssumption == {"allow", "deny"} \subseteq Contents

VARIABLES
    policies,   \* _policies
    request,    \* Idle, or where the request is and what it carries
    reply       \* the status of the last request, 0 once another has begun

accessVars == <<vars, policies, request, reply>>

-----------------------------------------------------------------------------
(* What put_policy, delete_policy and the other requests authorize. *)
Resource(r) ==
    IF r.op \in {"put", "delete"} THEN <<"sys", "policy", r.name>> ELSE r.path

Capability(r) ==
    CASE r.op = "put" -> "write" [] r.op = "delete" -> "delete" [] OTHER -> r.capability

(* The names on the caller's list whose policies grant the request. *)
Granting(policyOf, caller, r) ==
    {n \in Range(caller.policies) : Grants(policyOf[n], Resource(r), Capability(r))}

(* How api.py answers what a request raises.  VersionNotFoundError goes with
   SecretNotFoundError. *)
Status(exception) ==
    CASE exception = "AuthenticationError" -> 401
      [] exception = "AuthorizationError"  -> 403
      [] exception = "SealedError"         -> 503
      [] exception = "SecretNotFoundError" -> 404
      [] exception \in {"PolicyError", "InitializationError", "CryptoError",
                        "JSONDecodeError"} -> 400
      [] exception = "other"               -> 500

Returns(status) == request' = Idle /\ reply' = status

Raises(exception) == Returns(Status(exception))

Goes(step) == request' = [request EXCEPT !.at = step] /\ UNCHANGED reply

At(step) == request # Idle /\ request.at = step

-----------------------------------------------------------------------------
NewPolicies == [n \in Names |-> CASE n = "default" -> Default
                                  [] n = "root"    -> Root
                                  [] OTHER         -> Absent]

AccessInit ==
    /\ Init
    /\ policies = NewPolicies
    /\ request = Idle
    /\ reply = 0

(* What reads the body and the token of the request, _require_unsealed and
   _authenticate raise or let the request pass. *)
Admit(caller, r) ==
    /\ request = Idle
    /\ \/ /\ request' = [at |-> "authorize", what |-> r, caller |-> caller, i |-> 1,
                         granted |-> Granting(policies, caller, r) # {},
                         steady |-> Granting(policies, caller, r)]
          /\ reply' = 0
       \/ \E e \in {"JSONDecodeError", "InitializationError", "SealedError",
                   "AuthenticationError", "other"} : Raises(e)
    /\ UNCHANGED <<vars, policies>>

(* _authorize: root passes; else one more name of the list is looked up. *)
CheckRoot ==
    /\ At("authorize")
    /\ request.caller.is_root
    /\ Goes("act")
    /\ UNCHANGED <<vars, policies>>

(* Mutated forms of Check: some rule matches the path and some rule has the
   capability; the search ends at a name without a policy. *)
CheckRuleByRule ==
    /\ At("authorize")
    /\ ~request.caller.is_root
    /\ request.i <= Len(request.caller.policies)
    /\ LET rules == policies[request.caller.policies[request.i]] IN
         IF /\ rules # Absent
            /\ \E r \in rules : Matches[r.path][Resource(request.what)]
            /\ \E r \in rules : Capability(request.what) \in r.capabilities
         THEN Goes("act")
         ELSE request' = [request EXCEPT !.i = @ + 1] /\ UNCHANGED reply
    /\ UNCHANGED <<vars, policies>>

CheckUntilAbsent ==
    /\ At("authorize")
    /\ ~request.caller.is_root
    /\ request.i <= Len(request.caller.policies)
    /\ LET rules == policies[request.caller.policies[request.i]] IN
         IF Grants(rules, Resource(request.what), Capability(request.what))
         THEN Goes("act")
         ELSE IF rules = Absent THEN Goes("deny")
         ELSE request' = [request EXCEPT !.i = @ + 1] /\ UNCHANGED reply
    /\ UNCHANGED <<vars, policies>>

Check ==
    /\ At("authorize")
    /\ ~request.caller.is_root
    /\ request.i <= Len(request.caller.policies)
    /\ IF Grants(policies[request.caller.policies[request.i]],
                 Resource(request.what), Capability(request.what))
       THEN Goes("act")
       ELSE request' = [request EXCEPT !.i = @ + 1] /\ UNCHANGED reply
    /\ UNCHANGED <<vars, policies>>

CheckedAll ==
    /\ At("authorize")
    /\ ~request.caller.is_root
    /\ request.i > Len(request.caller.policies)
    /\ Goes("deny")
    /\ UNCHANGED <<vars, policies>>

(* The refusal is logged, then raised. *)
Deny ==
    /\ At("deny")
    /\ Log("deny")
    /\ Raises("AuthorizationError")
    /\ UNCHANGED policies

(* The request remembers what the policies have granted since it began. *)
Noting(changed) ==
    IF request = Idle THEN Idle ELSE
    LET now == Granting(changed, request.caller, request.what) IN
      [request EXCEPT !.granted = @ \/ now # {}, !.steady = @ \cap now]

Changes(name, rules) ==
    LET changed == [policies EXCEPT ![name] = rules] IN
      /\ policies' = changed
      /\ request' = [Noting(changed) EXCEPT !.at = "log"]
      /\ UNCHANGED reply

(* Mutated form of Put: the policy is not validated. *)
PutUnvalidated ==
    /\ At("act")
    /\ request.what.op = "put"
    /\ Changes(request.what.name, request.what.rules)
    /\ UNCHANGED vars

(* add_policy and delete_policy raise, or make the change. *)
Put ==
    /\ At("act")
    /\ request.what.op = "put"
    /\ IF ValidPolicy(request.what.rules)
       THEN Changes(request.what.name, request.what.rules)
       ELSE Raises("PolicyError") /\ UNCHANGED policies
    /\ UNCHANGED vars

Delete ==
    /\ At("act")
    /\ request.what.op = "delete"
    /\ \/ request.what.name \in BuiltIn /\ Raises("PolicyError")
       \/ /\ request.what.name \notin BuiltIn
          /\ Goes(IF policies[request.what.name] = Absent THEN "log" ELSE "remove")
    /\ UNCHANGED <<vars, policies>>

(* del: a KeyError if somebody else was faster. *)
RemovePolicy ==
    /\ At("remove")
    /\ IF policies[request.what.name] # Absent
       THEN Changes(request.what.name, Absent)
       ELSE Raises("other") /\ UNCHANGED policies
    /\ UNCHANGED vars

(* Every other request does what it does, in other modules, or raises; what
   fails is not logged. *)
Use ==
    /\ At("act")
    /\ request.what.op = "use"
    /\ \/ Goes("log")
       \/ \E e \in {"SecretNotFoundError", "CryptoError", "other"} : Raises(e)
    /\ UNCHANGED <<vars, policies>>

Look ==
    /\ At("act")
    /\ request.what.op = "look"
    /\ \/ Returns(200)
       \/ \E e \in {"SecretNotFoundError", "AuthenticationError"} : Raises(e)
    /\ UNCHANGED <<vars, policies>>

LogAndReturn ==
    /\ At("log")
    /\ Log("allow")
    /\ Returns(200)
    /\ UNCHANGED policies

-----------------------------------------------------------------------------
OthersChange(name, rules) ==
    LET changed == [policies EXCEPT ![name] = rules] IN
      /\ policies' = changed
      /\ request' = Noting(changed)
      /\ UNCHANGED <<vars, reply>>

OthersLog(c) == Log(c) /\ UNCHANGED <<policies, request, reply>>

(* A new process: Vault.__init__ *)
Restart ==
    /\ Clear
    /\ policies' = NewPolicies
    /\ request' = Idle
    /\ reply' = 0

LogAltered ==
    /\ \/ Verify
       \/ loads < MaxLoads /\ \E list \in Altered(entries) : Load(list)
       \/ Clear
    /\ UNCHANGED <<policies, request, reply>>

AccessNext ==
    \/ \E caller \in Callers, r \in Requests : Admit(caller, r)
    \/ CheckRoot \/ Check \/ CheckedAll
    \/ Deny
    \/ Put \/ Delete \/ RemovePolicy \/ Use \/ Look
    \/ LogAndReturn
    \/ \E c \in Others : OthersChange(c[1], c[2])
    \/ \E c \in {"allow", "deny"} : OthersLog(c)
    \/ LogAltered
    \/ Restart

AccessSpec == AccessInit /\ [][AccessNext]_accessVars

-----------------------------------------------------------------------------
Statuses == {0, 200, 400, 401, 403, 404, 500, 503}

RequestStates ==
    [at : {"authorize", "deny", "act", "remove", "log"},
     what : Requests, caller : Callers, i : Nat \ {0},
     granted : BOOLEAN, steady : SUBSET Names]

(* Types.  What is stored under a name is a valid policy, and the built-in
   names always have one. *)
AccessTypeOK ==
    /\ DOMAIN policies = Names
    /\ \A n \in Names : policies[n] = Absent \/ ValidPolicy(policies[n])
    /\ \A n \in BuiltIn : policies[n] # Absent
    /\ request \in RequestStates \cup {Idle}
    /\ reply \in Statuses

(* "Default-deny: if no policy grants a capability, the operation is denied"
   (policy.py:12), though policies change between the lookups and before the
   act: whoever acts is root, or one of the policies of the token granted the
   request at some moment since it began. *)
ActsAllowed ==
    request # Idle /\ request.at \in {"act", "remove", "log"} =>
        request.caller.is_root \/ request.granted

(* Nor is anybody refused by the changes of others alone: root never is, nor a
   request that one and the same policy granted from its beginning on. *)
DenialJustified ==
    At("deny") => ~request.caller.is_root /\ request.steady = {}

(* Whatever the documentation says a rule covers, the policy it stands in
   grants. *)
GrantsAsDocumented ==
    \A n \in Names : policies[n] # Absent =>
        \A r \in policies[n], path \in Paths :
            Documented[r.path][path] =>
                \A c \in r.capabilities : Grants(policies[n], path, c)

(* A rule covers nothing outside the path it names before its first wildcard. *)
RulesConfined ==
    \A n \in Names : policies[n] # Absent =>
        \A r \in policies[n], path \in Paths : Confined[r.path][path]

=============================================================================
