------------------------- MODULE VaultSecretsProofs -------------------------
(***************************************************************************)
(* Proofs about VaultSecrets when requests are handled one at a time, for  *)
(* any number of retained versions, writes and crashes, whichever calls of *)
(* the store fail.  The inductive invariant says, for every point at which *)
(* the one request may be, what it has done of its work so far.            *)
(***************************************************************************)
EXTENDS VaultSecrets, VersionListProofs, FiniteSetTheorems

USE MaxVersionsAssumption, NoneAssumption, BoundsAssumption

-----------------------------------------------------------------------------
(* The versions of the path, none before it is written to. *)
list == IF current = 0 THEN << >> ELSE secrets[current].versions

Busy(h, steps) == h # Idle /\ h.at \in steps

(* The newest number of the list: that of a write between counting up and
   appending is yet to come. *)
Top(h) == IF Busy(h, {"append"}) THEN NextNumber - 2 ELSE NextNumber - 1

(* The version is in memory, and not yet what write() promises. *)
Writing(h) == Busy(h, {"prune", "pop", "encrypt", "meta"}) /\ h.op = "write"

(* The version is destroyed in memory, and not yet what destroy() promises. *)
Destroying(h) == Busy(h, {"erase", "meta"}) /\ h.op = "destroy"

(* The list holds the newest MaxVersions numbers, and one more while it is
   pruned. *)
ListOK(h) ==
    /\ Numbered(list, Top(h))
    /\ Top(h) <= MaxWrites
    /\ Len(list) < MaxVersions => Len(list) = Top(h)
    /\ Len(list) <= MaxVersions + (IF Busy(h, {"prune", "pop"}) THEN 1 ELSE 0)
    /\ \A i \in DOMAIN list : list[i].destroyed => list[i].data = Erased

HistoryOK(h) ==
    /\ \A m \in Numbers : given[m] # {} <=> m <= Top(h)
    /\ \A i \in DOMAIN list : ~list[i].destroyed => given[list[i].version] = {list[i].data}
    /\ wrote \subseteq 1 .. Top(h) /\ erased \subseteq 1 .. Top(h)

(* What is encrypted under this vault's key was given to the write of that
   number; the store has what each version of the list promises of it. *)
StoreOK ==
    /\ \A m \in Numbers : ciphertexts[m] \notin {Absent, Torn} /\ ciphertexts[m].key = key
          => given[m] = {ciphertexts[m].data}
    /\ \A i \in DOMAIN list : list[i].version \in wrote =>
          list[i].destroyed \/ ciphertexts[list[i].version] = [key |-> key, data |-> list[i].data]
    /\ \A i \in DOMAIN list : list[i].version \in erased => list[i].destroyed
    /\ DestroyedIsErased
    /\ erased # {} => meta = Torn \/ meta \in Lists

StepsOf ==
    [write    |-> {"find", "create", "write", "count", "append", "prune", "pop", "encrypt", "meta"},
     read     |-> {"find", "read", "fetch"},
     delete   |-> {"find", "delete", "meta"},
     undelete |-> {"find", "undelete", "meta"},
     destroy  |-> {"find", "destroy", "erase", "meta"}]

(* The variables of the request at each of its steps. *)
RequestOK(h) == h # Idle =>
    /\ h.at \in StepsOf[h.op] /\ reply = None
    /\ h.op = "write" => h.data \in Data
    /\ IF h.at \in {"find", "create"} THEN h.secret = 0 ELSE h.secret = 1 /\ current = 1
    /\ h.at = "create" => current = 0
    /\ h.at \in {"fetch", "meta"} \/ h.op \in {"undelete", "destroy"} => h.n \in Numbers
    /\ h.op = "write" /\ h.at \in {"find", "create", "write", "count"} => NextNumber <= MaxWrites
    /\ h.at = "count" => h.n = NextNumber
    /\ h.at = "append" => h.n = NextNumber - 1
    /\ h.at = "pop" => Len(list) > MaxVersions
    /\ Writing(h) => /\ h.n = Top(h) /\ h.n \notin wrote \cup erased
                     /\ ~list[Len(list)].destroyed /\ list[Len(list)].data = h.data
    /\ Writing(h) /\ h.at = "meta" => ciphertexts[h.n] = [key |-> key, data |-> h.data]
    /\ Destroying(h) => /\ h.n <= Top(h)
                        /\ \A i \in DOMAIN list : list[i].version = h.n => list[i].destroyed
    /\ Destroying(h) /\ h.at = "meta" => ciphertexts[h.n] = Absent

Good(h) == ListOK(h) /\ HistoryOK(h) /\ StoreOK /\ RequestOK(h)

(* At most one thread is busy, and what it has done is good. *)
Serial ==
    /\ (\A th \in Threads : handler[th] = Idle) => Good(Idle)
    /\ \A th \in Threads : handler[th] # Idle =>
          Good(handler[th]) /\ \A x \in Threads \ {th} : handler[x] = Idle

(* The types of what is not a thread's own. *)
StateOK ==
    /\ key \in 1 .. MaxRestarts + 1
    /\ envelope \in {None, key}
    /\ secrets \in Seq([next : Nat, versions : Lists])
    /\ current \in {0, 1} /\ Len(secrets) = current
    /\ ciphertexts \in [Numbers -> {Absent, Torn} \cup [key : 1 .. key, data : Data]]
    /\ meta \in {Absent, Torn} \/ meta \in Lists
    /\ reply \in {Failed, None} \/ reply \in [op : Operations, n : Numbers, data : Data \cup {None}]
    /\ given \in [Numbers -> SUBSET Data]
    /\ wrote \subseteq Numbers /\ erased \subseteq Numbers

HandlerOK ==
    /\ handler \in [Threads -> Requests \cup {Idle}]
    /\ \A th \in Threads : handler[th] # Idle => handler[th].envelope = key

VaultInv == StateOK /\ HandlerOK /\ Serial /\ ReadReturnsWritten

-----------------------------------------------------------------------------
(* The request a busy thread handles. *)
LEMMA Doing ==
    ASSUME VaultInv, NEW th \in Threads, handler[th] # Idle
    PROVE  \E h \in Requests :
              /\ h = handler[th] /\ h # Idle /\ h.envelope = key /\ Good(h)
              /\ \A x \in Threads \ {th} : handler[x] = Idle
BY DEF VaultInv, HandlerOK, Serial

LEMMA NotIdle ==
    ASSUME NEW h \in Requests
    PROVE  h # Idle
BY IdleAssumption

(* What a step makes of the busy thread is all there is to check of it. *)
LEMMA Proceed ==
    ASSUME NEW th \in Threads, NEW h \in Requests \cup {Idle},
           HandlerOK, \A x \in Threads \ {th} : handler[x] = Idle,
           h # Idle => h.envelope = key', key' = key,
           handler' = [handler EXCEPT ![th] = h], Good(h)'
    PROVE  HandlerOK' /\ Serial'
<1>1. /\ \A x \in Threads : handler'[x] = IF x = th THEN h ELSE Idle
      /\ handler' \in [Threads -> Requests \cup {Idle}]
    BY DEF HandlerOK
<1>2. HandlerOK'
    BY <1>1 DEF HandlerOK
<1>3. CASE h = Idle
    <2>1. \A x \in Threads : handler'[x] = Idle
        BY <1>1, <1>3
    <2> QED BY <1>2, <1>3, <2>1 DEF Serial
<1>4. CASE h # Idle
    <2>1. \A x \in Threads : handler'[x] # Idle => x = th /\ handler'[x] = h
        BY <1>1, <1>4
    <2>2. ~(\A x \in Threads : handler'[x] = Idle)
        BY <1>1, <1>4
    <2>3. \A x \in Threads \ {th} : handler'[x] = Idle
        BY <1>1
    <2>4. Serial'
        BY <2>1, <2>2, <2>3, Zenon DEF Serial
    <2> QED BY <1>2, <2>4
<1> QED BY <1>3, <1>4

(* The request with its next step. *)
LEMMA Moved ==
    ASSUME NEW h \in Requests, NEW step \in Steps
    PROVE  \E r \in Requests :
             /\ r = [h EXCEPT !.at = step] /\ r # Idle
             /\ r.at = step /\ r.op = h.op /\ r.n = h.n /\ r.data = h.data
             /\ r.envelope = h.envelope /\ r.secret = h.secret
<1>1. [h EXCEPT !.at = step] \in Requests
    BY DEF Requests
<1> QED BY <1>1, NotIdle DEF Requests

(* Which operation a step belongs to. *)
LEMMA OperationOf ==
    ASSUME NEW h \in Requests, h.at \in StepsOf[h.op]
    PROVE  /\ h.at \in {"create", "write", "count", "append", "prune", "pop", "encrypt"} => h.op = "write"
           /\ h.at \in {"read", "fetch"} => h.op = "read"
           /\ h.at \in {"delete", "undelete", "destroy"} => h.op = h.at
           /\ h.at = "erase" => h.op = "destroy"
           /\ h.at = "meta" => h.op # "read"
BY DEF StepsOf, Requests, Operations

-----------------------------------------------------------------------------
LEMMA SameList ==
    ASSUME UNCHANGED <<secrets, current>>
    PROVE  list' = list /\ NextNumber' = NextNumber
BY DEF list, NextNumber

LEMMA ListType ==
    ASSUME StateOK, NEW h, ListOK(h)
    PROVE  /\ list \in Lists /\ Len(list) \in Nat /\ DOMAIN list = 1 .. Len(list)
           /\ NextNumber \in Nat /\ NextNumber - 1 \in Nat /\ Top(h) \in Nat
           /\ \A i \in DOMAIN list : list[i] \in VersionRecord
<1> DEFINE Kind == [next : Nat, versions : Lists]
<1>1. current = 1 => secrets[current] \in Kind
    <2>1. secrets \in Seq(Kind) /\ Len(secrets) = current
        BY DEF StateOK
    <2> HIDE DEF Kind
    <2> QED BY <2>1, ElementOfSeq
<1>2. list \in Lists /\ NextNumber \in Nat
    <2>1. CASE current = 0
        BY <2>1 DEF list, NextNumber, Lists
    <2>2. CASE current = 1
        BY <1>1, <2>2 DEF list, NextNumber
    <2> QED BY <2>1, <2>2 DEF StateOK
<1>3. Top(h) \in Nat
    BY DEF ListOK, Numbered
<1> QED BY <1>2, <1>3 DEF Lists, Top

(* A step of the request that leaves the list, and what is remembered of it. *)
LEMMA ListStays ==
    ASSUME NEW h, NEW r, ListOK(h), UNCHANGED <<secrets, current>>,
           Busy(r, {"append"}) <=> Busy(h, {"append"}),
           Len(list) <= MaxVersions \/ Busy(r, {"prune", "pop"})
    PROVE  ListOK(r)' /\ Top(r)' = Top(h) /\ list' = list
<1>1. list' = list /\ NextNumber' = NextNumber
    BY SameList
<1>2. Top(r)' = Top(h)
    BY <1>1 DEF Top, Busy
<1>3. Len(list) \in Nat
    BY DEF ListOK, Numbered
<1>4. Len(list) <= MaxVersions + (IF Busy(r, {"prune", "pop"}) THEN 1 ELSE 0)
    BY <1>3 DEF ListOK, Busy
<1>5. (Busy(r, {"prune", "pop"}))' <=> Busy(r, {"prune", "pop"})
    BY DEF Busy
<1> QED BY <1>1, <1>2, <1>3, <1>4, <1>5 DEF ListOK, Numbered

LEMMA ListKept ==
    ASSUME NEW h, NEW r, ListOK(h), HistoryOK(h),
           UNCHANGED <<secrets, current, given, wrote, erased>>,
           Busy(r, {"append"}) <=> Busy(h, {"append"}),
           Len(list) <= MaxVersions \/ Busy(r, {"prune", "pop"})
    PROVE  ListOK(r)' /\ HistoryOK(r)' /\ Top(r)' = Top(h)
<1>1. ListOK(r)' /\ Top(r)' = Top(h) /\ list' = list
    BY ListStays
<1> QED BY <1>1 DEF HistoryOK

LEMMA StoreKept ==
    ASSUME StoreOK, UNCHANGED <<key, secrets, current, ciphertexts, meta, given, wrote, erased>>
    PROVE  StoreOK'
BY SameList DEF StoreOK, DestroyedIsErased

LEMMA StateKept ==
    ASSUME StateOK, UNCHANGED <<key, envelope, memory, stored, past>>,
           reply' \in {Failed, None, reply}
    PROVE  StateOK' /\ (reply' # reply => ReadReturnsWritten')
BY DEF StateOK, memory, stored, past, ReadReturnsWritten

(* A request ends, or goes on to a step at which no list is pruned, and has
   changed only its own variables. *)
LEMMA OnlyItself ==
    ASSUME VaultInv, NEW th \in Threads, NEW h \in Requests, NEW r \in Requests \cup {Idle},
           h = handler[th], Good(h), \A x \in Threads \ {th} : handler[x] = Idle,
           UNCHANGED <<key, envelope, memory, stored, past>>,
           reply' = IF r = Idle THEN Failed ELSE reply,
           handler' = [handler EXCEPT ![th] = r],
           r # Idle => r.envelope = key /\ RequestOK(r)',
           Len(list) <= MaxVersions, h.at # "append", ~Busy(r, {"append"})
    PROVE  VaultInv'
<1>1. h # Idle
    BY NotIdle
<1>2. ListOK(r)' /\ HistoryOK(r)'
    BY <1>1, ListKept DEF memory, past, Busy, Good
<1>3. StoreOK'
    BY StoreKept DEF memory, stored, past, Good
<1>4. RequestOK(r)'
    BY DEF RequestOK
<1>5. HandlerOK' /\ Serial'
    BY <1>2, <1>3, <1>4, Proceed DEF VaultInv, Good
<1>6. StateOK' /\ ReadReturnsWritten'
    BY <1>1, StateKept DEF VaultInv, ReadReturnsWritten, Good, RequestOK, past
<1> QED BY <1>5, <1>6 DEF VaultInv

LEMMA FindSecretKeeps ==
    ASSUME VaultInv, NEW th \in Threads, FindSecret(th)
    PROVE  VaultInv'
<1>1. PICK h \in Requests :
         /\ h = handler[th] /\ h # Idle /\ h.envelope = key /\ Good(h)
         /\ \A x \in Threads \ {th} : handler[x] = Idle
    BY Doing DEF FindSecret, At
<1>2. h.at = "find" /\ UNCHANGED <<key, envelope, memory, stored, past>>
    BY <1>1 DEF FindSecret, At
<1>3. Len(list) <= MaxVersions /\ current \in {0, 1} /\ NextNumber' = NextNumber
    BY <1>1, <1>2, SameList, ListType DEF Good, ListOK, Busy, VaultInv, StateOK, memory
<1>4. /\ h.op \in Operations /\ h.op \in Steps
      /\ h.at \in StepsOf[h.op] /\ RequestOK(h)
    BY <1>1 DEF Requests, Good, RequestOK, Operations, Steps
<1>5. CASE current # 0 /\ UNCHANGED reply
             /\ handler' = [handler EXCEPT ![th].secret = current, ![th].at = handler[th].op]
    <2>0. 1 \in Nat /\ current = 1
        BY <1>3, <1>5
    <2>1. PICK s \in Requests :
            /\ s = [h EXCEPT !.secret = 1, !.at = h.op] /\ s # Idle
            /\ s.at = h.op /\ s.op = h.op /\ s.n = h.n /\ s.data = h.data
            /\ s.envelope = h.envelope /\ s.secret = 1
        <3>1. [h EXCEPT !.secret = 1, !.at = h.op] \in Requests
            BY <1>4 DEF Requests
        <3> QED BY <1>4, <3>1, NotIdle DEF Requests
    <2>2. handler' = [handler EXCEPT ![th].secret = 1, ![th].at = h.op]
        BY <1>1, <1>5, <2>0
    <2>3. handler' = [handler EXCEPT ![th] = s]
        BY <1>1, <2>1, <2>2
    <2>4. RequestOK(s)'
        BY <1>1, <1>2, <1>3, <1>4, <1>5, <2>1
           DEF RequestOK, StepsOf, Operations, Writing, Destroying, Busy, memory
    <2>5. ~Busy(s, {"append"}) /\ h.at # "append" /\ reply' = reply
        BY <1>2, <1>4, <1>5, <2>1 DEF Busy, Operations
    <2> QED BY <1>1, <1>2, <1>3, <2>1, <2>3, <2>4, <2>5, OnlyItself
<1>6. CASE current = 0 /\ h.op = "write" /\ Goes(th, "create") /\ UNCHANGED reply
    <2>1. PICK s \in Requests :
            /\ s = [h EXCEPT !.at = "create"] /\ s # Idle
            /\ s.at = "create" /\ s.op = h.op /\ s.data = h.data
            /\ s.envelope = h.envelope /\ s.secret = h.secret
        BY Moved DEF Steps
    <2>3. handler' = [handler EXCEPT ![th] = s]
        BY <1>1, <1>6, <2>1 DEF Goes
    <2>4. RequestOK(s)'
        BY <1>1, <1>2, <1>3, <1>4, <1>6, <2>1
           DEF RequestOK, StepsOf, Writing, Destroying, Busy, memory
    <2> QED BY <1>1, <1>2, <1>3, <1>6, <2>1, <2>3, <2>4, OnlyItself DEF Busy
<1>7. CASE Returns(th, Failed)
    BY <1>1, <1>2, <1>3, <1>7, OnlyItself DEF Returns, Busy
<1> QED BY <1>1, <1>5, <1>6, <1>7 DEF FindSecret

(* What a step that changes more has to show. *)
LEMMA Onwards ==
    ASSUME VaultInv, NEW th \in Threads, NEW r \in Requests \cup {Idle},
           handler[th] # Idle, \A x \in Threads \ {th} : handler[x] = Idle,
           handler' = [handler EXCEPT ![th] = r],
           r # Idle => r.envelope = key, key' = key,
           reply' \in {reply, Failed, None} \/ ReadReturnsWritten',
           StateOK', Good(r)'
    PROVE  VaultInv'
<1>1. reply = None
    BY DEF VaultInv, Serial, Good, RequestOK
<1>2. ReadReturnsWritten'
    BY <1>1 DEF ReadReturnsWritten
<1>3. HandlerOK' /\ Serial'
    BY Proceed DEF VaultInv
<1> QED BY <1>2, <1>3 DEF VaultInv

LEMMA CreateSecretKeeps ==
    ASSUME VaultInv, NEW th \in Threads, CreateSecret(th)
    PROVE  VaultInv'
<1>1. PICK h \in Requests :
         /\ h = handler[th] /\ h # Idle /\ h.envelope = key /\ Good(h)
         /\ \A x \in Threads \ {th} : handler[x] = Idle
    BY Doing DEF CreateSecret, At
<1>2. h.at = "create" /\ UNCHANGED <<key, envelope, stored, reply, past>>
    BY <1>1 DEF CreateSecret, At
<1>3. PICK s \in Requests :
         /\ s = [h EXCEPT !.at = "find"] /\ s # Idle
         /\ s.at = "find" /\ s.op = h.op /\ s.n = h.n /\ s.data = h.data
         /\ s.envelope = h.envelope /\ s.secret = h.secret
    BY Moved DEF Steps
<1>4. handler' = [handler EXCEPT ![th] = s]
    BY <1>1, <1>3 DEF CreateSecret, Goes
<1>5. current = 0 /\ secrets = << >> /\ h.op = "write"
    BY <1>1, <1>2, OperationOf DEF Good, RequestOK, VaultInv, StateOK
<1>6. /\ secrets' = <<[next |-> 1, versions |-> << >>]>>
      /\ current' = 1
    BY <1>5 DEF CreateSecret
<1>7. list' = list /\ NextNumber' = NextNumber
    BY <1>5, <1>6 DEF list, NextNumber
<1>8. StateOK'
    <2>1. [next |-> 1, versions |-> << >>] \in [next : Nat, versions : Lists]
        BY DEF Lists
    <2> QED BY <1>2, <1>6, <2>1 DEF StateOK, VaultInv, stored, past
<1>9. Top(s)' = Top(h) /\ Len(list) \in Nat
    BY <1>1, <1>2, <1>3, <1>7 DEF Top, Busy, Good, ListOK, Numbered
<1>10. ListOK(s)' /\ HistoryOK(s)'
    BY <1>1, <1>2, <1>3, <1>7, <1>9 DEF ListOK, Numbered, HistoryOK, Good, Busy, past
<1>11. StoreOK'
    BY <1>1, <1>2, <1>7 DEF Good, StoreOK, DestroyedIsErased, stored, past
<1>12. RequestOK(s)'
    BY <1>1, <1>2, <1>3, <1>5, <1>7 DEF RequestOK, StepsOf, Good, Writing, Destroying, Busy
<1> QED BY <1>1, <1>2, <1>3, <1>4, <1>8, <1>10, <1>11, <1>12, Onwards DEF Good

LEMMA TakeNumberKeeps ==
    ASSUME VaultInv, NEW th \in Threads, TakeNumber(th)
    PROVE  VaultInv'
<1>1. PICK h \in Requests :
         /\ h = handler[th] /\ h # Idle /\ h.envelope = key /\ Good(h)
         /\ \A x \in Threads \ {th} : handler[x] = Idle
    BY Doing DEF TakeNumber, At
<1>2. h.at = "write" /\ UNCHANGED <<key, envelope, memory, stored, reply, past>>
    BY <1>1 DEF TakeNumber, At
<1>3. h.op = "write" /\ h.secret = 1 /\ current = 1 /\ RequestOK(h)
    BY <1>1, <1>2, OperationOf DEF Good, RequestOK
<1>4. /\ Len(list) <= MaxVersions /\ NextNumber' = NextNumber
      /\ NextNumber \in Numbers /\ secrets[1].next = NextNumber
    <2>1. NextNumber \in Nat /\ NextNumber - 1 \in Nat /\ Len(list) \in Nat
        BY <1>1, ListType DEF Good, VaultInv
    <2> QED BY <1>1, <1>2, <1>3, <2>1, SameList
            DEF Good, ListOK, Busy, memory, RequestOK, Numbers, NextNumber
<1>5. PICK s \in Requests :
         /\ s = [h EXCEPT !.n = NextNumber, !.at = "count"] /\ s # Idle
         /\ s.at = "count" /\ s.op = h.op /\ s.n = NextNumber /\ s.data = h.data
         /\ s.envelope = h.envelope /\ s.secret = h.secret
    <2>1. [h EXCEPT !.n = NextNumber, !.at = "count"] \in Requests
        BY <1>4 DEF Requests, Steps
    <2> QED BY <2>1, NotIdle DEF Requests
<1>6. handler' = [handler EXCEPT ![th] = s]
    <2>1. handler' = [handler EXCEPT ![th].n = NextNumber, ![th].at = "count"]
        BY <1>1, <1>3, <1>4 DEF TakeNumber
    <2> QED BY <1>1, <1>5, <2>1
<1>7. RequestOK(s)'
    BY <1>1, <1>2, <1>3, <1>4, <1>5 DEF RequestOK, StepsOf, Writing, Destroying, Busy, memory
<1>8. h.at # "append" /\ ~Busy(s, {"append"})
    BY <1>2, <1>5 DEF Busy
<1> QED BY <1>1, <1>2, <1>4, <1>5, <1>6, <1>7, <1>8, OnlyItself

-----------------------------------------------------------------------------
(* There is one VersionedSecret: what assigning to its attributes does. *)
LEMMA Replaced ==
    ASSUME NEW S, NEW q \in Seq(S), Len(q) = 1, NEW k \in S,
           NEW r, r = [q EXCEPT ![1] = k]
    PROVE  r \in Seq(S) /\ Len(r) = 1 /\ r[1] = k
OBVIOUS

LEMMA SetNext ==
    ASSUME StateOK, current = 1, secrets' = [secrets EXCEPT ![1].next = @ + 1],
           UNCHANGED current
    PROVE  /\ secrets' \in Seq([next : Nat, versions : Lists]) /\ Len(secrets') = 1
           /\ list' = list /\ NextNumber' = NextNumber + 1
<1> DEFINE Kind == [next : Nat, versions : Lists]
<1>1. secrets \in Seq(Kind) /\ Len(secrets) = 1 /\ 1 \in 1 .. Len(secrets)
    BY DEF StateOK
<1>2. secrets[1] \in Kind
    <2> HIDE DEF Kind
    <2> QED BY <1>1, ElementOfSeq
<1>3. PICK k \in Kind : k = [secrets[1] EXCEPT !.next = secrets[1].next + 1]
    <2>1. PICK c \in Kind : c = secrets[1]
        BY <1>2, Zenon
    <2>2. [c EXCEPT !.next = c.next + 1] \in Kind
        OBVIOUS
    <2> QED BY <2>1, <2>2
<1>4. secrets' = [secrets EXCEPT ![1] = k]
    BY <1>1, <1>3
<1>5. k.versions = secrets[1].versions /\ k.next = secrets[1].next + 1
    BY <1>2, <1>3
<1>6. secrets' \in Seq(Kind) /\ Len(secrets') = 1 /\ secrets'[1] = k
    <2> HIDE DEF Kind
    <2> QED BY <1>1, <1>4, Replaced
<1> QED BY <1>5, <1>6 DEF list, NextNumber

LEMMA SetList ==
    ASSUME StateOK, current = 1, NEW l \in Lists,
           secrets' = [secrets EXCEPT ![1].versions = l], UNCHANGED current
    PROVE  /\ secrets' \in Seq([next : Nat, versions : Lists]) /\ Len(secrets') = 1
           /\ list' = l /\ NextNumber' = NextNumber
<1> DEFINE Kind == [next : Nat, versions : Lists]
<1>1. secrets \in Seq(Kind) /\ Len(secrets) = 1 /\ 1 \in 1 .. Len(secrets)
    BY DEF StateOK
<1>2. secrets[1] \in Kind
    <2> HIDE DEF Kind
    <2> QED BY <1>1, ElementOfSeq
<1>3. PICK k \in Kind : k = [secrets[1] EXCEPT !.versions = l]
    <2>1. PICK c \in Kind : c = secrets[1]
        BY <1>2, Zenon
    <2>2. [c EXCEPT !.versions = l] \in Kind
        OBVIOUS
    <2> QED BY <2>1, <2>2
<1>4. secrets' = [secrets EXCEPT ![1] = k]
    BY <1>1, <1>3
<1>5. k.versions = l /\ k.next = secrets[1].next
    BY <1>2, <1>3
<1>6. secrets' \in Seq(Kind) /\ Len(secrets') = 1 /\ secrets'[1] = k
    <2> HIDE DEF Kind
    <2> QED BY <1>1, <1>4, Replaced
<1> QED BY <1>5, <1>6 DEF list, NextNumber

LEMMA CountUpKeeps ==
    ASSUME VaultInv, NEW th \in Threads, CountUp(th)
    PROVE  VaultInv'
<1>1. PICK h \in Requests :
         /\ h = handler[th] /\ h # Idle /\ h.envelope = key /\ Good(h)
         /\ \A x \in Threads \ {th} : handler[x] = Idle
    BY Doing DEF CountUp, At
<1>2. h.at = "count" /\ UNCHANGED <<key, envelope, current, stored, reply, past>>
    BY <1>1 DEF CountUp, At
<1>3. h.op = "write" /\ h.secret = 1 /\ current = 1 /\ RequestOK(h)
    BY <1>1, <1>2, OperationOf DEF Good, RequestOK
<1>4. PICK s \in Requests :
         /\ s = [h EXCEPT !.at = "append"] /\ s # Idle
         /\ s.at = "append" /\ s.op = h.op /\ s.n = h.n /\ s.data = h.data
         /\ s.envelope = h.envelope /\ s.secret = h.secret
    BY Moved DEF Steps
<1>5. handler' = [handler EXCEPT ![th] = s]
    BY <1>1, <1>4 DEF CountUp, Goes
<1>6. secrets' = [secrets EXCEPT ![1].next = @ + 1]
    BY <1>1, <1>3 DEF CountUp
<1>7. /\ secrets' \in Seq([next : Nat, versions : Lists]) /\ Len(secrets') = 1
      /\ list' = list /\ NextNumber' = NextNumber + 1
    BY <1>2, <1>3, <1>6, SetNext DEF VaultInv
<1>8. StateOK'
    BY <1>2, <1>3, <1>7 DEF StateOK, VaultInv, stored, past
<1>9. Top(s)' = Top(h) /\ NextNumber \in Nat /\ Len(list) \in Nat
    <2>1. NextNumber \in Nat /\ Len(list) \in Nat
        BY <1>1, ListType DEF Good, VaultInv
    <2> QED BY <1>1, <1>2, <1>4, <1>7, <2>1 DEF Top, Busy
<1>10. ListOK(s)' /\ HistoryOK(s)'
    <2>1. ListOK(s)'
        BY <1>1, <1>2, <1>4, <1>7, <1>9 DEF ListOK, Numbered, Good, Busy
    <2>2. HistoryOK(s)'
        BY <1>1, <1>2, <1>7, <1>9 DEF HistoryOK, Good, past
    <2> QED BY <2>1, <2>2
<1>11. StoreOK'
    BY <1>1, <1>2, <1>7 DEF Good, StoreOK, DestroyedIsErased, stored, past
<1>12. RequestOK(s)'
    <2>1. s.n = NextNumber' - 1
        BY <1>1, <1>2, <1>3, <1>4, <1>7, <1>9 DEF RequestOK
    <2> QED BY <1>1, <1>2, <1>3, <1>4, <2>1 DEF RequestOK, StepsOf, Writing, Destroying, Busy
<1> QED BY <1>1, <1>2, <1>4, <1>5, <1>8, <1>10, <1>11, <1>12, Onwards DEF Good

LEMMA AppendVersionKeeps ==
    ASSUME VaultInv, NEW th \in Threads, AppendVersion(th)
    PROVE  VaultInv'
<1>1. PICK h \in Requests :
         /\ h = handler[th] /\ h # Idle /\ h.envelope = key /\ Good(h)
         /\ \A x \in Threads \ {th} : handler[x] = Idle
    BY Doing DEF AppendVersion, At
<1>2. h.at = "append" /\ UNCHANGED <<key, envelope, current, stored, reply, wrote, erased>>
    BY <1>1 DEF AppendVersion, At
<1>3. h.op = "write" /\ h.secret = 1 /\ current = 1 /\ RequestOK(h)
    BY <1>1, <1>2, OperationOf DEF Good, RequestOK
<1>4. PICK s \in Requests :
         /\ s = [h EXCEPT !.at = "prune"] /\ s # Idle
         /\ s.at = "prune" /\ s.op = h.op /\ s.n = h.n /\ s.data = h.data
         /\ s.envelope = h.envelope /\ s.secret = h.secret
    BY Moved DEF Steps
<1>5. handler' = [handler EXCEPT ![th] = s]
    BY <1>1, <1>4 DEF AppendVersion, Goes
<1>6. /\ list \in Lists /\ Len(list) \in Nat /\ DOMAIN list = 1 .. Len(list)
      /\ Top(h) \in Nat /\ Top(h) = NextNumber - 2 /\ NextNumber \in Nat
      /\ h.n \in Numbers /\ h.n = Top(h) + 1 /\ h.data \in Data
    <2>1. /\ list \in Lists /\ Len(list) \in Nat /\ DOMAIN list = 1 .. Len(list)
          /\ Top(h) \in Nat /\ NextNumber \in Nat
        BY <1>1, ListType DEF Good, VaultInv
    <2>2. Top(h) = NextNumber - 2 /\ h.n = NextNumber - 1 /\ h.data \in Data
        BY <1>1, <1>2, <1>3 DEF Top, Busy, RequestOK
    <2>3. h.n # None
        BY <2>1, <2>2
    <2> QED BY <2>1, <2>2, <2>3 DEF Requests
<1>7. PICK v \in VersionRecord : v = Written(h.n, h.data)
    BY <1>6 DEF Written, VersionRecord
<1>8. v.version = h.n /\ v.data = h.data /\ ~v.destroyed
    BY <1>7 DEF Written
<1>9. PICK l \in Lists : l = Append(list, v)
    BY <1>6, AppendProperties, Zenon DEF Lists
<1>10. /\ Len(l) = Len(list) + 1 /\ DOMAIN l = 1 .. Len(l)
       /\ \A i \in DOMAIN l : l[i] \in VersionRecord
       /\ \A i \in DOMAIN l : l[i] = IF i = Len(l) THEN v ELSE list[i]
    BY <1>6, <1>9 DEF Lists
<1>11. /\ secrets' \in Seq([next : Nat, versions : Lists]) /\ Len(secrets') = 1
       /\ list' = l /\ NextNumber' = NextNumber
    <2>1. secrets' = [secrets EXCEPT ![1].versions = l]
        BY <1>1, <1>3, <1>7, <1>9 DEF AppendVersion, SetVersions, Versions, list
    <2> QED BY <1>2, <1>3, <2>1, SetList DEF VaultInv
<1>12. given \in [Numbers -> SUBSET Data] /\ given[h.n] = {}
    <2>1. given \in [Numbers -> SUBSET Data] /\ HistoryOK(h)
        BY <1>1 DEF VaultInv, StateOK, Good
    <2>2. ~(h.n <= Top(h))
        BY <1>6
    <2> QED BY <1>6, <2>1, <2>2 DEF HistoryOK
<1>13. /\ given' \in [Numbers -> SUBSET Data]
       /\ \A m \in Numbers : given'[m] = IF m = h.n THEN {h.data} ELSE given[m]
    <2>1. given' = [given EXCEPT ![h.n] = given[h.n] \cup {h.data}]
        BY <1>1 DEF AppendVersion
    <2>2. given' = [given EXCEPT ![h.n] = {h.data}]
        BY <1>12, <2>1
    <2> QED BY <1>6, <1>12, <2>2
<1>14. StateOK'
    BY <1>2, <1>3, <1>11, <1>13 DEF StateOK, VaultInv, stored
<1>15. Top(s)' = h.n
    BY <1>4, <1>6, <1>11 DEF Top, Busy
<1>16. /\ \A i \in DOMAIN list : list[i].version = Top(h) - Len(list) + i
       /\ Len(list) <= Top(h) /\ Len(list) <= MaxVersions
       /\ Len(list) < MaxVersions => Len(list) = Top(h)
    BY <1>1, <1>2 DEF Good, ListOK, Numbered, Busy
<1>17. ASSUME NEW i \in DOMAIN l
       PROVE  /\ l[i].version = h.n - Len(l) + i
              /\ l[i] = v \/ (i \in DOMAIN list /\ l[i] = list[i] /\ l[i].version # h.n)
    <2>1. i \in 1 .. Len(list) + 1 /\ h.n \in Int
        BY <1>6, <1>10, <1>17
    <2>2. CASE i = Len(l)
        BY <1>6, <1>8, <1>10, <2>1, <2>2
    <2>3. CASE i # Len(l)
        <3>1. i \in DOMAIN list /\ l[i] = list[i]
            BY <1>6, <1>10, <2>1, <2>3
        <3>2. list[i].version = Top(h) - Len(list) + i
            BY <1>16, <3>1
        <3> QED BY <1>6, <1>10, <2>1, <2>3, <3>1, <3>2
    <2> QED BY <2>2, <2>3
<1>18. ListOK(s)'
    <2>1. Numbered(l, h.n)
        BY <1>6, <1>10, <1>16, <1>17 DEF Numbered, Numbers
    <2>2. h.n <= MaxWrites /\ (Len(l) < MaxVersions => Len(l) = h.n) /\ Len(l) <= MaxVersions + 1
        BY <1>6, <1>10, <1>16 DEF Numbers
    <2>3. \A i \in DOMAIN l : l[i].destroyed => l[i].data = Erased
        BY <1>1, <1>8, <1>17 DEF Good, ListOK
    <2> QED BY <1>4, <1>11, <1>15, <2>1, <2>2, <2>3 DEF ListOK, Busy
<1>19. HistoryOK(s)'
    <2>1. \A m \in Numbers : given'[m] # {} <=> m <= h.n
        <3>1. \A m \in Numbers : m \in Nat /\ (given[m] # {} <=> m <= Top(h))
            BY <1>1 DEF Good, Numbers, HistoryOK
        <3>2. \A m \in Numbers : m <= h.n <=> (m = h.n \/ m <= Top(h))
            BY <1>6, <3>1
        <3>3. {h.data} # {}
            OBVIOUS
        <3> QED BY <1>13, <3>1, <3>2, <3>3, Zenon
    <2>2. ASSUME NEW i \in DOMAIN l, ~l[i].destroyed
          PROVE  given'[l[i].version] = {l[i].data}
        <3>1. l[i].version \in Numbers
            BY <1>10, <2>2 DEF VersionRecord
        <3>2. CASE l[i] = v
            BY <1>8, <1>13, <3>1, <3>2
        <3>3. CASE i \in DOMAIN list /\ l[i] = list[i] /\ l[i].version # h.n
            <4>1. given[list[i].version] = {list[i].data}
                BY <1>1, <2>2, <3>3 DEF Good, HistoryOK
            <4> QED BY <1>13, <3>1, <3>3, <4>1
        <3> QED BY <1>17, <3>2, <3>3
    <2>3. wrote' \subseteq 1 .. h.n /\ erased' \subseteq 1 .. h.n
        BY <1>1, <1>2, <1>6 DEF Good, HistoryOK
    <2> QED BY <1>11, <1>15, <2>1, <2>2, <2>3 DEF HistoryOK
<1>20. h.n \notin wrote \cup erased
    BY <1>1, <1>6 DEF Good, HistoryOK
<1>21. StoreOK'
    <2>1. ASSUME NEW m \in Numbers, ciphertexts[m] \notin {Absent, Torn}, ciphertexts[m].key = key
          PROVE  given'[m] = {ciphertexts[m].data}
        BY <1>1, <1>12, <1>13, <2>1 DEF Good, StoreOK
    <2>2. ASSUME NEW i \in DOMAIN l
          PROVE  /\ l[i].version \in wrote => l[i].destroyed
                      \/ ciphertexts[l[i].version] = [key |-> key, data |-> l[i].data]
                 /\ l[i].version \in erased => l[i].destroyed
        BY <1>1, <1>8, <1>17, <1>20, <2>2 DEF Good, StoreOK
    <2> QED BY <1>1, <1>2, <1>11, <2>1, <2>2 DEF Good, StoreOK, DestroyedIsErased, stored
<1>22. RequestOK(s)'
    <2>1. ~l[Len(l)].destroyed /\ l[Len(l)].data = h.data
        BY <1>6, <1>8, <1>10
    <2>2. /\ s.n = Top(s)' /\ s.n \notin wrote' \cup erased'
          /\ ~list'[Len(list')].destroyed /\ list'[Len(list')].data = s.data
        BY <1>2, <1>4, <1>11, <1>15, <1>20, <2>1
    <2>3. current' = 1 /\ reply' = None /\ s.n \in Numbers /\ s.secret = 1 /\ s.data \in Data
        BY <1>1, <1>2, <1>3, <1>4, <1>6 DEF RequestOK
    <2> QED BY <1>3, <1>4, <2>2, <2>3 DEF RequestOK, StepsOf, Writing, Destroying, Busy
<1> QED BY <1>1, <1>2, <1>4, <1>5, <1>14, <1>18, <1>19, <1>21, <1>22, Onwards DEF Good

LEMMA PruneKeeps ==
    ASSUME VaultInv, NEW th \in Threads, Prune(th)
    PROVE  VaultInv'
<1>1. PICK h \in Requests :
         /\ h = handler[th] /\ h # Idle /\ h.envelope = key /\ Good(h)
         /\ \A x \in Threads \ {th} : handler[x] = Idle
    BY Doing DEF Prune, At
<1>2. h.at = "prune" /\ UNCHANGED <<key, envelope, current, stored, reply, past>>
    BY <1>1 DEF Prune, At
<1>3. h.op = "write" /\ h.secret = 1 /\ current = 1 /\ RequestOK(h) /\ reply = None
    BY <1>1, <1>2, OperationOf DEF Good, RequestOK
<1>4. /\ list \in Lists /\ Len(list) \in Nat /\ DOMAIN list = 1 .. Len(list)
      /\ NextNumber \in Nat /\ Top(h) = NextNumber - 1 /\ Top(h) \in Nat
      /\ \A i \in DOMAIN list : list[i] \in VersionRecord
    BY <1>1, <1>2, ListType DEF Good, VaultInv, Top, Busy
<1>5. Versions(th) = list
    BY <1>1, <1>3 DEF Versions, list
<1>6. /\ h.n = Top(h) /\ h.n \notin wrote \cup erased /\ h.n \in Numbers /\ h.data \in Data
      /\ ~list[Len(list)].destroyed /\ list[Len(list)].data = h.data
    <2>1. /\ h.n = Top(h) /\ h.n \notin wrote \cup erased /\ h.data \in Data
          /\ ~list[Len(list)].destroyed /\ list[Len(list)].data = h.data
        BY <1>1, <1>2, <1>3 DEF RequestOK, Writing, Busy
    <2> QED BY <1>4, <2>1 DEF Requests
<1>7. CASE ~Full(list)
    <2>1. PICK s \in Requests :
             /\ s = [h EXCEPT !.at = "encrypt"] /\ s # Idle
             /\ s.at = "encrypt" /\ s.op = h.op /\ s.n = h.n /\ s.data = h.data
             /\ s.envelope = h.envelope /\ s.secret = h.secret
        BY Moved DEF Steps
    <2>2. /\ handler' = [handler EXCEPT ![th] = s] /\ UNCHANGED memory
          /\ Len(list) <= MaxVersions
        BY <1>1, <1>2, <1>4, <1>5, <1>7, <2>1 DEF Prune, Goes, Full, memory
    <2>3. list' = list /\ NextNumber' = NextNumber
        BY <2>2, SameList DEF memory
    <2>4. RequestOK(s)'
        BY <1>1, <1>2, <1>3, <1>4, <1>6, <2>1, <2>3
           DEF RequestOK, StepsOf, Writing, Destroying, Busy, Top, past
    <2>5. h.at # "append" /\ ~Busy(s, {"append"}) /\ reply' = reply
        BY <1>2, <2>1 DEF Busy
    <2> QED BY <1>1, <1>2, <2>1, <2>2, <2>4, <2>5, OnlyItself
<1>8. CASE Full(list)
    <2>1. PICK s \in Requests :
             /\ s = [h EXCEPT !.at = "pop"] /\ s # Idle
             /\ s.at = "pop" /\ s.op = h.op /\ s.n = h.n /\ s.data = h.data
             /\ s.envelope = h.envelope /\ s.secret = h.secret
        BY Moved DEF Steps
    <2>2. handler' = [handler EXCEPT ![th] = s]
        BY <1>1, <1>5, <1>8, <2>1 DEF Prune, Goes
    <2>3. Len(list) > MaxVersions /\ 1 \in DOMAIN list /\ Len(list) # 1
        BY <1>4, <1>8 DEF Full
    <2>4. PICK v \in VersionRecord :
             /\ v = [list[1] EXCEPT !.destroyed = TRUE, !.data = Erased]
             /\ v.version = list[1].version /\ v.destroyed /\ v.data = Erased
        <3>1. PICK u \in VersionRecord : u = list[1]
            BY <1>4, <2>3
        <3>2. [u EXCEPT !.destroyed = TRUE, !.data = Erased] \in VersionRecord
            BY DEF VersionRecord
        <3> QED BY <3>1, <3>2 DEF VersionRecord
    <2>5. PICK l \in Lists : l = [list EXCEPT ![1] = v]
        BY <1>4, <2>3, ExceptSeq DEF Lists
    <2>6. /\ Len(l) = Len(list) /\ DOMAIN l = 1 .. Len(l)
          /\ \A i \in DOMAIN l : l[i] = IF i = 1 THEN v ELSE list[i]
        BY <1>4, <2>5 DEF Lists
    <2>7. /\ secrets' \in Seq([next : Nat, versions : Lists]) /\ Len(secrets') = 1
          /\ list' = l /\ NextNumber' = NextNumber
        <3>1. l = [list EXCEPT ![1].destroyed = TRUE, ![1].data = Erased]
            BY <1>4, <2>3, <2>4, <2>5
        <3>2. secrets' = [secrets EXCEPT ![1].versions = l]
            BY <1>1, <1>3, <1>5, <1>8, <3>1 DEF Prune, SetVersions
        <3> QED BY <1>2, <1>3, <3>2, SetList DEF VaultInv
    <2>8. StateOK'
        BY <1>2, <1>3, <2>7 DEF StateOK, VaultInv, stored, past
    <2>9. Top(s)' = Top(h)
        BY <1>4, <2>1, <2>7 DEF Top, Busy
    <2>10. ASSUME NEW i \in DOMAIN l
           PROVE  /\ i \in DOMAIN list /\ l[i].version = list[i].version
                  /\ (l[i].destroyed /\ l[i].data = Erased) \/ l[i] = list[i]
        BY <1>4, <2>4, <2>6
    <2>11. ListOK(s)'
        <3>1. /\ Numbered(list, Top(h)) /\ Top(h) <= MaxWrites
              /\ Len(list) < MaxVersions => Len(list) = Top(h)
              /\ Len(list) <= MaxVersions + 1
              /\ \A i \in DOMAIN list : list[i].destroyed => list[i].data = Erased
            BY <1>1, <1>2 DEF Good, ListOK, Busy
        <3>2. Numbered(l, Top(h))
            BY <1>4, <2>6, <2>10, <3>1 DEF Numbered
        <3>3. \A i \in DOMAIN l : l[i].destroyed => l[i].data = Erased
            BY <2>10, <3>1
        <3> QED BY <2>1, <2>6, <2>7, <2>9, <3>1, <3>2, <3>3 DEF ListOK, Busy
    <2>12. HistoryOK(s)'
        BY <1>1, <1>2, <2>7, <2>9, <2>10 DEF Good, HistoryOK, past
    <2>13. StoreOK'
        BY <1>1, <1>2, <2>7, <2>10 DEF Good, StoreOK, DestroyedIsErased, stored, past
    <2>14. RequestOK(s)'
        <3>1. ~l[Len(l)].destroyed /\ l[Len(l)].data = h.data
            BY <1>4, <1>6, <2>3, <2>6
        <3>2. /\ s.n = Top(s)' /\ s.n \notin wrote' \cup erased'
              /\ ~list'[Len(list')].destroyed /\ list'[Len(list')].data = s.data
              /\ Len(list') > MaxVersions
            BY <1>2, <1>6, <2>1, <2>3, <2>6, <2>7, <2>9, <3>1 DEF past
        <3>3. current' = 1 /\ reply' = None /\ s.n \in Numbers /\ s.secret = 1 /\ s.data \in Data
            BY <1>2, <1>3, <1>6, <2>1
        <3> QED BY <1>3, <2>1, <3>2, <3>3 DEF RequestOK, StepsOf, Writing, Destroying, Busy
    <2> QED BY <1>1, <1>2, <2>1, <2>2, <2>8, <2>11, <2>12, <2>13, <2>14, Onwards DEF Good
<1> QED BY <1>7, <1>8

LEMMA PopKeeps ==
    ASSUME VaultInv, NEW th \in Threads, Pop(th)
    PROVE  VaultInv'
<1>1. PICK h \in Requests :
         /\ h = handler[th] /\ h # Idle /\ h.envelope = key /\ Good(h)
         /\ \A x \in Threads \ {th} : handler[x] = Idle
    BY Doing DEF Pop, At
<1>2. h.at = "pop" /\ UNCHANGED <<key, envelope, current, stored, reply, past>>
    BY <1>1 DEF Pop, At
<1>3. h.op = "write" /\ h.secret = 1 /\ current = 1 /\ RequestOK(h) /\ reply = None
    BY <1>1, <1>2, OperationOf DEF Good, RequestOK
<1>4. /\ list \in Lists /\ Len(list) \in Nat /\ DOMAIN list = 1 .. Len(list)
      /\ NextNumber \in Nat /\ Top(h) = NextNumber - 1 /\ Top(h) \in Nat
      /\ \A i \in DOMAIN list : list[i] \in VersionRecord
    BY <1>1, <1>2, ListType DEF Good, VaultInv, Top, Busy
<1>5. Versions(th) = list
    BY <1>1, <1>3 DEF Versions, list
<1>6. /\ h.n = Top(h) /\ h.n \notin wrote \cup erased /\ h.n \in Numbers /\ h.data \in Data
      /\ ~list[Len(list)].destroyed /\ list[Len(list)].data = h.data
      /\ Len(list) > MaxVersions
    <2>1. /\ h.n = Top(h) /\ h.n \notin wrote \cup erased /\ h.data \in Data
          /\ ~list[Len(list)].destroyed /\ list[Len(list)].data = h.data
          /\ Len(list) > MaxVersions
        BY <1>1, <1>2, <1>3 DEF RequestOK, Writing, Busy
    <2> QED BY <1>4, <2>1 DEF Requests
<1>7. PICK s \in Requests :
         /\ s = [h EXCEPT !.at = "prune"] /\ s # Idle
         /\ s.at = "prune" /\ s.op = h.op /\ s.n = h.n /\ s.data = h.data
         /\ s.envelope = h.envelope /\ s.secret = h.secret
    BY Moved DEF Steps
<1>8. handler' = [handler EXCEPT ![th] = s]
    BY <1>1, <1>7 DEF Pop, Goes
<1>9. PICK l \in Lists :
         /\ l = Tail(list) /\ Len(l) = Len(list) - 1 /\ DOMAIN l = 1 .. Len(l)
         /\ \A i \in DOMAIN l : l[i] = list[i + 1]
    <2>1. list # << >>
        BY <1>4, <1>6
    <2>2. /\ Tail(list) \in Lists /\ Len(Tail(list)) = Len(list) - 1
          /\ \A i \in 1 .. Len(Tail(list)) : Tail(list)[i] = list[i + 1]
        BY <1>4, <2>1, HeadTailProperties DEF Lists
    <2>3. DOMAIN Tail(list) = 1 .. Len(Tail(list))
        BY <2>2 DEF Lists
    <2> QED BY <2>2, <2>3
<1>10. /\ secrets' \in Seq([next : Nat, versions : Lists]) /\ Len(secrets') = 1
       /\ list' = l /\ NextNumber' = NextNumber
    <2>1. secrets' = [secrets EXCEPT ![1].versions = l]
        BY <1>1, <1>3, <1>5, <1>9 DEF Pop, SetVersions
    <2> QED BY <1>2, <1>3, <2>1, SetList DEF VaultInv
<1>11. StateOK'
    BY <1>2, <1>3, <1>10 DEF StateOK, VaultInv, stored, past
<1>12. Top(s)' = Top(h)
    BY <1>4, <1>7, <1>10 DEF Top, Busy
<1>13. ASSUME NEW i \in DOMAIN l
       PROVE  i \in Int /\ i + 1 \in DOMAIN list /\ l[i] = list[i + 1]
    BY <1>4, <1>9
<1>14. /\ Numbered(list, Top(h)) /\ Top(h) <= MaxWrites
       /\ Len(list) < MaxVersions => Len(list) = Top(h)
       /\ Len(list) <= MaxVersions + 1
       /\ \A i \in DOMAIN list : list[i].destroyed => list[i].data = Erased
    BY <1>1, <1>2 DEF Good, ListOK, Busy
<1>15. ListOK(s)'
    <2>0. Len(list) = MaxVersions + 1 /\ Len(l) = MaxVersions /\ MaxVersions \in Nat
        <3>1. Len(list) \in Nat /\ Len(list) > MaxVersions /\ Len(list) <= MaxVersions + 1
            BY <1>4, <1>6, <1>14
        <3>2. Len(l) = Len(list) - 1
            BY <1>9
        <3> QED BY <3>1, <3>2
    <2>1. Numbered(l, Top(h))
        <3>1. ASSUME NEW i \in DOMAIN l
              PROVE  l[i].version = Top(h) - Len(l) + i
            <4>1. list[i + 1].version = Top(h) - Len(list) + (i + 1)
                BY <1>13, <1>14, Zenon DEF Numbered
            <4>2. l[i] = list[i + 1] /\ i \in Int
                BY <1>13
            <4> QED BY <1>4, <2>0, <4>1, <4>2
        <3>2. Len(l) <= Top(h)
            BY <1>4, <1>14, <2>0 DEF Numbered
        <3>3. DOMAIN l = 1 .. Len(l)
            BY <1>9
        <3> QED BY <1>4, <2>0, <3>1, <3>2, <3>3 DEF Numbered
    <2>2. \A i \in DOMAIN l : l[i].destroyed => l[i].data = Erased
        BY <1>13, <1>14
    <2> QED BY <1>7, <1>10, <1>12, <1>14, <2>0, <2>1, <2>2 DEF ListOK, Busy
<1>16. HistoryOK(s)'
    BY <1>1, <1>2, <1>10, <1>12, <1>13 DEF Good, HistoryOK, past
<1>17. StoreOK'
    BY <1>1, <1>2, <1>10, <1>13 DEF Good, StoreOK, DestroyedIsErased, stored, past
<1>18. RequestOK(s)'
    <2>1. ~l[Len(l)].destroyed /\ l[Len(l)].data = h.data
        <3>1. Len(l) \in DOMAIN l /\ Len(l) + 1 = Len(list)
            BY <1>4, <1>6, <1>9
        <3> QED BY <1>6, <1>13, <3>1
    <2>2. /\ s.n = Top(s)' /\ s.n \notin wrote' \cup erased'
          /\ ~list'[Len(list')].destroyed /\ list'[Len(list')].data = s.data
        BY <1>2, <1>6, <1>7, <1>10, <1>12, <2>1 DEF past
    <2>3. current' = 1 /\ reply' = None /\ s.n \in Numbers /\ s.secret = 1 /\ s.data \in Data
        BY <1>2, <1>3, <1>6, <1>7
    <2> QED BY <1>3, <1>7, <2>2, <2>3 DEF RequestOK, StepsOf, Writing, Destroying, Busy
<1> QED BY <1>1, <1>2, <1>7, <1>8, <1>11, <1>15, <1>16, <1>17, <1>18, Onwards DEF Good

-----------------------------------------------------------------------------
(* The steps on the store: the list stays, and the newest version is the one
   that is written. *)
LEMMA PutCiphertextKeeps ==
    ASSUME VaultInv, NEW th \in Threads, PutCiphertext(th)
    PROVE  VaultInv'
<1>1. PICK h \in Requests :
         /\ h = handler[th] /\ h # Idle /\ h.envelope = key /\ Good(h)
         /\ \A x \in Threads \ {th} : handler[x] = Idle
    BY Doing DEF PutCiphertext, At
<1>2. h.at = "encrypt" /\ UNCHANGED <<key, envelope, memory, meta, reply, past>>
    BY <1>1 DEF PutCiphertext, At
<1>3. h.op = "write" /\ h.secret = 1 /\ current = 1 /\ RequestOK(h) /\ reply = None
    BY <1>1, <1>2, OperationOf DEF Good, RequestOK
<1>4. /\ Len(list) \in Nat /\ DOMAIN list = 1 .. Len(list) /\ Top(h) \in Nat
    BY <1>1, ListType DEF Good, VaultInv
<1>5. /\ h.n = Top(h) /\ h.n \notin wrote \cup erased /\ h.n \in Numbers /\ h.data \in Data
      /\ ~list[Len(list)].destroyed /\ list[Len(list)].data = h.data
    <2>1. /\ h.n = Top(h) /\ h.n \notin wrote \cup erased /\ h.data \in Data
          /\ ~list[Len(list)].destroyed /\ list[Len(list)].data = h.data
        BY <1>1, <1>2, <1>3 DEF RequestOK, Writing, Busy
    <2> QED BY <1>4, <2>1 DEF Requests
<1>6. given[h.n] = {h.data}
    <2>1. /\ Len(list) \in DOMAIN list /\ list[Len(list)].version = h.n
        <3>1. /\ Len(list) <= Top(h) /\ (Len(list) < MaxVersions => Len(list) = Top(h))
              /\ \A i \in DOMAIN list : list[i].version = Top(h) - Len(list) + i
            BY <1>1 DEF Good, ListOK, Numbered
        <3>2. Top(h) >= 1
            BY <1>5 DEF Numbers
        <3>3. Len(list) \in DOMAIN list
            BY <1>4, <3>1, <3>2
        <3> QED BY <1>4, <1>5, <3>1, <3>3
    <2> QED BY <1>1, <1>5, <2>1 DEF Good, HistoryOK
<1>7. PICK s \in Requests :
         /\ s = [h EXCEPT !.at = "meta"] /\ s # Idle
         /\ s.at = "meta" /\ s.op = h.op /\ s.n = h.n /\ s.data = h.data
         /\ s.envelope = h.envelope /\ s.secret = h.secret
    BY Moved DEF Steps
<1>8. handler' = [handler EXCEPT ![th] = s]
    BY <1>1, <1>7 DEF PutCiphertext, Goes
<1>9. /\ ciphertexts' \in [Numbers -> {Absent, Torn} \cup [key : 1 .. key, data : Data]]
      /\ \A m \in Numbers : ciphertexts'[m] =
            IF m = h.n THEN [key |-> key, data |-> h.data] ELSE ciphertexts[m]
    <2>1. ciphertexts \in [Numbers -> {Absent, Torn} \cup [key : 1 .. key, data : Data]]
        BY DEF VaultInv, StateOK
    <2>2. key \in 1 .. key
        BY DEF VaultInv, StateOK
    <2>3. ciphertexts' = [ciphertexts EXCEPT ![h.n] = [key |-> key, data |-> h.data]]
        BY <1>1 DEF PutCiphertext
    <2> QED BY <1>5, <2>1, <2>2, <2>3
<1>10. StateOK'
    BY <1>2, <1>9 DEF StateOK, VaultInv, memory, past
<1>11. ListOK(s)' /\ HistoryOK(s)' /\ Top(s)' = Top(h)
    <2>1. Len(list) <= MaxVersions
        BY <1>1, <1>2, <1>4 DEF Good, ListOK, Busy
    <2> QED BY <1>1, <1>2, <1>7, <2>1, ListKept DEF Good, Busy, memory, past
<1>12. list' = list
    BY <1>2, SameList DEF memory
<1>13. StoreOK'
    <2>1. ASSUME NEW m \in Numbers, ciphertexts'[m] \notin {Absent, Torn}, ciphertexts'[m].key = key
          PROVE  given[m] = {ciphertexts'[m].data}
        BY <1>1, <1>6, <1>9, <2>1 DEF Good, StoreOK
    <2>2. ASSUME NEW i \in DOMAIN list, list[i].version \in wrote
          PROVE  list[i].destroyed
                   \/ ciphertexts'[list[i].version] = [key |-> key, data |-> list[i].data]
        <3>1. list[i].version # h.n /\ list[i].version \in Numbers
            BY <1>5, <2>2 DEF VaultInv, StateOK
        <3> QED BY <1>1, <1>9, <2>2, <3>1 DEF Good, StoreOK
    <2>3. DestroyedIsErased'
        <3>1. \A n \in erased : n \in Numbers /\ ciphertexts'[n] = ciphertexts[n]
            BY <1>5, <1>9 DEF VaultInv, StateOK
        <3> QED BY <1>1, <1>2, <3>1 DEF Good, StoreOK, DestroyedIsErased, past
    <2> QED BY <1>1, <1>2, <1>12, <2>1, <2>2, <2>3 DEF Good, StoreOK, past
<1>14. RequestOK(s)'
    <2>1. /\ s.n = Top(s)' /\ s.n \notin wrote' \cup erased'
          /\ ~list'[Len(list')].destroyed /\ list'[Len(list')].data = s.data
          /\ ciphertexts'[s.n] = [key |-> key', data |-> s.data]
        BY <1>2, <1>5, <1>7, <1>9, <1>11, <1>12 DEF past
    <2>2. current' = 1 /\ reply' = None /\ s.n \in Numbers /\ s.secret = 1 /\ s.data \in Data
        BY <1>2, <1>3, <1>5, <1>7 DEF memory
    <2> QED BY <1>3, <1>7, <2>1, <2>2 DEF RequestOK, StepsOf, Writing, Destroying, Busy
<1> QED BY <1>1, <1>2, <1>7, <1>8, <1>10, <1>11, <1>13, <1>14, Onwards DEF Good

LEMMA PutCiphertextFailsKeeps ==
    ASSUME VaultInv, NEW th \in Threads, PutCiphertextFails(th)
    PROVE  VaultInv'
<1>1. PICK h \in Requests :
         /\ h = handler[th] /\ h # Idle /\ h.envelope = key /\ Good(h)
         /\ \A x \in Threads \ {th} : handler[x] = Idle
    BY Doing DEF PutCiphertextFails, At
<1>2. /\ h.at = "encrypt" /\ UNCHANGED <<key, envelope, memory, meta, past>>
      /\ reply' = Failed /\ handler' = [handler EXCEPT ![th] = Idle]
    BY <1>1 DEF PutCiphertextFails, At, Returns
<1>3. h.op = "write" /\ RequestOK(h)
    BY <1>1, <1>2, OperationOf DEF Good, RequestOK
<1>4. h.n \notin wrote \cup erased
    BY <1>1, <1>2, <1>3 DEF RequestOK, Writing, Busy
<1>5. /\ ciphertexts' \in [Numbers -> {Absent, Torn} \cup [key : 1 .. key, data : Data]]
      /\ \A m \in Numbers : \/ ciphertexts'[m] = ciphertexts[m]
                            \/ m = h.n /\ ciphertexts'[m] = Torn
    <2>1. ciphertexts \in [Numbers -> {Absent, Torn} \cup [key : 1 .. key, data : Data]]
        BY DEF VaultInv, StateOK
    <2>2. ciphertexts' = [ciphertexts EXCEPT ![h.n] = Torn] \/ ciphertexts' = ciphertexts
        BY <1>1 DEF PutCiphertextFails
    <2> QED BY <2>1, <2>2
<1>6. StateOK'
    BY <1>2, <1>5 DEF StateOK, VaultInv, memory, past
<1>7. ListOK(Idle)' /\ HistoryOK(Idle)' /\ list' = list
    <2>1. Len(list) <= MaxVersions
        BY <1>1, <1>2, ListType DEF Good, ListOK, Busy, VaultInv
    <2> QED BY <1>1, <1>2, <2>1, ListKept, ListStays DEF Good, Busy, memory, past
<1>8. StoreOK'
    <2>1. ASSUME NEW m \in Numbers, ciphertexts'[m] \notin {Absent, Torn}, ciphertexts'[m].key = key
          PROVE  given[m] = {ciphertexts'[m].data}
        BY <1>1, <1>5, <2>1 DEF Good, StoreOK
    <2>2. \A m \in wrote \cup erased : m \in Numbers /\ ciphertexts'[m] = ciphertexts[m]
        BY <1>4, <1>5 DEF VaultInv, StateOK
    <2>3. ASSUME NEW i \in DOMAIN list, list[i].version \in wrote
          PROVE  list[i].destroyed
                   \/ ciphertexts'[list[i].version] = [key |-> key, data |-> list[i].data]
        BY <1>1, <2>2, <2>3 DEF Good, StoreOK
    <2>4. DestroyedIsErased'
        BY <1>1, <1>2, <2>2 DEF Good, StoreOK, DestroyedIsErased, past
    <2> QED BY <1>1, <1>2, <1>7, <2>1, <2>3, <2>4 DEF Good, StoreOK, past
<1>9. RequestOK(Idle)'
    BY DEF RequestOK
<1> QED BY <1>1, <1>2, <1>6, <1>7, <1>8, <1>9, Onwards DEF Good

LEMMA PutMetaKeeps ==
    ASSUME VaultInv, NEW th \in Threads, PutMeta(th)
    PROVE  VaultInv'
<1>1. PICK h \in Requests :
         /\ h = handler[th] /\ h # Idle /\ h.envelope = key /\ Good(h)
         /\ \A x \in Threads \ {th} : handler[x] = Idle
    BY Doing DEF PutMeta, At
<1>2. /\ h.at = "meta" /\ UNCHANGED <<key, envelope, memory, ciphertexts, given>>
      /\ reply' = [op |-> h.op, n |-> h.n, data |-> None]
      /\ handler' = [handler EXCEPT ![th] = Idle]
      /\ wrote' = IF h.op = "write" THEN wrote \cup {h.n} ELSE wrote
      /\ erased' = IF h.op = "destroy" THEN erased \cup {h.n} ELSE erased
    BY <1>1 DEF PutMeta, At, Returns
<1>3. /\ h.op \in Operations \ {"read"} /\ RequestOK(h)
      /\ h.secret = 1 /\ current = 1 /\ h.n \in Numbers
    BY <1>1, <1>2, OperationOf DEF Good, RequestOK, Requests
<1>4. meta' = list
    BY <1>1, <1>3 DEF PutMeta, Versions, list
<1>5. /\ list \in Lists /\ Len(list) \in Nat /\ DOMAIN list = 1 .. Len(list) /\ Top(h) \in Nat
      /\ Len(list) <= MaxVersions
    BY <1>1, <1>2, ListType DEF Good, VaultInv, ListOK, Busy
<1>6. ListOK(Idle)' /\ Top(Idle)' = Top(h) /\ list' = list
    BY <1>1, <1>2, <1>5, ListStays DEF Good, Busy, memory
<1>7. StateOK'
    BY <1>2, <1>3, <1>4, <1>5 DEF StateOK, VaultInv, memory
<1>8. h.op = "write" => /\ h.n = Top(h) /\ h.n \notin wrote \cup erased
                        /\ ~list[Len(list)].destroyed /\ list[Len(list)].data = h.data
                        /\ ciphertexts[h.n] = [key |-> key, data |-> h.data]
    BY <1>1, <1>2, <1>3 DEF RequestOK, Writing, Busy
<1>9. h.op = "destroy" => /\ h.n <= Top(h) /\ ciphertexts[h.n] = Absent
                          /\ \A i \in DOMAIN list : list[i].version = h.n => list[i].destroyed
    BY <1>1, <1>2, <1>3 DEF RequestOK, Destroying, Busy
<1>10. \A i \in DOMAIN list : list[i].version = Top(h) => i = Len(list)
    BY <1>1, <1>5 DEF Good, ListOK, Numbered
<1>11. HistoryOK(Idle)'
    <2>1. wrote' \subseteq 1 .. Top(h) /\ erased' \subseteq 1 .. Top(h)
        <3>1. wrote \subseteq 1 .. Top(h) /\ erased \subseteq 1 .. Top(h)
            BY <1>1 DEF Good, HistoryOK
        <3>2. h.op \in {"write", "destroy"} => h.n \in 1 .. Top(h)
            BY <1>3, <1>5, <1>8, <1>9 DEF Numbers
        <3> QED BY <1>2, <3>1, <3>2
    <2> QED BY <1>1, <1>2, <1>6, <2>1 DEF Good, HistoryOK
<1>12. StoreOK'
    <2>1. ASSUME NEW i \in DOMAIN list, list[i].version \in wrote'
          PROVE  list[i].destroyed
                   \/ ciphertexts[list[i].version] = [key |-> key, data |-> list[i].data]
        <3>1. CASE list[i].version \in wrote
            BY <1>1, <3>1 DEF Good, StoreOK
        <3>2. CASE list[i].version \notin wrote
            <4>1. h.op = "write" /\ list[i].version = h.n
                BY <1>2, <2>1, <3>2
            <4> QED BY <1>8, <1>10, <4>1
        <3> QED BY <3>1, <3>2
    <2>2. ASSUME NEW i \in DOMAIN list, list[i].version \in erased'
          PROVE  list[i].destroyed /\ list[i].data = Erased
        <3>1. list[i].destroyed
            BY <1>1, <1>2, <1>9, <2>2 DEF Good, StoreOK
        <3> QED BY <1>1, <3>1 DEF Good, ListOK
    <2>3. DestroyedIsErased'
        <3>1. \A n \in erased' : ciphertexts[n] = Absent
            BY <1>1, <1>2, <1>9 DEF Good, StoreOK, DestroyedIsErased
        <3> QED BY <1>2, <1>4, <2>2, <3>1 DEF DestroyedIsErased
    <2> QED BY <1>1, <1>2, <1>4, <1>5, <1>6, <2>1, <2>2, <2>3 DEF Good, StoreOK
<1>13. RequestOK(Idle)' /\ ReadReturnsWritten'
    BY <1>2, <1>3 DEF RequestOK, ReadReturnsWritten
<1> QED BY <1>1, <1>2, <1>6, <1>7, <1>11, <1>12, <1>13, Onwards DEF Good

LEMMA PutMetaFailsKeeps ==
    ASSUME VaultInv, NEW th \in Threads, PutMetaFails(th)
    PROVE  VaultInv'
<1>1. PICK h \in Requests :
         /\ h = handler[th] /\ h # Idle /\ h.envelope = key /\ Good(h)
         /\ \A x \in Threads \ {th} : handler[x] = Idle
    BY Doing DEF PutMetaFails, At
<1>2. /\ h.at = "meta" /\ UNCHANGED <<key, envelope, memory, ciphertexts, past>>
      /\ meta' \in {meta, Torn} /\ reply' = Failed
      /\ handler' = [handler EXCEPT ![th] = Idle]
    BY <1>1 DEF PutMetaFails, At, Returns
<1>3. ListOK(Idle)' /\ HistoryOK(Idle)' /\ list' = list
    <2>1. Len(list) <= MaxVersions
        BY <1>1, <1>2, ListType DEF Good, ListOK, Busy, VaultInv
    <2> QED BY <1>1, <1>2, <2>1, ListKept, ListStays DEF Good, Busy, memory, past
<1>4. StateOK'
    BY <1>2 DEF StateOK, VaultInv, memory, past
<1>5. StoreOK'
    BY <1>1, <1>2, <1>3 DEF Good, StoreOK, DestroyedIsErased, memory, past
<1>6. RequestOK(Idle)'
    BY DEF RequestOK
<1> QED BY <1>1, <1>2, <1>3, <1>4, <1>5, <1>6, Onwards DEF Good

LEMMA DeleteCiphertextKeeps ==
    ASSUME VaultInv, NEW th \in Threads, DeleteCiphertext(th)
    PROVE  VaultInv'
<1>1. PICK h \in Requests :
         /\ h = handler[th] /\ h # Idle /\ h.envelope = key /\ Good(h)
         /\ \A x \in Threads \ {th} : handler[x] = Idle
    BY Doing DEF DeleteCiphertext, At
<1>2. h.at = "erase" /\ UNCHANGED <<key, envelope, memory, meta, reply, past>>
    BY <1>1 DEF DeleteCiphertext, At
<1>3. h.op = "destroy" /\ h.secret = 1 /\ current = 1 /\ RequestOK(h) /\ reply = None
      /\ h.n \in Numbers
    BY <1>1, <1>2, OperationOf DEF Good, RequestOK
<1>4. /\ h.n <= Top(h)
      /\ \A i \in DOMAIN list : list[i].version = h.n => list[i].destroyed
    BY <1>1, <1>2, <1>3 DEF RequestOK, Destroying, Busy
<1>5. PICK s \in Requests :
         /\ s = [h EXCEPT !.at = "meta"] /\ s # Idle
         /\ s.at = "meta" /\ s.op = h.op /\ s.n = h.n /\ s.data = h.data
         /\ s.envelope = h.envelope /\ s.secret = h.secret
    BY Moved DEF Steps
<1>6. handler' = [handler EXCEPT ![th] = s]
    BY <1>1, <1>5 DEF DeleteCiphertext, Goes
<1>7. /\ ciphertexts' \in [Numbers -> {Absent, Torn} \cup [key : 1 .. key, data : Data]]
      /\ \A m \in Numbers : ciphertexts'[m] = IF m = h.n THEN Absent ELSE ciphertexts[m]
    <2>1. ciphertexts \in [Numbers -> {Absent, Torn} \cup [key : 1 .. key, data : Data]]
        BY DEF VaultInv, StateOK
    <2>2. ciphertexts' = [ciphertexts EXCEPT ![h.n] = Absent]
        BY <1>1 DEF DeleteCiphertext
    <2> QED BY <1>3, <2>1, <2>2
<1>8. StateOK'
    BY <1>2, <1>7 DEF StateOK, VaultInv, memory, past
<1>9. ListOK(s)' /\ HistoryOK(s)' /\ Top(s)' = Top(h) /\ list' = list
    <2>1. Len(list) <= MaxVersions
        BY <1>1, <1>2, ListType DEF Good, ListOK, Busy, VaultInv
    <2> QED BY <1>1, <1>2, <1>5, <2>1, ListKept, ListStays DEF Good, Busy, memory, past
<1>10. StoreOK'
    <2>1. ASSUME NEW m \in Numbers, ciphertexts'[m] \notin {Absent, Torn}, ciphertexts'[m].key = key
          PROVE  given[m] = {ciphertexts'[m].data}
        BY <1>1, <1>7, <2>1 DEF Good, StoreOK
    <2>2. ASSUME NEW i \in DOMAIN list, list[i].version \in wrote
          PROVE  list[i].destroyed
                   \/ ciphertexts'[list[i].version] = [key |-> key, data |-> list[i].data]
        <3>1. list[i].version \in Numbers
            BY <2>2 DEF VaultInv, StateOK
        <3> QED BY <1>1, <1>4, <1>7, <2>2, <3>1 DEF Good, StoreOK
    <2>3. DestroyedIsErased'
        <3>1. \A n \in erased : n \in Numbers /\ ciphertexts'[n] \in {ciphertexts[n], Absent}
            BY <1>7 DEF VaultInv, StateOK
        <3> QED BY <1>1, <1>2, <3>1 DEF Good, StoreOK, DestroyedIsErased, past
    <2> QED BY <1>1, <1>2, <1>9, <2>1, <2>2, <2>3 DEF Good, StoreOK, past
<1>11. RequestOK(s)'
    <2>1. /\ s.n <= Top(s)' /\ ciphertexts'[s.n] = Absent
          /\ \A i \in DOMAIN list' : list'[i].version = s.n => list'[i].destroyed
        BY <1>3, <1>4, <1>5, <1>7, <1>9
    <2>2. current' = 1 /\ reply' = None /\ s.n \in Numbers /\ s.secret = 1
        BY <1>2, <1>3, <1>5 DEF memory
    <2> QED BY <1>3, <1>5, <2>1, <2>2 DEF RequestOK, StepsOf, Writing, Destroying, Busy
<1> QED BY <1>1, <1>2, <1>5, <1>6, <1>8, <1>9, <1>10, <1>11, Onwards DEF Good

LEMMA DeleteCiphertextFailsKeeps ==
    ASSUME VaultInv, NEW th \in Threads, DeleteCiphertextFails(th)
    PROVE  VaultInv'
<1>1. PICK h \in Requests :
         /\ h = handler[th] /\ h # Idle /\ h.envelope = key /\ Good(h)
         /\ \A x \in Threads \ {th} : handler[x] = Idle
    BY Doing DEF DeleteCiphertextFails, At
<1>2. /\ h.at = "erase" /\ UNCHANGED <<key, envelope, memory, stored, past>>
      /\ reply' = Failed /\ handler' = [handler EXCEPT ![th] = Idle]
    BY <1>1 DEF DeleteCiphertextFails, At, Returns
<1>3. Len(list) <= MaxVersions
    BY <1>1, <1>2, ListType DEF Good, ListOK, Busy, VaultInv
<1> QED BY <1>1, <1>2, <1>3, OnlyItself DEF Busy

-----------------------------------------------------------------------------
LEMMA LookUpKeeps ==
    ASSUME VaultInv, NEW th \in Threads, LookUp(th)
    PROVE  VaultInv'
<1>1. PICK h \in Requests :
         /\ h = handler[th] /\ h # Idle /\ h.envelope = key /\ Good(h)
         /\ \A x \in Threads \ {th} : handler[x] = Idle
    BY Doing DEF LookUp, At
<1>2. h.at = "read" /\ UNCHANGED <<key, envelope, memory, stored, past>>
    BY <1>1 DEF LookUp, At
<1>3. h.op = "read" /\ h.secret = 1 /\ current = 1 /\ RequestOK(h) /\ reply = None
    BY <1>1, <1>2, OperationOf DEF Good, RequestOK
<1>4. /\ DOMAIN list = 1 .. Len(list) /\ Len(list) <= MaxVersions /\ Numbered(list, Top(h))
      /\ \A i \in DOMAIN list : list[i] \in VersionRecord
    BY <1>1, <1>2, ListType DEF Good, VaultInv, ListOK, Busy
<1>5. Versions(th) = list
    BY <1>1, <1>3 DEF Versions, list
<1> DEFINE i == Lookup(list, h.n)
<1>6. i \in 0 .. Len(list)
    <2>1. h.n \in Int \cup {None}
        BY DEF Requests, Numbers
    <2> QED BY <1>4, <2>1, LookupIs
<1>7. CASE i = 0 \/ list[i].deleted
    <2>1. reply' = Failed /\ handler' = [handler EXCEPT ![th] = Idle]
        BY <1>1, <1>5, <1>7 DEF LookUp, Returns
    <2> QED BY <1>1, <1>2, <1>4, <2>1, OnlyItself DEF Busy
<1>8. CASE ~(i = 0 \/ list[i].deleted)
    <2>1. PICK n \in Numbers : n = list[i].version
        BY <1>4, <1>6, <1>8 DEF VersionRecord
    <2>2. PICK s \in Requests :
             /\ s = [h EXCEPT !.n = n, !.at = "fetch"] /\ s # Idle
             /\ s.at = "fetch" /\ s.op = h.op /\ s.n = n /\ s.data = h.data
             /\ s.envelope = h.envelope /\ s.secret = h.secret
        <3>1. [h EXCEPT !.n = n, !.at = "fetch"] \in Requests
            BY DEF Requests, Steps
        <3> QED BY <3>1, NotIdle DEF Requests
    <2>3. handler' = [handler EXCEPT ![th] = s] /\ reply' = reply
        <3>1. handler' = [handler EXCEPT ![th].n = n, ![th].at = "fetch"] /\ reply' = reply
            BY <1>1, <1>5, <1>8, <2>1 DEF LookUp
        <3> QED BY <1>1, <2>2, <3>1
    <2>4. RequestOK(s)'
        BY <1>2, <1>3, <2>2, <2>3 DEF RequestOK, StepsOf, Writing, Destroying, Busy, memory
    <2>5. h.at # "append" /\ ~Busy(s, {"append"})
        BY <1>2, <2>2 DEF Busy
    <2> QED BY <1>1, <1>2, <1>4, <2>2, <2>3, <2>4, <2>5, OnlyItself
<1> QED BY <1>7, <1>8

LEMMA FetchKeeps ==
    ASSUME VaultInv, NEW th \in Threads, Fetch(th)
    PROVE  VaultInv'
<1>1. PICK h \in Requests :
         /\ h = handler[th] /\ h # Idle /\ h.envelope = key /\ Good(h)
         /\ \A x \in Threads \ {th} : handler[x] = Idle
    BY Doing DEF Fetch, At
<1>2. h.at = "fetch" /\ UNCHANGED <<key, envelope, memory, stored, past>>
    BY <1>1 DEF Fetch, At
<1>3. h.op = "read" /\ h.n \in Numbers
    BY <1>1, <1>2, OperationOf DEF Good, RequestOK
<1>4. Len(list) <= MaxVersions
    BY <1>1, <1>2, ListType DEF Good, VaultInv, ListOK, Busy
<1>5. PICK c : c = ciphertexts[h.n]
    OBVIOUS
<1>6. CASE c \in {Absent, Torn} \/ c.key # h.envelope
    <2>1. reply' = Failed /\ handler' = [handler EXCEPT ![th] = Idle]
        BY <1>1, <1>5, <1>6 DEF Fetch, Returns
    <2> QED BY <1>1, <1>2, <1>4, <2>1, OnlyItself DEF Busy
<1>7. CASE ~(c \in {Absent, Torn} \/ c.key # h.envelope)
    <2>1. /\ reply' = [op |-> "read", n |-> h.n, data |-> c.data]
          /\ handler' = [handler EXCEPT ![th] = Idle]
        BY <1>1, <1>5, <1>7 DEF Fetch, Returns
    <2>2. given[h.n] = {c.data}
        BY <1>1, <1>3, <1>5, <1>7 DEF Good, StoreOK
    <2>3. c.data \in Data
        BY <1>3, <1>5, <1>7 DEF VaultInv, StateOK
    <2>4. StateOK' /\ ReadReturnsWritten'
        BY <1>2, <1>3, <2>1, <2>2, <2>3
           DEF VaultInv, StateOK, ReadReturnsWritten, memory, stored, past, Operations
    <2>5. ListOK(Idle)' /\ HistoryOK(Idle)' /\ StoreOK' /\ RequestOK(Idle)'
        BY <1>1, <1>2, <1>4, ListKept, StoreKept
           DEF Good, Busy, RequestOK, memory, stored, past
    <2> QED BY <1>1, <1>2, <2>1, <2>4, <2>5, Onwards DEF Good
<1> QED BY <1>6, <1>7

(* What soft_delete, undelete and destroy make of a version. *)
LEMMA ChangedVersion ==
    ASSUME NEW u \in VersionRecord, NEW op \in {"delete", "undelete", "destroy"},
           op # "destroy" => ~u.destroyed
    PROVE  \E v \in VersionRecord :
              /\ v = Changed(op, u) /\ v.version = u.version
              /\ op # "destroy" => v.data = u.data /\ ~v.destroyed
              /\ op = "destroy" => v.destroyed /\ v.data = Erased
<1>1. CASE op = "delete"
    <2>1. [u EXCEPT !.deleted = TRUE] \in VersionRecord
        BY DEF VersionRecord
    <2> QED BY <1>1, <2>1 DEF Changed, Deleted, VersionRecord
<1>2. CASE op = "undelete"
    <2>1. [u EXCEPT !.deleted = FALSE] \in VersionRecord
        BY DEF VersionRecord
    <2> QED BY <1>2, <2>1 DEF Changed, Undeleted, VersionRecord
<1>3. CASE op = "destroy"
    <2>1. Destroyed(u.version) \in VersionRecord
        BY DEF VersionRecord, Destroyed
    <2> QED BY <1>3, <2>1 DEF Changed, Destroyed
<1> QED BY <1>1, <1>2, <1>3

LEMMA ChangeVersionKeeps ==
    ASSUME VaultInv, NEW th \in Threads, ChangeVersion(th)
    PROVE  VaultInv'
<1>1. PICK h \in Requests :
         /\ h = handler[th] /\ h # Idle /\ h.envelope = key /\ Good(h)
         /\ \A x \in Threads \ {th} : handler[x] = Idle
    BY Doing DEF ChangeVersion, At
<1>2. /\ h.at \in {"delete", "undelete", "destroy"}
      /\ UNCHANGED <<key, envelope, current, stored, past>>
    BY <1>1 DEF ChangeVersion, At
<1>3. h.op = h.at /\ h.secret = 1 /\ current = 1 /\ RequestOK(h) /\ reply = None
    BY <1>1, <1>2, OperationOf DEF Good, RequestOK
<1>4. /\ list \in Lists /\ Len(list) \in Nat /\ DOMAIN list = 1 .. Len(list)
      /\ NextNumber \in Nat /\ Top(h) = NextNumber - 1 /\ Top(h) \in Nat
      /\ \A j \in DOMAIN list : list[j] \in VersionRecord
    BY <1>1, <1>2, ListType DEF Good, VaultInv, Top, Busy
<1>5. Versions(th) = list
    BY <1>1, <1>3 DEF Versions, list
<1>6. /\ Numbered(list, Top(h)) /\ Top(h) <= MaxWrites
      /\ Len(list) < MaxVersions => Len(list) = Top(h)
      /\ Len(list) <= MaxVersions
      /\ \A j \in DOMAIN list : list[j].destroyed => list[j].data = Erased
    BY <1>1, <1>2, <1>4 DEF Good, ListOK, Busy
<1>7. PICK i : i = Target(th)
    OBVIOUS
<1>8. i \in 0 .. Len(list) /\ (i # 0 /\ h.op # "destroy" => ~list[i].destroyed)
    <2>1. h.n \in Int \cup {None} /\ (h.op # "delete" => h.n \in Int)
        BY <1>1, <1>2, <1>3 DEF Requests, Numbers, RequestOK
    <2>2. CASE h.op = "delete"
        <3>1. i = Lookup(list, h.n)
            BY <1>1, <1>5, <1>7, <2>2 DEF Target
        <3> QED BY <1>6, <2>1, <3>1, LookupIs
    <2>3. CASE h.op # "delete"
        <3>1. Find(list, h.n) \in 0 .. Len(list)
            <4>1. PICK m \in Int : m = h.n
                BY <2>1, <2>3
            <4>2. Find(list, m) = IF m > Top(h) - Len(list) /\ m <= Top(h)
                                  THEN m - (Top(h) - Len(list)) ELSE 0
                BY <1>6, FoundByNumber
            <4> QED BY <1>4, <4>1, <4>2
        <3>2. CASE h.op = "undelete"
            <4>1. i = IF Find(list, h.n) # 0 /\ list[Find(list, h.n)].destroyed
                      THEN 0 ELSE Find(list, h.n)
                BY <1>1, <1>5, <1>7, <3>2 DEF Target
            <4> QED BY <1>4, <3>1, <4>1
        <3>3. CASE h.op = "destroy"
            <4>1. i = Find(list, h.n)
                BY <1>1, <1>5, <1>7, <3>3 DEF Target
            <4> QED BY <3>1, <3>3, <4>1
        <3> QED BY <1>2, <1>3, <2>3, <3>2, <3>3
    <2> QED BY <2>2, <2>3
<1>9. CASE i = 0
    <2>1. reply' = Failed /\ handler' = [handler EXCEPT ![th] = Idle] /\ UNCHANGED secrets
        BY <1>7, <1>9 DEF ChangeVersion, Returns
    <2>2. UNCHANGED memory /\ h.at # "append" /\ ~Busy(Idle, {"append"})
        BY <1>2, <2>1 DEF memory, Busy
    <2> QED BY <1>1, <1>2, <1>6, <2>1, <2>2, OnlyItself
<1>10. CASE i # 0
    <2>1. i \in DOMAIN list
        BY <1>4, <1>8, <1>10
    <2>2. PICK u \in VersionRecord : u = list[i]
        BY <1>4, <2>1
    <2>3. PICK v \in VersionRecord :
             /\ v = Changed(h.op, u) /\ v.version = u.version
             /\ h.op # "destroy" => v.data = u.data /\ ~v.destroyed
             /\ h.op = "destroy" => v.destroyed /\ v.data = Erased
        BY <1>2, <1>3, <1>8, <1>10, <2>2, ChangedVersion
    <2>4. PICK l \in Lists : l = [list EXCEPT ![i] = v]
        BY <1>4, <2>1, ExceptSeq DEF Lists
    <2>5. /\ Len(l) = Len(list) /\ DOMAIN l = 1 .. Len(l)
          /\ \A j \in DOMAIN l : l[j] = IF j = i THEN v ELSE list[j]
        BY <1>4, <2>1, <2>4 DEF Lists
    <2>6. PICK n \in Numbers : n = u.version
        BY DEF VersionRecord
    <2>7. PICK step \in Steps : step = After(h.op)
        BY DEF After, Steps
    <2>8. PICK s \in Requests :
             /\ s = [h EXCEPT !.n = n, !.at = step] /\ s # Idle
             /\ s.at = step /\ s.op = h.op /\ s.n = n /\ s.data = h.data
             /\ s.envelope = h.envelope /\ s.secret = h.secret
        <3>1. [h EXCEPT !.n = n, !.at = step] \in Requests
            BY DEF Requests
        <3> QED BY <3>1, NotIdle DEF Requests
    <2>9. handler' = [handler EXCEPT ![th] = s] /\ reply' = reply
        <3>1. handler' = [handler EXCEPT ![th].n = n, ![th].at = step] /\ reply' = reply
            BY <1>1, <1>5, <1>7, <1>10, <2>2, <2>6, <2>7 DEF ChangeVersion
        <3> QED BY <1>1, <2>8, <3>1
    <2>10. /\ secrets' \in Seq([next : Nat, versions : Lists]) /\ Len(secrets') = 1
           /\ list' = l /\ NextNumber' = NextNumber
        <3>1. secrets' = [secrets EXCEPT ![1].versions = l]
            BY <1>1, <1>3, <1>5, <1>7, <1>10, <2>2, <2>3, <2>4 DEF ChangeVersion, SetVersions
        <3> QED BY <1>2, <1>3, <3>1, SetList DEF VaultInv
    <2>11. StateOK'
        BY <1>2, <1>3, <2>9, <2>10 DEF StateOK, VaultInv, stored, past
    <2>12. s.at \in {"erase", "meta"} /\ (h.op = "destroy" => s.at = "erase")
           /\ (h.op # "destroy" => s.at = "meta")
        BY <2>7, <2>8 DEF After
    <2>13. Top(s)' = Top(h)
        BY <1>4, <2>10, <2>12 DEF Top, Busy
    <2>14. ASSUME NEW j \in DOMAIN l
           PROVE  /\ j \in DOMAIN list /\ l[j].version = list[j].version
                  /\ h.op = "destroy" /\ j = i => l[j].destroyed
                  /\ \/ l[j].destroyed /\ l[j].data = Erased
                     \/ (l[j].destroyed <=> list[j].destroyed) /\ l[j].data = list[j].data
        <3>1. CASE j = i
            <4>1. j \in DOMAIN list /\ l[j] = v /\ list[j] = u
                BY <2>1, <2>2, <2>5, <3>1
            <4>2. h.op # "destroy" => ~u.destroyed
                BY <1>8, <1>10, <2>2
            <4> QED BY <2>3, <4>1, <4>2
        <3>2. CASE j # i
            BY <1>4, <2>5, <3>2
        <3> QED BY <3>1, <3>2
    <2>15. ListOK(s)'
        <3>1. Numbered(l, Top(h))
            BY <1>4, <1>6, <2>5, <2>14 DEF Numbered
        <3>2. \A j \in DOMAIN l : l[j].destroyed => l[j].data = Erased
            BY <1>6, <2>14
        <3> QED BY <1>4, <1>6, <2>5, <2>10, <2>12, <2>13, <3>1, <3>2 DEF ListOK, Busy
    <2>16. HistoryOK(s)'
        BY <1>1, <1>2, <2>10, <2>13, <2>14 DEF Good, HistoryOK, past
    <2>17. StoreOK'
        BY <1>1, <1>2, <2>10, <2>14 DEF Good, StoreOK, DestroyedIsErased, stored, past
    <2>18. RequestOK(s)'
        <3>1. n = Top(h) - Len(list) + i
            BY <1>6, <2>1, <2>2, <2>6 DEF Numbered
        <3>2. n <= Top(h)
            BY <1>4, <1>8, <3>1
        <3>3. h.op = "destroy" => \A j \in DOMAIN l : l[j].version = n => l[j].destroyed
            <4>1. \A j \in DOMAIN l : l[j].version = n => j = i
                BY <1>4, <1>6, <2>1, <2>14, <3>1 DEF Numbered
            <4> QED BY <2>14, <4>1
        <3>4. current' = 1 /\ reply' = None /\ s.n \in Numbers /\ s.secret = 1 /\ s.n = n
            BY <1>2, <1>3, <2>8, <2>9
        <3> QED BY <1>2, <1>3, <2>8, <2>10, <2>12, <2>13, <3>2, <3>3, <3>4
                DEF RequestOK, StepsOf, Writing, Destroying, Busy
    <2> QED BY <1>1, <1>2, <2>8, <2>9, <2>11, <2>15, <2>16, <2>17, <2>18, Onwards DEF Good
<1> QED BY <1>9, <1>10

-----------------------------------------------------------------------------
(* Nothing is under way when a request enters, or the vault is sealed. *)
LEMMA Quiet ==
    ASSUME VaultInv, \A th \in Threads : handler[th] = Idle, NEW r,
           UNCHANGED <<key, memory, stored, past>>,
           ~Busy(r, {"append"})
    PROVE  ListOK(r)' /\ HistoryOK(r)' /\ StoreOK'
<1>1. Good(Idle)
    BY DEF VaultInv, Serial
<1>2. Len(list) <= MaxVersions /\ ~Busy(Idle, {"append"})
    BY <1>1, ListType DEF Good, ListOK, Busy, VaultInv
<1> QED BY <1>1, <1>2, ListKept, StoreKept DEF Good, memory, stored, past

LEMMA EnterKeeps ==
    ASSUME ~Concurrent, VaultInv, NEW th \in Threads, NEW op \in Operations,
           NEW n \in Numbers \cup {None}, NEW d, Enter(th, op, n, d),
           op \in {"undelete", "destroy"} => n \in Numbers,
           d = IF op = "write" THEN <<key, th, NextNumber>> ELSE None
    PROVE  VaultInv'
<1>1. /\ \A x \in Threads : handler[x] = Idle
      /\ envelope = key /\ reply' = None
      /\ UNCHANGED <<key, envelope, memory, stored, past>>
    BY DEF Enter, Free, VaultInv, StateOK
<1>2. NextNumber \in Nat /\ NextNumber - 1 \in Nat
    <2>1. Good(Idle)
        BY <1>1 DEF VaultInv, Serial
    <2> QED BY <2>1, ListType DEF Good, VaultInv
<1>3. op = "write" => NextNumber \in Numbers
    <2>1. CASE op = "write"
        <3>1. Writers = {}
            BY <1>1 DEF Writers
        <3>2. Cardinality(Writers) = 0
            BY <3>1, FS_EmptySet
        <3>3. Cardinality(Writers) + NextNumber <= MaxWrites
            BY <2>1 DEF Enter, WritesLeft
        <3> QED BY <1>2, <3>2, <3>3 DEF Numbers
    <2> QED BY <2>1
<1>4. key \in 1 .. MaxRestarts + 1
    BY DEF VaultInv, StateOK
<1>5. d \in Data \cup {None} /\ (op = "write" => d \in Data)
    BY <1>3, <1>4 DEF Data
<1>6. PICK c : c = d
    OBVIOUS
<1>7. PICK k \in 1 .. MaxRestarts + 1 : k = key
    BY <1>4
<1>8. PICK s \in Requests :
         /\ s = [at |-> "find", op |-> op, n |-> n, data |-> c, envelope |-> k, secret |-> 0]
         /\ s # Idle
    <2>1. [at |-> "find", op |-> op, n |-> n, data |-> c, envelope |-> k, secret |-> 0] \in Requests
        BY <1>5, <1>6 DEF Requests, Steps
    <2> QED BY <2>1, NotIdle
<1>9. /\ s.at = "find" /\ s.op = op /\ s.n = n /\ s.data = c /\ s.envelope = key /\ s.secret = 0
    BY <1>7, <1>8
<1>10. handler' = [handler EXCEPT ![th] = s]
    BY <1>1, <1>6, <1>7, <1>8 DEF Enter
<1>11. ListOK(s)' /\ HistoryOK(s)' /\ StoreOK'
    BY <1>1, <1>9, Quiet DEF Busy
<1>12. NextNumber' = NextNumber
    BY <1>1, SameList DEF memory
<1>13. RequestOK(s)'
    <2>1. s.at \in StepsOf[s.op]
        BY <1>9 DEF StepsOf, Operations
    <2>2. op = "write" => NextNumber' <= MaxWrites
        BY <1>3, <1>12 DEF Numbers
    <2> QED BY <1>1, <1>5, <1>6, <1>9, <2>1, <2>2 DEF RequestOK, Writing, Destroying, Busy
<1>14. StateOK' /\ ReadReturnsWritten'
    BY <1>1 DEF VaultInv, StateOK, ReadReturnsWritten, memory, stored, past
<1>15. HandlerOK' /\ Serial'
    BY <1>1, <1>9, <1>10, <1>11, <1>13, Proceed DEF VaultInv, Good
<1> QED BY <1>14, <1>15 DEF VaultInv

LEMMA SealKeeps ==
    ASSUME ~Concurrent, VaultInv, Seal \/ Unseal
    PROVE  VaultInv'
<1>1. /\ \A x \in Threads : handler[x] = Idle
      /\ envelope' \in {None, key}
      /\ UNCHANGED <<key, memory, stored, handler, reply, past>>
    BY DEF Seal, Unseal, Free
<1>2. ListOK(Idle)' /\ HistoryOK(Idle)' /\ StoreOK' /\ RequestOK(Idle)'
    BY <1>1, Quiet DEF Busy, RequestOK
<1>3. StateOK' /\ HandlerOK' /\ ReadReturnsWritten'
    BY <1>1 DEF VaultInv, StateOK, HandlerOK, ReadReturnsWritten, memory, stored, past
<1>4. Serial'
    BY <1>1, <1>2 DEF Serial, Good
<1> QED BY <1>3, <1>4 DEF VaultInv

(* A vault that was just made: no list, no history, nothing under its key. *)
Vacant ==
    /\ secrets = << >> /\ current = 0
    /\ \A th \in Threads : handler[th] = Idle
    /\ \A m \in Numbers : given[m] = {}
    /\ wrote = {} /\ erased = {} /\ reply = Failed
    /\ \A m \in Numbers : ciphertexts[m] \in {Absent, Torn} \/ ciphertexts[m].key # key

LEMMA Fresh ==
    Vacant => Serial /\ ReadReturnsWritten
<1> SUFFICES ASSUME Vacant PROVE Serial /\ ReadReturnsWritten
    OBVIOUS
<1> USE DEF Vacant
<1>1. list = << >> /\ NextNumber = 1 /\ Top(Idle) = 0
    BY DEF list, NextNumber, Top, Busy
<1>2. Len(list) = 0 /\ DOMAIN list = {}
    BY <1>1
<1>3. ListOK(Idle)
    BY <1>1, <1>2 DEF ListOK, Numbered, Busy
<1>4. HistoryOK(Idle)
    BY <1>1, <1>2 DEF HistoryOK, Numbers
<1>5. StoreOK
    BY <1>2 DEF StoreOK, DestroyedIsErased
<1> QED BY <1>3, <1>4, <1>5 DEF Serial, Good, RequestOK, ReadReturnsWritten

LEMMA RestartKeeps ==
    ASSUME VaultInv, Restart
    PROVE  VaultInv'
<1>1. /\ key \in 1 .. MaxRestarts + 1 /\ key' \in 1 .. MaxRestarts + 1 /\ key' = key + 1
      /\ secrets' = << >> /\ current' = 0 /\ envelope' = None /\ reply' = Failed
      /\ handler' = [th \in Threads |-> Idle]
      /\ given' = [n \in Numbers |-> {}] /\ wrote' = {} /\ erased' = {}
      /\ UNCHANGED <<ciphertexts, meta>>
    BY DEF Restart, VaultInv, StateOK, stored
<1>2. ASSUME NEW m \in Numbers
      PROVE  ciphertexts[m] \in {Absent, Torn} \cup [key : 1 .. key', data : Data]
    <2>1. ciphertexts[m] \in {Absent, Torn} \cup [key : 1 .. key, data : Data]
        BY DEF VaultInv, StateOK
    <2>2. 1 .. key \subseteq 1 .. key'
        BY <1>1
    <2> QED BY <2>1, <2>2
<1>3. \A m \in Numbers : ciphertexts[m] \in {Absent, Torn} \/ ciphertexts[m].key # key'
    <2>1. \A k \in 1 .. key : k # key'
        BY <1>1
    <2>2. \A m \in Numbers : ciphertexts[m] \in {Absent, Torn} \cup [key : 1 .. key, data : Data]
        BY DEF VaultInv, StateOK
    <2> QED BY <2>1, <2>2
<1>4. StateOK'
    <2>1. DOMAIN ciphertexts = Numbers /\ ciphertexts = [m \in Numbers |-> ciphertexts[m]]
        BY DEF VaultInv, StateOK
    <2>2. ciphertexts \in [Numbers -> {Absent, Torn} \cup [key : 1 .. key', data : Data]]
        BY <1>2, <2>1
    <2> QED BY <1>1, <2>2 DEF VaultInv, StateOK
<1>5. HandlerOK'
    BY <1>1 DEF HandlerOK
<1>6. Serial' /\ ReadReturnsWritten'
    <2>1. Vacant'
        BY <1>1, <1>3 DEF Vacant
    <2> QED BY <2>1, Fresh, PTL
<1> QED BY <1>4, <1>5, <1>6 DEF VaultInv

-----------------------------------------------------------------------------
LEMMA VaultInitInv == Init => VaultInv
<1> SUFFICES ASSUME Init PROVE VaultInv
    OBVIOUS
<1>1. Vacant
    BY DEF Init, Vacant
<1>2. StateOK /\ HandlerOK
    BY DEF Init, StateOK, HandlerOK
<1> QED BY <1>1, <1>2, Fresh DEF VaultInv

LEMMA VaultInvNext ==
    ASSUME ~Concurrent, VaultInv, [Next]_vars
    PROVE  VaultInv'
<1>1. ASSUME NEW th \in Threads, Request(th)
      PROVE  VaultInv'
    <2>1. CASE Enter(th, "write", None, <<key, th, NextNumber>>)
        BY <2>1, EnterKeeps DEF Operations
    <2>2. ASSUME NEW op \in {"read", "delete"}, NEW n \in Numbers \cup {None},
                 Enter(th, op, n, None)
          PROVE  VaultInv'
        BY <2>2, EnterKeeps DEF Operations
    <2>3. ASSUME NEW op \in {"undelete", "destroy"}, NEW n \in Numbers, Enter(th, op, n, None)
          PROVE  VaultInv'
        BY <2>3, EnterKeeps DEF Operations
    <2> QED BY <1>1, <2>1, <2>2, <2>3 DEF Request
<1>2. ASSUME NEW th \in Threads, Statement(th)
      PROVE  VaultInv'
    BY <1>2, FindSecretKeeps, CreateSecretKeeps, TakeNumberKeeps, CountUpKeeps,
       AppendVersionKeeps, PruneKeeps, PopKeeps, PutCiphertextKeeps, PutCiphertextFailsKeeps,
       PutMetaKeeps, PutMetaFailsKeeps, LookUpKeeps, FetchKeeps, ChangeVersionKeeps,
       DeleteCiphertextKeeps, DeleteCiphertextFailsKeeps
       DEF Statement
<1>3. CASE UNCHANGED vars
    <2>1. UNCHANGED <<key, envelope, secrets, current, ciphertexts, meta, handler, reply, given, wrote, erased>>
        BY <1>3 DEF vars, memory, stored, past
    <2>2. list' = list /\ NextNumber' = NextNumber
        BY <2>1, SameList
    <2>3. StateOK' /\ HandlerOK' /\ ReadReturnsWritten' /\ StoreOK' = StoreOK
        BY <2>1, <2>2 DEF VaultInv, StateOK, HandlerOK, ReadReturnsWritten, StoreOK, DestroyedIsErased
    <2>4. ASSUME NEW h, Good(h)
          PROVE  Good(h)'
        <3>1. Top(h)' = Top(h)
            BY <2>2 DEF Top, Busy
        <3>2. ListOK(h)' /\ HistoryOK(h)' /\ StoreOK'
            BY <2>1, <2>2, <2>4, <3>1, StoreKept DEF Good, ListOK, HistoryOK, Numbered, Busy
        <3>3. RequestOK(h)'
            BY <2>1, <2>2, <2>4, <3>1 DEF Good, RequestOK, Writing, Destroying, Busy
        <3> QED BY <3>2, <3>3 DEF Good
    <2>5. Serial'
        <3>1. \A th \in Threads : handler'[th] = handler[th]
            BY <2>1
        <3>2. (\A th \in Threads : handler[th] = Idle) => Good(Idle)'
            BY <2>4 DEF VaultInv, Serial
        <3>3. ASSUME NEW th \in Threads, handler[th] # Idle
              PROVE  (Good(handler[th]))'
            <4>1. PICK h : h = handler[th]
                OBVIOUS
            <4>2. Good(h)'
                BY <2>4, <3>3, <4>1 DEF VaultInv, Serial
            <4> QED BY <2>1, <4>1, <4>2
        <3> QED BY <2>1, <3>1, <3>2, <3>3 DEF VaultInv, Serial
    <2> QED BY <2>3, <2>5 DEF VaultInv
<1> QED BY <1>1, <1>2, <1>3, SealKeeps, RestartKeeps DEF Next

-----------------------------------------------------------------------------
LEMMA SomeGood ==
    ASSUME VaultInv
    PROVE  \E h \in Requests \cup {Idle} : Good(h) /\ (h # Idle => \E th \in Threads : h = handler[th])
<1>1. CASE \A th \in Threads : handler[th] = Idle
    BY <1>1 DEF VaultInv, Serial
<1>2. CASE ~(\A th \in Threads : handler[th] = Idle)
    BY <1>2 DEF VaultInv, Serial, HandlerOK
<1> QED BY <1>1, <1>2

(* The one thread that may write is the one that may hold a version more. *)
LEMMA WriterHolds ==
    ASSUME VaultInv
    PROVE  Len(list) <= MaxVersions + Cardinality(Writers) /\ Cardinality(Writers) \in Nat
<1>1. CASE \A th \in Threads : handler[th] = Idle
    <2>1. Writers = {}
        BY <1>1 DEF Writers
    <2>2. Cardinality(Writers) = 0
        BY <2>1, FS_EmptySet
    <2>3. Len(list) <= MaxVersions /\ Len(list) \in Nat
        BY <1>1, ListType DEF VaultInv, Serial, Good, ListOK, Busy
    <2> QED BY <2>2, <2>3
<1>2. ASSUME NEW th \in Threads, handler[th] # Idle
      PROVE  Len(list) <= MaxVersions + Cardinality(Writers) /\ Cardinality(Writers) \in Nat
    <2>1. PICK h \in Requests :
             /\ h = handler[th] /\ h # Idle /\ h.envelope = key /\ Good(h)
             /\ \A x \in Threads \ {th} : handler[x] = Idle
        BY <1>2, Doing
    <2>2. /\ Len(list) \in Nat /\ Len(list) <= MaxVersions + 1
          /\ h.op # "write" => Len(list) <= MaxVersions
        BY <2>1, ListType, OperationOf DEF Good, ListOK, Busy, VaultInv, RequestOK
    <2>3. CASE h.op = "write"
        <3>1. Writers = {th}
            BY <2>1, <2>3 DEF Writers
        <3>2. Cardinality(Writers) = 1
            BY <3>1, FS_Singleton, Zenon
        <3> QED BY <2>2, <3>2
    <2>4. CASE h.op # "write"
        <3>1. Writers = {}
            BY <2>1, <2>4 DEF Writers
        <3>2. Cardinality(Writers) = 0
            BY <3>1, FS_EmptySet
        <3> QED BY <2>2, <2>4, <3>2
    <2> QED BY <2>3, <2>4
<1> QED BY <1>1, <1>2

LEMMA VaultInvTypes ==
    ASSUME VaultInv
    PROVE  TypeOK
<1>1. StateOK /\ HandlerOK
    BY DEF VaultInv
<1>2. \A s \in DOMAIN secrets : s = 1 /\ current = 1 /\ secrets[s].versions = list
    BY <1>1 DEF StateOK, list
<1>3. \A s \in DOMAIN secrets : Len(secrets[s].versions) <= MaxVersions + Cardinality(Writers)
    BY <1>2, WriterHolds
<1>4. \A th \in Threads : handler[th] # Idle => handler[th].secret <= current
    <2>1. ASSUME NEW th \in Threads, handler[th] # Idle
          PROVE  handler[th].secret <= current
        <3>1. PICK h \in Requests : h = handler[th] /\ h # Idle /\ Good(h)
            BY <2>1, Doing
        <3>2. IF h.at \in {"find", "create"} THEN h.secret = 0 ELSE h.secret = 1 /\ current = 1
            BY <3>1 DEF Good, RequestOK
        <3> QED BY <1>1, <3>1, <3>2 DEF StateOK
    <2> QED BY <2>1
<1>5. current \in 0 .. Len(secrets)
    BY <1>1 DEF StateOK
<1> QED BY <1>1, <1>3, <1>4, <1>5 DEF StateOK, HandlerOK, TypeOK

LEMMA VaultInvWrites ==
    ASSUME VaultInv, NEW n \in wrote
    PROVE  LET l == secrets[current].versions
               i == Find(l, n)
           IN  IF i = 0
               THEN Cardinality({m \in Numbers : m > n /\ given[m] # {}}) >= MaxVersions
               ELSE l[i].destroyed \/ ciphertexts[n] = [key |-> key, data |-> l[i].data]
<1>1. PICK h : Good(h)
    BY SomeGood
<1>2. /\ Numbered(list, Top(h)) /\ Top(h) \in Nat /\ Len(list) \in Nat /\ Top(h) <= MaxWrites
      /\ Len(list) < MaxVersions => Len(list) = Top(h)
      /\ DOMAIN list = 1 .. Len(list) /\ NextNumber \in Nat
    BY <1>1, ListType DEF Good, ListOK, VaultInv
<1>3. n \in 1 .. Top(h)
    BY <1>1 DEF Good, HistoryOK
<1>4. list = secrets[current].versions
    <2>1. current # 0
        BY <1>2, <1>3 DEF NextNumber, Top
    <2> QED BY <2>1 DEF list
<1>5. Find(list, n) = IF n > Top(h) - Len(list) /\ n <= Top(h)
                      THEN n - (Top(h) - Len(list)) ELSE 0
    <2>1. n \in Int
        BY <1>3
    <2> QED BY <1>2, <2>1, FoundByNumber
<1>6. CASE Find(list, n) = 0
    <2>1. n <= Top(h) - Len(list) /\ MaxVersions <= Len(list)
        BY <1>2, <1>3, <1>5, <1>6
    <2>2. {m \in Numbers : m > n /\ given[m] # {}} = n + 1 .. Top(h)
        <3>1. \A m \in Numbers : given[m] # {} <=> m <= Top(h)
            BY <1>1 DEF Good, HistoryOK
        <3>2. \A m \in n + 1 .. Top(h) : m \in Numbers /\ m > n /\ m <= Top(h)
            BY <1>2, <1>3 DEF Numbers
        <3>3. \A m \in Numbers : m > n /\ m <= Top(h) => m \in n + 1 .. Top(h)
            BY <1>2, <1>3 DEF Numbers
        <3> QED BY <3>1, <3>2, <3>3
    <2>3. Cardinality(n + 1 .. Top(h)) = Top(h) - n
        BY <1>2, <1>3, FS_Interval
    <2>4. Top(h) - n >= MaxVersions
        BY <1>2, <1>3, <2>1
    <2> QED BY <1>4, <1>6, <2>2, <2>3, <2>4
<1>7. CASE Find(list, n) # 0
    <2> DEFINE i == Find(list, n)
    <2>1. i \in DOMAIN list /\ list[i].version = n
        BY <1>2, <1>3, <1>5, <1>7 DEF Numbered
    <2>2. list[i].destroyed \/ ciphertexts[n] = [key |-> key, data |-> list[i].data]
        BY <1>1, <2>1 DEF Good, StoreOK
    <2> QED BY <1>4, <1>7, <2>2
<1> QED BY <1>6, <1>7

(* The types of all that a Vault keeps of a path, in memory and on the store,
   of what its requests carry, and how far a list may exceed max_versions. *)
THEOREM VaultTypes ==
    ASSUME ~Concurrent
    PROVE  Spec => []TypeOK
<1>1. VaultInv => TypeOK
    BY VaultInvTypes
<1> QED BY <1>1, VaultInitInv, VaultInvNext, PTL DEF Spec

(* What a read answers was given to the write of the number it answers with. *)
THEOREM SerialReads ==
    ASSUME ~Concurrent
    PROVE  Spec => []ReadReturnsWritten
<1>1. VaultInv => ReadReturnsWritten
    BY DEF VaultInv
<1> QED BY <1>1, VaultInitInv, VaultInvNext, PTL DEF Spec

(* A write that returned stays readable until it is destroyed or MaxVersions
   newer ones push it out. *)
THEOREM SerialWrites ==
    ASSUME ~Concurrent
    PROVE  Spec => []WritesPreserved
<1>1. VaultInv => WritesPreserved
    BY VaultInvWrites, Zenon DEF WritesPreserved
<1> QED BY <1>1, VaultInitInv, VaultInvNext, PTL DEF Spec

(* What a destroy() that returned was asked to erase is in no form on the store. *)
THEOREM SerialDestroys ==
    ASSUME ~Concurrent
    PROVE  Spec => []DestroyedIsErased
<1>1. VaultInv => DestroyedIsErased
    BY SomeGood DEF Good, StoreOK
<1> QED BY <1>1, VaultInitInv, VaultInvNext, PTL DEF Spec

=============================================================================
