---------------------------- MODULE VaultSecrets ----------------------------
(***************************************************************************)
(* The requests of vaultlite/vault.py on one secret path, statement by     *)
(* statement: each works on the VersionedSecret in memory, which has no    *)
(* lock, and then on the store, whose calls are atomic but may fail.  A    *)
(* crash drops what is in memory and leaves the store; a vault restarted   *)
(* on that store starts with no secrets and a new master key.              *)
(*                                                                         *)
(* Authentication, policies and leases are in other modules: a request     *)
(* they refuse changes nothing here.  The envelope is the master key it    *)
(* was made from; keys are numbered in the order they were generated.      *)
(***************************************************************************)
EXTENDS VersionList, FiniteSets

CONSTANTS
    Threads,       \* what handles requests
    Idle,          \* a thread between two requests
    Failed,        \* the reply of a request that raised
    Absent,        \* the store has no such key
    Torn,          \* what FileStore leaves when it is interrupted in a put
    Concurrent,    \* whether a request may start before another has ended
    MaxWrites,     \* bound on the writes since the vault was started
    MaxRestarts    \* bound on the crashes

ASSUME BoundsAssumption == MaxWrites \in Nat /\ MaxRestarts \in Nat
ASSUME ConcurrentAssumption == Concurrent \in BOOLEAN

Numbers == 1 .. MaxWrites

(* Every write is given data of its own. *)
Data == (1 .. MaxRestarts + 1) \X Threads \X Numbers

Steps == {"find", "create", "write", "count", "append", "prune", "pop", "encrypt", "meta",
          "read", "fetch", "delete", "undelete", "destroy", "erase"}

Operations == {"write", "read", "delete", "undelete", "destroy"}

(* What a thread knows of the request it handles. *)
Requests ==
    [at : Steps, op : Operations, n : Numbers \cup {None}, data : Data \cup {None},
     envelope : 1 .. MaxRestarts + 1, secret : Nat]

ASSUME IdleAssumption == Idle \notin Requests

VARIABLES
    key,          \* the master key: the number of times the vault was started
    envelope,     \* _envelope: its key, or None when the vault is sealed
    secrets,      \* the VersionedSecret objects made for the path
    current,      \* which of them _secrets[path] is, 0 before there is one
    ciphertexts,  \* the store's secrets/{path}/v{n}
    meta,         \* the store's secrets/{path}/_meta
    handler,      \* per thread: Idle, or where its request is and its variables
    reply,        \* of the last request that ended, None once another has begun
    given,        \* history: the data given to the writes numbered n
    wrote,        \* history: the numbers whose writes have returned
    erased        \* history: the numbers whose destroy() has returned

stored == <<ciphertexts, meta>>
memory == <<secrets, current>>
past   == <<given, wrote, erased>>
vars   == <<key, envelope, memory, stored, handler, reply, past>>

Init ==
    /\ key = 1
    /\ envelope = None
    /\ secrets = << >>
    /\ current = 0
    /\ ciphertexts = [n \in Numbers |-> Absent]
    /\ meta = Absent
    /\ handler = [th \in Threads |-> Idle]
    /\ reply = Failed
    /\ given = [n \in Numbers |-> {}]
    /\ wrote = {}
    /\ erased = {}

-----------------------------------------------------------------------------
Free == Concurrent \/ \A th \in Threads : handler[th] = Idle

Writers == {th \in Threads : handler[th] # Idle /\ handler[th].op = "write"}

NextNumber == IF current = 0 THEN 1 ELSE secrets[current].next

WritesLeft == Cardinality(Writers) + NextNumber <= MaxWrites

(* A request enters with its arguments, and the envelope it will use. *)
Enter(th, op, n, d) ==
    /\ handler[th] = Idle
    /\ Free
    /\ envelope # None
    /\ op = "write" => WritesLeft
    /\ handler' = [handler EXCEPT ![th] =
                     [at |-> "find", op |-> op, n |-> n, data |-> d,
                      envelope |-> envelope, secret |-> 0]]
    /\ reply' = None
    /\ UNCHANGED <<key, envelope, memory, stored, past>>

At(th, step) == handler[th] # Idle /\ handler[th].at = step

Goes(th, step) == handler' = [handler EXCEPT ![th].at = step]

Returns(th, r) == handler' = [handler EXCEPT ![th] = Idle] /\ reply' = r

(* The list of versions the request works on. *)
Versions(th) == secrets[handler[th].secret].versions

SetVersions(th, list) ==
    secrets' = [secrets EXCEPT ![handler[th].secret].versions = list]

(* "if path not in self._secrets": made by write(), not found by the others. *)
FindSecret(th) ==
    /\ At(th, "find")
    /\ \/ /\ current # 0
          /\ handler' = [handler EXCEPT ![th].secret = current, ![th].at = handler[th].op]
          /\ UNCHANGED reply
       \/ current = 0 /\ handler[th].op = "write" /\ Goes(th, "create") /\ UNCHANGED reply
       \/ current = 0 /\ handler[th].op # "write" /\ Returns(th, Failed)
    /\ UNCHANGED <<key, envelope, memory, stored, past>>

CreateSecret(th) ==
    /\ At(th, "create")
    /\ secrets' = Append(secrets, [next |-> 1, versions |-> << >>])
    /\ current' = Len(secrets')
    /\ Goes(th, "find")
    /\ UNCHANGED <<key, envelope, stored, reply, past>>

-----------------------------------------------------------------------------
(* VersionedSecret.write: the number is read, counted up, and the version
   appended; then the list is pruned, in two statements a round. *)
TakeNumber(th) ==
    /\ At(th, "write")
    /\ handler' = [handler EXCEPT ![th].n = secrets[handler[th].secret].next, ![th].at = "count"]
    /\ UNCHANGED <<key, envelope, memory, stored, reply, past>>

CountUp(th) ==
    /\ At(th, "count")
    /\ secrets' = [secrets EXCEPT ![handler[th].secret].next = @ + 1]
    /\ Goes(th, "append")
    /\ UNCHANGED <<key, envelope, current, stored, reply, past>>

AppendVersion(th) ==
    /\ At(th, "append")
    /\ SetVersions(th, Append(Versions(th), Written(handler[th].n, handler[th].data)))
    /\ given' = [given EXCEPT ![handler[th].n] = @ \cup {handler[th].data}]
    /\ Goes(th, "prune")
    /\ UNCHANGED <<key, envelope, current, stored, reply, wrote, erased>>

(* Mutated form of Full: one version more is kept. *)
FullLate(list) == Len(list) > MaxVersions + 1

Full(list) == Len(list) > MaxVersions

Prune(th) ==
    /\ At(th, "prune")
    /\ IF Full(Versions(th))
       THEN /\ SetVersions(th, [Versions(th) EXCEPT ![1].destroyed = TRUE, ![1].data = Erased])
            /\ Goes(th, "pop")
       ELSE UNCHANGED secrets /\ Goes(th, "encrypt")
    /\ UNCHANGED <<key, envelope, current, stored, reply, past>>

Pop(th) ==
    /\ At(th, "pop")
    /\ SetVersions(th, Tail(Versions(th)))
    /\ Goes(th, "prune")
    /\ UNCHANGED <<key, envelope, current, stored, reply, past>>

(* The ciphertext is stored, then the metadata. *)
PutCiphertext(th) ==
    /\ At(th, "encrypt")
    /\ ciphertexts' = [ciphertexts EXCEPT ![handler[th].n] =
                         [key |-> handler[th].envelope, data |-> handler[th].data]]
    /\ Goes(th, "meta")
    /\ UNCHANGED <<key, envelope, memory, meta, reply, past>>

PutCiphertextFails(th) ==
    /\ At(th, "encrypt")
    /\ \/ ciphertexts' = [ciphertexts EXCEPT ![handler[th].n] = Torn]
       \/ UNCHANGED ciphertexts
    /\ Returns(th, Failed)
    /\ UNCHANGED <<key, envelope, memory, meta, past>>

(* The last statement of write, delete, undelete and destroy. *)
PutMeta(th) ==
    /\ At(th, "meta")
    /\ meta' = Versions(th)
    /\ Returns(th, [op |-> handler[th].op, n |-> handler[th].n, data |-> None])
    /\ wrote' = IF handler[th].op = "write" THEN wrote \cup {handler[th].n} ELSE wrote
    /\ erased' = IF handler[th].op = "destroy" THEN erased \cup {handler[th].n} ELSE erased
    /\ UNCHANGED <<key, envelope, memory, ciphertexts, given>>

PutMetaFails(th) ==
    /\ At(th, "meta")
    /\ meta' \in {meta, Torn}
    /\ Returns(th, Failed)
    /\ UNCHANGED <<key, envelope, memory, ciphertexts, past>>

-----------------------------------------------------------------------------
(* read(): the version is looked up in memory, its ciphertext in the store. *)
LookUp(th) ==
    /\ At(th, "read")
    /\ LET i == Lookup(Versions(th), handler[th].n) IN
         IF i = 0 \/ Versions(th)[i].deleted
         THEN Returns(th, Failed)
         ELSE /\ handler' = [handler EXCEPT ![th].n = Versions(th)[i].version, ![th].at = "fetch"]
              /\ UNCHANGED reply
    /\ UNCHANGED <<key, envelope, memory, stored, past>>

(* Mutated form of Fetch: a ciphertext is not authenticated. *)
FetchUnauthenticated(th) ==
    /\ At(th, "fetch")
    /\ LET c == ciphertexts[handler[th].n] IN
         IF c \in {Absent, Torn}
         THEN Returns(th, Failed)
         ELSE Returns(th, [op |-> "read", n |-> handler[th].n, data |-> c.data])
    /\ UNCHANGED <<key, envelope, memory, stored, past>>

(* What is absent, torn, or encrypted under another key (its HMAC does not
   match) raises. *)
Fetch(th) ==
    /\ At(th, "fetch")
    /\ LET c == ciphertexts[handler[th].n] IN
         IF c \in {Absent, Torn} \/ c.key # handler[th].envelope
         THEN Returns(th, Failed)
         ELSE Returns(th, [op |-> "read", n |-> handler[th].n, data |-> c.data])
    /\ UNCHANGED <<key, envelope, memory, stored, past>>

-----------------------------------------------------------------------------
(* The index of the version that a request in memory is about, 0 if it raises. *)
Target(th) ==
    LET n == handler[th].n  list == Versions(th) IN
      CASE handler[th].op = "delete"   -> Lookup(list, n)
        [] handler[th].op = "undelete" ->
             IF Find(list, n) # 0 /\ list[Find(list, n)].destroyed THEN 0 ELSE Find(list, n)
        [] handler[th].op = "destroy"  -> Find(list, n)

Changed(op, v) ==
    CASE op = "delete"   -> Deleted(v)
      [] op = "undelete" -> Undeleted(v)
      [] op = "destroy"  -> Destroyed(v.version)

(* Mutated forms of After: delete() removes the ciphertext too; nothing does. *)
AfterDeleteToo(op) == IF op = "undelete" THEN "meta" ELSE "erase"
AfterNothing(op)   == "meta"

(* destroy() goes on to remove the ciphertext. *)
After(op) == IF op = "destroy" THEN "erase" ELSE "meta"

(* VersionedSecret.soft_delete, undelete and destroy. *)
ChangeVersion(th) ==
    /\ \E op \in {"delete", "undelete", "destroy"} : At(th, op)
    /\ LET i == Target(th)  op == handler[th].op IN
         IF i = 0
         THEN Returns(th, Failed) /\ UNCHANGED secrets
         ELSE /\ SetVersions(th, [Versions(th) EXCEPT ![i] = Changed(op, @)])
              /\ handler' = [handler EXCEPT ![th].n = Versions(th)[i].version,
                                           ![th].at = After(op)]
              /\ UNCHANGED reply
    /\ UNCHANGED <<key, envelope, current, stored, past>>

DeleteCiphertext(th) ==
    /\ At(th, "erase")
    /\ ciphertexts' = [ciphertexts EXCEPT ![handler[th].n] = Absent]
    /\ Goes(th, "meta")
    /\ UNCHANGED <<key, envelope, memory, meta, reply, past>>

DeleteCiphertextFails(th) ==
    /\ At(th, "erase")
    /\ Returns(th, Failed)
    /\ UNCHANGED <<key, envelope, memory, stored, past>>

-----------------------------------------------------------------------------
Seal ==
    /\ Free
    /\ envelope' = None
    /\ UNCHANGED <<key, memory, stored, handler, reply, past>>

Unseal ==
    /\ Free
    /\ envelope' = key
    /\ UNCHANGED <<key, memory, stored, handler, reply, past>>

(* The process dies, wherever its requests are, and a Vault is made on the
   same store and initialized: a new key, and no secrets. *)
Restart ==
    /\ key <= MaxRestarts
    /\ key' = key + 1
    /\ envelope' = None
    /\ secrets' = << >>
    /\ current' = 0
    /\ handler' = [th \in Threads |-> Idle]
    /\ reply' = Failed
    /\ given' = [n \in Numbers |-> {}]
    /\ wrote' = {}
    /\ erased' = {}
    /\ UNCHANGED stored

Request(th) ==
    \/ Enter(th, "write", None, <<key, th, NextNumber>>)
    \/ \E op \in {"read", "delete"}, n \in Numbers \cup {None} : Enter(th, op, n, None)
    \/ \E op \in {"undelete", "destroy"}, n \in Numbers : Enter(th, op, n, None)

Statement(th) ==
    \/ FindSecret(th)
    \/ CreateSecret(th)
    \/ TakeNumber(th)
    \/ CountUp(th)
    \/ AppendVersion(th)
    \/ Prune(th)
    \/ Pop(th)
    \/ PutCiphertext(th)
    \/ PutCiphertextFails(th)
    \/ PutMeta(th)
    \/ PutMetaFails(th)
    \/ LookUp(th)
    \/ Fetch(th)
    \/ ChangeVersion(th)
    \/ DeleteCiphertext(th)
    \/ DeleteCiphertextFails(th)

Next ==
    \/ \E th \in Threads : Request(th) \/ Statement(th)
    \/ Seal
    \/ Unseal
    \/ Restart

Spec == Init /\ [][Next]_vars

-----------------------------------------------------------------------------
VersionRecord ==
    [version : Numbers, data : Data \cup {Erased}, deleted : BOOLEAN, destroyed : BOOLEAN]

Lists == Seq(VersionRecord)

TypeOK ==
    /\ key \in 1 .. MaxRestarts + 1
    /\ envelope \in {None, key}
    /\ secrets \in Seq([next : Nat, versions : Lists])
    /\ \A s \in DOMAIN secrets : Len(secrets[s].versions) <= MaxVersions + Cardinality(Writers)
    /\ current \in 0 .. Len(secrets)
    /\ ciphertexts \in [Numbers -> {Absent, Torn} \cup [key : 1 .. key, data : Data]]
    /\ meta \in {Absent, Torn} \/ meta \in Lists
    /\ handler \in [Threads -> Requests \cup {Idle}]
    /\ \A th \in Threads : handler[th] # Idle =>
          handler[th].envelope = key /\ handler[th].secret <= current
    /\ reply \in {Failed, None} \/ reply \in [op : Operations, n : Numbers, data : Data \cup {None}]
    /\ given \in [Numbers -> SUBSET Data]
    /\ wrote \subseteq Numbers /\ erased \subseteq Numbers

(* A read returns what the one write with that number was given, whatever puts
   failed and whatever ciphertexts of the same name a vault before this one
   left on the store. *)
ReadReturnsWritten ==
    reply \notin {Failed, None} /\ reply.op = "read" => given[reply.n] = {reply.data}

(* versioning.py:3, "Every write to a secret path creates a new version. Old
   versions are preserved": a write that returned is in the list with its data
   in the store, until it is destroyed or MaxVersions newer ones push it out. *)
WritesPreserved ==
    \A n \in wrote :
        LET list == secrets[current].versions
            i    == Find(list, n)
        IN  IF i = 0
            THEN Cardinality({m \in Numbers : m > n /\ given[m] # {}}) >= MaxVersions
            ELSE list[i].destroyed \/ ciphertexts[n] = [key |-> key, data |-> list[i].data]

(* versioning.py:5, "destroyed (permanently erased)": once destroy() has returned
   the store holds the version's data in no form. *)
DestroyedIsErased ==
    \A n \in erased :
        /\ ciphertexts[n] = Absent
        /\ meta # Torn => \A i \in DOMAIN meta : meta[i].version = n => meta[i].data = Erased

=============================================================================
