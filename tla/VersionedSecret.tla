--------------------------- MODULE VersionedSecret ---------------------------
(***************************************************************************)
(* VersionedSecret of vaultlite/versioning.py: a list of versions that is  *)
(* searched by version number, appended to by write() and pruned from the  *)
(* front.  It has no lock; here each method runs alone (two overlapping    *)
(* requests are the matter of module VaultSecrets).  Times and authors are *)
(* left out.                                                               *)
(***************************************************************************)
EXTENDS VersionList, FiniteSetsExt

CONSTANTS
    Data,          \* the data written
    MaxWrites,     \* bound on the writes
    NotFound       \* VersionNotFoundError

ASSUME MaxWritesAssumption == MaxWrites \in Nat
ASSUME DataAssumption == Erased \notin Data

VARIABLES
    versions,      \* _versions
    nextVersion,   \* _next_version
    request,       \* the last method called and its argument
    reply,         \* what it returned, or NotFound
    written        \* history: the data given to write(), by number

vars == <<versions, nextVersion, request, reply, written>>

Init ==
    /\ versions = << >>
    /\ nextVersion = 1
    /\ request = <<"none", None>>
    /\ reply = NotFound
    /\ written = << >>

-----------------------------------------------------------------------------
Raise == reply' = NotFound /\ UNCHANGED <<versions, nextVersion, written>>

(* Mutated form of Kept: the list grows one over max_versions. *)
KeptOneMore(list) ==
    IF Len(list) > MaxVersions + 1 THEN Tail(list) ELSE list

(* The pruning loop, whose first round always suffices. *)
Kept(list) == IF Len(list) > MaxVersions THEN Tail(list) ELSE list

(* Mutated form of Write: numbered by the length of the list. *)
WriteNumberedByLength(d) ==
    /\ nextVersion <= MaxWrites
    /\ versions' = Kept(Append(versions, Written(Len(versions) + 1, d)))
    /\ nextVersion' = nextVersion + 1
    /\ written' = Append(written, d)
    /\ reply' = <<nextVersion>>

Write(d) ==
    /\ nextVersion <= MaxWrites
    /\ versions' = Kept(Append(versions, Written(nextVersion, d)))
    /\ nextVersion' = nextVersion + 1
    /\ written' = Append(written, d)
    /\ reply' = <<nextVersion>>

Rewrite(i, v) ==
    /\ versions' = [versions EXCEPT ![i] = v]
    /\ reply' = <<v.version>>
    /\ UNCHANGED <<nextVersion, written>>

Read(n) ==
    LET i == Lookup(versions, n) IN
      IF i = 0
      THEN Raise
      ELSE /\ reply' = <<versions[i].version, versions[i].data,
                        IF versions[i].deleted THEN "deleted" ELSE "active">>
           /\ UNCHANGED <<versions, nextVersion, written>>

SoftDelete(n) ==
    LET i == Lookup(versions, n) IN
      IF i = 0 THEN Raise ELSE Rewrite(i, Deleted(versions[i]))

Undelete(n) ==
    LET i == Find(versions, n) IN
      IF i = 0 \/ versions[i].destroyed THEN Raise ELSE Rewrite(i, Undeleted(versions[i]))

(* Mutated form of Destroy: the data stays. *)
DestroyKeepingData(n) ==
    LET i == Find(versions, n) IN
      IF i = 0
      THEN Raise
      ELSE Rewrite(i, [versions[i] EXCEPT !.destroyed = TRUE, !.deleted = TRUE])

Destroy(n) ==
    LET i == Find(versions, n) IN
      IF i = 0 THEN Raise ELSE Rewrite(i, Destroyed(n))

Call(method, n) == request' = <<method, n>>

Next ==
    \/ \E d \in Data : Write(d) /\ Call("write", None)
    \/ \E n \in (0 .. MaxWrites + 1) \cup {None} :
         \/ Read(n) /\ Call("read", n)
         \/ SoftDelete(n) /\ Call("delete", n)
    \/ \E n \in 0 .. MaxWrites + 1 :
         \/ Undelete(n) /\ Call("undelete", n)
         \/ Destroy(n) /\ Call("destroy", n)

Spec == Init /\ [][Next]_vars

-----------------------------------------------------------------------------
VersionRecord ==
    [version : Nat, data : Data \cup {Erased}, deleted : BOOLEAN, destroyed : BOOLEAN]

TypeOK ==
    /\ versions \in Seq(VersionRecord)
    /\ Len(versions) <= MaxVersions
    /\ nextVersion \in Nat \ {0}
    /\ written \in Seq(Data)

(* The list holds the last numbers given out, consecutive and in order: a
   number means one version for ever, across any pruning. *)
NumberedInOrder ==
    /\ Len(written) = nextVersion - 1
    /\ Len(versions) = Min({MaxVersions, nextVersion - 1})
    /\ \A i \in DOMAIN versions : versions[i].version = nextVersion - 1 - Len(versions) + i

(* A version holds what was written under its number, or, exactly when it is
   destroyed, nothing; and a destroyed one also counts as deleted. *)
DataKeptOrErased ==
    \A i \in DOMAIN versions :
        LET v == versions[i] IN
          IF v.destroyed THEN v.data = Erased /\ v.deleted ELSE v.data = written[v.version]

(* What the list says has become of version n. *)
Fate(n) ==
    LET i == Find(versions, n) IN
      IF i = 0 \/ versions[i].destroyed
      THEN [data |-> Erased, state |-> "gone"]
      ELSE [data |-> versions[i].data,
            state |-> IF versions[i].deleted THEN "deleted" ELSE "active"]

Promise == INSTANCE SecretHistory WITH history <- [n \in 1 .. nextVersion - 1 |-> Fate(n)]

(* The list of versions keeps what a versioned secret promises: in
   particular what is destroyed or pruned never comes back, no operation
   touches another version than its own, and a read without a number gives
   the newest active version. *)
KeepsPromise == Promise!HistorySpec

=============================================================================
