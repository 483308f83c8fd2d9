----------------------------- MODULE VersionList -----------------------------
(* The list _versions of a VersionedSecret of vaultlite/versioning.py, as a
   value: how it is searched, and what the methods make of one version. *)
EXTENDS Integers, SequencesExt

CONSTANTS
    None,         \* Python's None
    Erased,       \* the data {} of a version that is destroyed
    MaxVersions   \* max_versions

ASSUME MaxVersionsAssumption == MaxVersions \in Nat \ {0}
ASSUME NoneAssumption == None \notin Int

Written(n, d) == [version |-> n, data |-> d, deleted |-> FALSE, destroyed |-> FALSE]

Deleted(v)   == [v EXCEPT !.deleted = TRUE]
Undeleted(v) == [v EXCEPT !.deleted = FALSE]
Destroyed(n) == [version |-> n, data |-> Erased, deleted |-> TRUE, destroyed |-> TRUE]

(* "for v in self._versions: if v.version == version": the first such index,
   0 when there is none. *)
Find(list, n) == SelectInSeq(list, LAMBDA v : v.version = n)

(* Mutated form of Current: the newest version, whatever became of it. *)
CurrentAnyState(list) == Len(list)

(* current_version: the index of the last one neither destroyed nor deleted. *)
Current(list) == SelectLastInSeq(list, LAMBDA v : ~v.destroyed /\ ~v.deleted)

(* The index read(version) returns the version of, 0 when it raises. *)
Lookup(list, n) ==
    LET i == IF n = None THEN Current(list) ELSE Find(list, n) IN
      IF i # 0 /\ list[i].destroyed THEN 0 ELSE i

=============================================================================
