------------------------------- MODULE Audit -------------------------------
(***************************************************************************)
(* AuditLog (audit.py): entries chained by hashes, appended by log(), and  *)
(* a list that comes back from outside (load_from_list), as it was saved   *)
(* or altered on the way.  A reader who found the chain valid keeps the    *)
(* last entry's hash (`noted'): what do verify_chain and that hash tell    *)
(* about a later list?                                                     *)
(*                                                                         *)
(* An entry's content is everything the hash covers, timestamp included.   *)
(* SHA-256 is taken to be injective: Hash is a pair.  prev_hash is 64      *)
(* characters wherever verify_chain gets past it, so putting it in front   *)
(* of the content loses nothing.  Every method holds the log's lock: each  *)
(* is one step.                                                            *)
(***************************************************************************)
EXTENDS Integers, SequencesExt, FiniteSetsExt

CONSTANTS
    Contents,       \* what entries say
    Genesis,        \* GENESIS_HASH
    MaxEntries,     \* bound: entries in the log
    MaxLoads        \* bound: calls of load_from_list

ASSUME BoundsAssumption == MaxEntries \in Nat /\ MaxLoads \in Nat
VARIABLES
    entries,    \* _entries
    noted,      \* history: the last hash of a log found valid, and what
                \* its entries said then
    loads       \* how often load_from_list was called

vars == <<entries, noted, loads>>

Hash(content, prev) == <<content, prev>>

(* What _compute_hash can give: hashes of contents, one on the other, from
   GENESIS_HASH on. *)
Chained(hashes) == {Genesis} \cup {Hash(c, h) : c \in Contents, h \in hashes}

Hashes[n \in Nat] == IF n = 0 THEN {Genesis} ELSE Chained(Hashes[n - 1])

(* No entry hashes to sixty-four zeros. *)
ASSUME GenesisAssumption ==
    \A c \in Contents, h \in Hashes[MaxEntries + MaxLoads] : Genesis # Hash(c, h)

Entry(content, prev) ==
    [content |-> content, prev |-> prev, hash |-> Hash(content, prev)]

(* Mutated form of PrevOf: an entry is chained to the last one's content. *)
PrevByContent(list, i) == IF i = 1 THEN Genesis ELSE list[i - 1].content

(* What entry i of a list has to be chained to. *)
PrevOf(list, i) == IF i = 1 THEN Genesis ELSE list[i - 1].hash

(* Mutated form of Logged: every entry starts a chain of its own. *)
LoggedToGenesis(list, c) == Append(list, Entry(c, Genesis))

Logged(list, c) == Append(list, Entry(c, PrevOf(list, Len(list) + 1)))

Says(list) == [i \in 1..Len(list) |-> list[i].content]

-----------------------------------------------------------------------------
(* Mutated form of Invalid: an entry is held against the one it names, which
   need not be the one before it. *)
InvalidUnlinked(list, i) == list[i].hash # Hash(list[i].content, list[i].prev)

Invalid(list, i) ==
    \/ list[i].prev # PrevOf(list, i)
    \/ list[i].hash # Hash(list[i].content, PrevOf(list, i))

(* verify_chain: 0 for a valid chain, or where it breaks (broken_at + 1). *)
BrokenAt(list) ==
    LET broken == {i \in 1..Len(list) : Invalid(list, i)}
    IN  IF broken = {} THEN 0 ELSE Min(broken)

-----------------------------------------------------------------------------
(* A saved list as it may come back.  Entries are left out, exchanged or made
   to say something else; the hash of such an entry is kept, computed again,
   or the whole list is logged anew. *)
Altered(list) ==
    LET at == 1..Len(list)
        Rewritten(i, c) == [list EXCEPT ![i].content = c]
    IN  {list} \cup {RemoveAt(list, i) : i \in at}
        \cup {[list EXCEPT ![i] = list[j], ![j] = list[i]] : i, j \in at}
        \cup {Rewritten(i, c) : i \in at, c \in Contents}
        \cup {[list EXCEPT ![i] = Entry(c, list[i].prev)] : i \in at, c \in Contents}
        \cup {FoldLeft(Logged, <<>>, Says(Rewritten(i, c))) : i \in at, c \in Contents}

Init ==
    /\ entries = <<>>
    /\ noted = [hash |-> Genesis, says |-> <<>>]
    /\ loads = 0

Log(c) ==
    /\ Len(entries) < MaxEntries
    /\ entries' = Logged(entries, c)
    /\ UNCHANGED <<noted, loads>>

(* verify_chain, and a note of where the log stands. *)
Verify ==
    /\ entries # <<>>
    /\ BrokenAt(entries) = 0
    /\ noted' = [hash |-> Last(entries).hash, says |-> Says(entries)]
    /\ UNCHANGED <<entries, loads>>

(* to_list and load_from_list. *)
Load(list) ==
    /\ loads < MaxLoads
    /\ entries' = list
    /\ loads' = loads + 1
    /\ UNCHANGED noted

(* clear; and a new process, which starts with an empty log. *)
Clear ==
    /\ entries' = <<>>
    /\ UNCHANGED <<noted, loads>>

Next ==
    \/ \E c \in Contents : Log(c)
    \/ Verify
    \/ \E list \in Altered(entries) : Load(list)
    \/ Clear

Spec == Init /\ [][Next]_vars

-----------------------------------------------------------------------------
(* Every entry is chained to a hash, and the log and its hashes are no longer
   than the bounds allow. *)
TypeOK ==
    LET hashes == Hashes[MaxEntries + MaxLoads]
    IN  /\ Len(entries) <= MaxEntries
        /\ Range(entries) \subseteq [content : Contents, prev : hashes, hash : hashes]
        /\ noted.hash \in hashes
        /\ loads \in 0..MaxLoads

(* "Tampering with any entry breaks the chain" (audit.py:6): while the chain
   is valid and the hash that was noted is an entry's, the entries up to that
   one say what they said when it was noted. *)
TamperEvident ==
    BrokenAt(entries) = 0 =>
        \A i \in 1..Len(entries) :
            entries[i].hash = noted.hash => SubSeq(Says(entries), 1, i) = noted.says

(* log() gives no altered list its validity back and takes none away: the
   verdict of verify_chain, with the place, stays what it was. *)
LogKeepsVerdict ==
    [][\A c \in Contents : Log(c) => BrokenAt(entries') = BrokenAt(entries)]_vars

=============================================================================
