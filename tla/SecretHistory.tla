---------------------------- MODULE SecretHistory ----------------------------
(***************************************************************************)
(* What a versioned secret promises (the docstrings of versioning.py):     *)
(* versions are numbered 1, 2, 3, ... and keep the data they were written  *)
(* with; the newest MaxVersions are retained; a soft-deleted one can be    *)
(* brought back, a destroyed or pruned one cannot; a read without a        *)
(* version number gives the newest one that is neither.                    *)
(***************************************************************************)
EXTENDS Integers, Sequences, FiniteSets

CONSTANTS
    Data,          \* what can be written
    MaxVersions,   \* how many versions are retained
    MaxWrites,     \* bound on the writes
    None,          \* no version number given
    Erased,        \* no data
    NotFound       \* VersionNotFoundError

VARIABLES
    history,   \* per version number: its data, and what has become of it
    request,   \* the last operation and the version number it was asked for
    reply      \* what it returned

historyVars == <<history, request, reply>>

Gone == [data |-> Erased, state |-> "gone"]

HistoryInit == history = << >> /\ request = <<"none", None>> /\ reply = NotFound

Numbers == 1 .. Len(history)

Retained(n) == n \in Numbers /\ n > Len(history) - MaxVersions

Readable(n) == n \in Numbers /\ history[n].state \in {"active", "deleted"}

ActiveVersions == {n \in Numbers : history[n].state = "active"}

(* The version an operation is about: n, or the newest active one. *)
Means(n, v) ==
    IF n = None
    THEN v \in ActiveVersions /\ \A w \in ActiveVersions : w <= v
    ELSE v = n /\ Readable(n)

MeansNothing(n) == IF n = None THEN ActiveVersions = {} ELSE ~Readable(n)

Refuse == reply' = NotFound /\ UNCHANGED history

(* Version n once d is written: with it the oldest of the newest
   MaxVersions is gone. *)
Entry(n, d) ==
    IF n <= Len(history) + 1 - MaxVersions THEN Gone
    ELSE IF n = Len(history) + 1 THEN [data |-> d, state |-> "active"]
    ELSE history[n]

Write(d) ==
    /\ Len(history) < MaxWrites
    /\ history' = [n \in 1 .. Len(history) + 1 |-> Entry(n, d)]
    /\ reply' = <<Len(history) + 1>>

Becomes(v, state) == history' = [history EXCEPT ![v].state = state] /\ reply' = <<v>>

Read(n) ==
    \/ \E v \in Numbers :
         Means(n, v) /\ reply' = <<v, history[v].data, history[v].state>> /\ UNCHANGED history
    \/ MeansNothing(n) /\ Refuse

SoftDelete(n) ==
    \/ \E v \in Numbers : Means(n, v) /\ Becomes(v, "deleted")
    \/ MeansNothing(n) /\ Refuse

Undelete(n) == IF Readable(n) THEN Becomes(n, "active") ELSE Refuse

Destroy(n) ==
    IF Retained(n)
    THEN history' = [history EXCEPT ![n] = Gone] /\ reply' = <<n>>
    ELSE Refuse

Call(operation, n) == request' = <<operation, n>>

HistoryNext ==
    \/ \E d \in Data : Write(d) /\ Call("write", None)
    \/ \E n \in (0 .. MaxWrites + 1) \cup {None} :
         \/ Read(n) /\ Call("read", n)
         \/ SoftDelete(n) /\ Call("delete", n)
    \/ \E n \in 0 .. MaxWrites + 1 :
         \/ Undelete(n) /\ Call("undelete", n)
         \/ Destroy(n) /\ Call("destroy", n)

HistorySpec == HistoryInit /\ [][HistoryNext]_historyVars

=============================================================================
