------------------------------- MODULE Clock --------------------------------
(* time.time(), read by tokens and leases: whole units, up to MaxTime. *)
EXTENDS Integers

CONSTANTS
    None,     \* Python's None
    MaxTime   \* bound on the clock

ASSUME NoneIsNoNumber == None \notin Int
ASSUME MaxTimeAssumption == MaxTime \in Nat

VARIABLE now

Tick == now < MaxTime /\ now' = now + 1

(* d with key k bound to v: Python's d[k] = v. *)
Put(d, k, v) == [x \in DOMAIN d \cup {k} |-> IF x = k THEN v ELSE d[x]]

=============================================================================
