------------------------------ MODULE KeyValue ------------------------------
(***************************************************************************)
(* What a store that encrypts promises: a key holds the value last saved   *)
(* under it, or nothing, or the value is lost and reading it is refused.   *)
(* It never holds anything else, and only a save brings a lost value back. *)
(***************************************************************************)
CONSTANTS StoreKeys, Values, Nothing, Lost, Refused

VARIABLES
    holds,   \* per key: its value, Nothing or Lost
    mixed,   \* whether a change of the master key was broken off
    reply    \* the request that ended with the last step, and what it returned

Init ==
    /\ holds = [k \in StoreKeys |-> Nothing]
    /\ mixed = FALSE
    /\ reply = [op |-> "none"]

NoReply == reply' = [op |-> "none"]

Save(k, v) ==
    /\ holds' = [holds EXCEPT ![k] = v]
    /\ reply' = [op |-> "save", key |-> k, value |-> v]
    /\ UNCHANGED mixed

(* A save that fails leaves the old value or loses it. *)
SaveFails(k) ==
    /\ holds' \in {holds, [holds EXCEPT ![k] = Lost]}
    /\ reply' = [op |-> "save", key |-> k, value |-> Refused]
    /\ UNCHANGED mixed

(* What is there is returned; only after a change of the master key that was
   broken off may it be refused, like what is lost. *)
Load(k) ==
    /\ \E v \in Values \cup {Nothing, Refused} :
        /\ \/ v = holds[k]
           \/ v = Refused /\ holds[k] # Nothing /\ (mixed \/ holds[k] = Lost)
        /\ reply' = [op |-> "load", key |-> k, value |-> v]
    /\ UNCHANGED <<holds, mixed>>

Delete(k) ==
    /\ holds' = [holds EXCEPT ![k] = Nothing]
    /\ reply' = [op |-> "delete", key |-> k, value |-> holds[k] # Nothing]
    /\ UNCHANGED mixed

(* What happens to a store on its own: a value is damaged, or all is gone. *)
Damage ==
    /\ \E k \in StoreKeys :
        holds[k] # Nothing /\ holds' \in {holds, [holds EXCEPT ![k] = Lost]}
    /\ UNCHANGED mixed
    /\ NoReply

Vanish ==
    /\ holds' = [k \in StoreKeys |-> Nothing]
    /\ mixed' \in {mixed, TRUE}
    /\ NoReply

(* Changing the master key changes no value; broken off, it may lose one. *)
Rotate ==
    /\ UNCHANGED <<holds, mixed>>
    /\ reply' \in [op : {"rotate"}, value : BOOLEAN] \cup {[op |-> "none"]}

RotationBrokenOff ==
    /\ \E k \in StoreKeys : holds' \in {holds, [holds EXCEPT ![k] = Lost]}
    /\ mixed' = TRUE
    /\ NoReply

Next ==
    \/ \E k \in StoreKeys :
        \/ \E v \in Values : Save(k, v)
        \/ SaveFails(k) \/ Load(k) \/ Delete(k)
    \/ Damage
    \/ Vanish
    \/ Rotate
    \/ RotationBrokenOff

Spec == Init /\ [][Next]_<<holds, mixed, reply>>

=============================================================================
