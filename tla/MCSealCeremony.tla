--------------------------- MODULE MCSealCeremony ---------------------------
(* SealCeremony for TLC: pairs below, at and above the limits split_key
   checks. *)
EXTENDS SealCeremony

MCConfigs == {<<1, 1>>, <<2, 2>>, <<3, 3>>,   \* threshold = shares
              <<2, 1>>, <<3, 2>>, <<4, 3>>,   \* threshold < shares
              <<2, 3>>, <<2, 0>>, <<0, 0>>}   \* rejected

(* MadeOf is right: the XOR of the shares it names is the string. *)
ASSUME MadeOfIsRight ==
    \A n \in 1 .. 4 : \A s \in SUBSET (KeyBit .. n - 1) :
        LET shares == MadeOf(s, n)
        IN  s = {v \in KeyBit .. n - 1 :
                    Cardinality({i \in shares : v \in Share(i, n)}) % 2 = 1}

=============================================================================
