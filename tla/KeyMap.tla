-------------------------------- MODULE KeyMap --------------------------------
(***************************************************************************)
(* What a hash table promises: a map from keys to values, in which a key   *)
(* that is missing may be pushed and any key may be removed.               *)
(***************************************************************************)
CONSTANTS Keys, Values, Missing

VARIABLE map

Init == map = [k \in Keys |-> Missing]

Push(k, v) == map[k] = Missing /\ map' = [map EXCEPT ![k] = v]

Remove(k) == map' = [map EXCEPT ![k] = Missing]

Next == \E k \in Keys : Remove(k) \/ \E v \in Values : Push(k, v)

Spec == Init /\ [][Next]_map
=============================================================================
