------------------------------- MODULE Dictionary -------------------------------
(***************************************************************************)
(* What hash_map promises: a value for each of some keys.                  *)
(***************************************************************************)
CONSTANTS Keys, Values, NoValue

VARIABLE dict

Init == dict = [k \in Keys |-> NoValue]

Put(k, v) == dict' = [dict EXCEPT ![k] = v]
Remove(k) == dict' = [dict EXCEPT ![k] = NoValue]
RemoveAll == dict' = [k \in Keys |-> NoValue]

Next ==
    \/ \E k \in Keys : Remove(k) \/ \E v \in Values : Put(k, v)
    \/ RemoveAll

Spec == Init /\ [][Next]_dict
=============================================================================
