------------------------------ MODULE OrderedMap ------------------------------
(***************************************************************************)
(* What a map of far_memory_container promises, B-tree or skip list: the   *)
(* set of its keys, and what every insert and erase answers.  Moving a     *)
(* node (to or from local memory, into a block) is no step of it.          *)
(***************************************************************************)
CONSTANT Key

VARIABLES keys,       \* the keys in the map
          last_call   \* the last call, its key, and the answer to it

NoCall == [call |-> "none"]
Init == keys = {} /\ last_call = NoCall

insert(x) == /\ keys' = keys \cup {x}
             /\ last_call' = [call |-> "insert", key |-> x, answer |-> x \notin keys]
erase(x)  == /\ keys' = keys \ {x}
             /\ last_call' = [call |-> "erase", key |-> x, answer |-> x \in keys]
clear     == keys' = {} /\ last_call' = [call |-> "clear"]

Next == (\E x \in Key : insert(x) \/ erase(x)) \/ clear
Spec == Init /\ [][Next]_<<keys, last_call>>
=============================================================================
