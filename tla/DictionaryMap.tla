--------------------------- MODULE DictionaryMap ---------------------------
(***************************************************************************)
(* What the users of an XMLDICT rely on: a partial map from names to       *)
(* pointers.  dict_add keeps the first value of a name, dict_replace sets  *)
(* the last one, dict_find answers with the value of the name.             *)
(***************************************************************************)
CONSTANTS Names, Data, NULL

VARIABLES map,     \* the value of each name, NULL where it has none
          request, \* the call in progress, Idle when there is none
          answer   \* what the last call returned

Idle == [op |-> "none"]

mapVars == <<map, request, answer>>

MapInit == /\ map = [n \in Names |-> NULL]
           /\ request = Idle
           /\ answer = NULL

Ask(op, n, d) == /\ request = Idle
                 /\ request' = [op |-> op, name |-> n, data |-> d]
                 /\ UNCHANGED <<map, answer>>

AnswerFind == /\ request.op = "find"
              /\ answer' = map[request.name]
              /\ request' = Idle
              /\ UNCHANGED map

AnswerAdd == /\ request.op = "add"
             /\ map' = [map EXCEPT ![request.name] =
                          IF @ = NULL THEN request.data ELSE @]
             /\ answer' = IF map[request.name] = NULL THEN 1 ELSE 0
             /\ request' = Idle

Replace(n, d) == /\ request = Idle
                 /\ map' = [map EXCEPT ![n] = d]
                 /\ UNCHANGED <<request, answer>>

MapNext == \/ \E n \in Names : Ask("find", n, NULL)
           \/ \E n \in Names, d \in Data : Ask("add", n, d)
           \/ AnswerFind
           \/ AnswerAdd
           \/ \E n \in Names, d \in Data : Replace(n, d)

MapSpec == MapInit /\ [][MapNext]_mapVars
=============================================================================
