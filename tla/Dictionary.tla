----------------------------- MODULE Dictionary -----------------------------
(***************************************************************************)
(* xmldict.c: an array of entries that grows, and one chain of entries for *)
(* each bucket.  A link is the number of an entry, 0 is the end.           *)
(* dict_replace does not replace: it puts a second entry of the name in    *)
(* front of the first.  The walk along a chain is one step for each turn   *)
(* of the loop.                                                            *)
(***************************************************************************)
EXTENDS Null, Naturals, Sequences

CONSTANTS Names,         \* keys: strings with different characters
          Data,          \* pointers
          Buckets,       \* 0..126 in the code
          bucket_number, \* hash_function(name) % 127
          InitialSize,   \* dict_new(size); 100 where size is 0
          Growth,        \* 100
          MaxUsed        \* bound on the entries of the array

ASSUME DictConstants == /\ bucket_number \in [Names -> Buckets]
                        /\ InitialSize \in Nat /\ Growth \in Nat \ {0}
                        /\ MaxUsed \in Nat
                        /\ NULL \notin Data

VARIABLES entries,   \* the array; Len(entries) is dict->used
          allocated, \* its capacity
          hash,      \* head of each chain
          lookup,    \* the call that walks along a chain, Idle if none does
          result     \* what the last dict_find or dict_add returned

Idle == [op |-> "none"]

dictVars == <<entries, allocated, hash, lookup, result>>

DictInit == /\ entries = <<>>
            /\ allocated = InitialSize
            /\ hash = [b \in Buckets |-> 0]
            /\ lookup = Idle
            /\ result = NULL

\* realloc with 100 more entries when the array is full
Grow == allocated' = IF Len(entries) >= allocated THEN allocated + Growth ELSE allocated

Prepend_unlinked(n, d) ==
    /\ entries' = Append(entries, [name |-> n, data |-> d, next |-> 0])
    /\ hash' = [hash EXCEPT ![bucket_number[n]] = Len(entries) + 1]

\* a new entry at the end of the array and at the head of its chain
Prepend(n, d) ==
    /\ entries' = Append(entries, [name |-> n, data |-> d, next |-> hash[bucket_number[n]]])
    /\ hash' = [hash EXCEPT ![bucket_number[n]] = Len(entries) + 1]

\* dict_find and dict_add up to the loop; only dict_add makes room first
dict_find(n) ==
    /\ lookup = Idle
    /\ lookup' = [op |-> "find", name |-> n, data |-> NULL, h |-> hash[bucket_number[n]]]
    /\ UNCHANGED <<entries, allocated, hash, result>>

dict_add(n, d) ==
    /\ lookup = Idle
    /\ Len(entries) < MaxUsed
    /\ Grow
    /\ lookup' = [op |-> "add", name |-> n, data |-> d, h |-> hash[bucket_number[n]]]
    /\ UNCHANGED <<entries, hash, result>>

\* one turn of the loop over the chain that does not find the name
NextEntry ==
    /\ lookup # Idle /\ lookup.h # 0
    /\ entries[lookup.h].name # lookup.name
    /\ lookup' = [lookup EXCEPT !.h = entries[lookup.h].next]
    /\ UNCHANGED <<entries, allocated, hash, result>>

\* the turn that finds it: the entry's data, or 0 for "already have this"
Found ==
    /\ lookup # Idle /\ lookup.h # 0
    /\ entries[lookup.h].name = lookup.name
    /\ result' = IF lookup.op = "find" THEN entries[lookup.h].data ELSE 0
    /\ lookup' = Idle
    /\ UNCHANGED <<entries, allocated, hash>>

\* dict_find after the loop
NotFound ==
    /\ lookup.op = "find" /\ lookup.h = 0
    /\ result' = NULL
    /\ lookup' = Idle
    /\ UNCHANGED <<entries, allocated, hash>>

\* dict_add after the loop
AddEntry ==
    /\ lookup.op = "add" /\ lookup.h = 0
    /\ Prepend(lookup.name, lookup.data)
    /\ result' = 1
    /\ lookup' = Idle
    /\ UNCHANGED allocated

dict_replace(n, d) ==
    /\ lookup = Idle
    /\ Len(entries) < MaxUsed
    /\ Grow
    /\ Prepend(n, d)
    /\ UNCHANGED <<lookup, result>>

DictNext == \/ \E n \in Names : dict_find(n)
            \/ \E n \in Names, d \in Data : dict_add(n, d) \/ dict_replace(n, d)
            \/ NextEntry \/ Found \/ NotFound \/ AddEntry

DictSpec == DictInit /\ [][DictNext]_dictVars

-----------------------------------------------------------------------------
EntriesOf(n) == {i \in 1..Len(entries) : entries[i].name = n}

\* the value of a name: that of its newest entry
Meaning == [n \in Names |->
              IF EntriesOf(n) = {} THEN NULL
              ELSE entries[CHOOSE i \in EntriesOf(n) : \A j \in EntriesOf(n) : j <= i].data]

Asked == IF lookup = Idle THEN Idle
         ELSE [op |-> lookup.op, name |-> lookup.name, data |-> lookup.data]

Promise == INSTANCE DictionaryMap WITH map <- Meaning, request <- Asked, answer <- result

(* No entry is written past the end of the array: room is made before the  *)
(* entry is stored, also when dict_add finds the name and stores nothing.  *)
NoOverflow == /\ Len(entries) <= allocated
              /\ lookup.op = "add" => Len(entries) < allocated

(* The dictionary is the map its users take it for: whatever was added and *)
(* replaced before, and whichever names share a bucket, dict_find answers  *)
(* with the last value put by dict_replace or else the first put by        *)
(* dict_add, and dict_add answers 1 exactly for a new name; and its array  *)
(* always has the room that it needs for that (xmldict.c).                 *)
IsMap == Promise!MapSpec /\ []NoOverflow
=============================================================================
