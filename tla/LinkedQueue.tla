---------------------------- MODULE LinkedQueue ----------------------------
(***************************************************************************)
(* unbounded_queue.c as it lies in memory: a list of entries that malloc   *)
(* made, of which the first is a dummy.  The value of an entry is handed   *)
(* out while the entry stays as the next dummy, and the old one is freed;  *)
(* so head and tail always have an entry to point to.  Every function is   *)
(* one step under the lock, but for the sleep in unbounded_queue_dequeue.  *)
(* The release of the queue is left out: it frees no entry.                *)
(***************************************************************************)
EXTENDS Null, Naturals, Sequences, FiniteSets

CONSTANTS Readers,   \* the threads that dequeue
          Values,    \* what is put in
          Addresses  \* what malloc may return; it takes any that is free, also
                     \* one that was freed before

ASSUME LinkedConstants == NULL \notin Addresses

VARIABLES memory,    \* the entries that are allocated: address -> [value, next]
          head, tail,
          is_closed,
          reader,    \* where each thread is in unbounded_queue_dequeue
          returned   \* what it last returned to each thread

linkedVars == <<memory, head, tail, is_closed, reader, returned>>

LinkedInit == \E dummy \in Addresses :
    /\ memory = [a \in {dummy} |-> [value |-> NULL, next |-> NULL]]
    /\ head = dummy /\ tail = dummy
    /\ is_closed = FALSE
    /\ reader = [t \in Readers |-> "out"]
    /\ returned = [t \in Readers |-> NULL]

WakeReaders == reader' = [t \in Readers |-> IF reader[t] = "asleep" THEN "woken" ELSE reader[t]]

\* memory with an entry for v at a, which the tail leads to
Extended(a, v) ==
    [x \in DOMAIN memory \cup {a} |->
        IF x = a THEN [value |-> v, next |-> NULL]
        ELSE IF x = tail THEN [memory[x] EXCEPT !.next = a] ELSE memory[x]]

unbounded_queue_enqueue(v) ==
    /\ \E a \in Addresses \ DOMAIN memory : memory' = Extended(a, v) /\ tail' = a
    /\ WakeReaders
    /\ UNCHANGED <<head, is_closed, returned>>

\* malloc returns NULL: nothing is put in, and the readers are woken all the same
MallocFails == WakeReaders /\ UNCHANGED <<memory, head, tail, is_closed, returned>>

unbounded_queue_close ==
    /\ is_closed' = TRUE
    /\ UNCHANGED <<memory, head, tail, reader, returned>>

\* the flag is read on entry only
AtTest(t) == reader[t] = "woken" \/ (reader[t] = "out" /\ ~is_closed)

FindsClosed(t) ==
    /\ reader[t] = "out" /\ is_closed
    /\ returned' = [returned EXCEPT ![t] = NULL]
    /\ UNCHANGED <<memory, head, tail, is_closed, reader>>

Sleeps(t) ==
    /\ AtTest(t) /\ memory[head].next = NULL
    /\ reader' = [reader EXCEPT ![t] = "asleep"]
    /\ UNCHANGED <<memory, head, tail, is_closed, returned>>

WakesAlone(t) ==
    /\ reader[t] = "asleep"
    /\ reader' = [reader EXCEPT ![t] = "woken"]
    /\ UNCHANGED <<memory, head, tail, is_closed, returned>>

Freed(a) == [x \in DOMAIN memory \ {a} |-> memory[x]]

unbounded_queue_dequeue_stale(t) ==
    LET first == memory[head].next IN
    /\ AtTest(t) /\ first # NULL
    /\ returned' = [returned EXCEPT ![t] = memory[head].value]
    /\ memory' = Freed(head) /\ head' = first
    /\ reader' = [reader EXCEPT ![t] = "out"]
    /\ UNCHANGED <<tail, is_closed>>

\* the value of the first entry is returned, and the dummy before it is freed
unbounded_queue_dequeue(t) ==
    LET first == memory[head].next IN
    /\ AtTest(t) /\ first # NULL
    /\ returned' = [returned EXCEPT ![t] = memory[first].value]
    /\ memory' = Freed(head) /\ head' = first
    /\ reader' = [reader EXCEPT ![t] = "out"]
    /\ UNCHANGED <<tail, is_closed>>

LinkedNext == \/ \E v \in Values : unbounded_queue_enqueue(v)
              \/ MallocFails
              \/ unbounded_queue_close
              \/ \E t \in Readers : \/ FindsClosed(t) \/ Sleeps(t) \/ WakesAlone(t)
                                    \/ unbounded_queue_dequeue(t)

LinkedSpec == LinkedInit /\ [][LinkedNext]_linkedVars

-----------------------------------------------------------------------------
\* the addresses from h on: n links further, or NULL; a link out of what is allocated
\* leads nowhere
Along(m, h) ==
    LET at[n \in Nat] == IF n = 0 THEN h
                         ELSE IF at[n - 1] \in DOMAIN m THEN m[at[n - 1]].next ELSE NULL
    IN  at

\* the values behind the dummy
ValuesFrom(m, h) ==
    LET at == Along(m, h)
        last == CHOOSE n \in 0..Cardinality(DOMAIN m) : at[n] # NULL /\ at[n + 1] = NULL
    IN  [i \in 1..last |-> m[at[i]].value]

Contents == ValuesFrom(memory, head)

Queue == INSTANCE UnboundedQueue WITH Threads <- Readers, queue <- Contents

QueueStep ==
    \/ /\ \/ \E v \in Values : Queue!Enqueue(v)
          \/ Queue!EnqueueFails
          \/ Queue!CloseQueue
          \/ \E t \in Readers : Queue!DequeueSleep(t) \/ Queue!SpuriousWake(t)
       /\ UNCHANGED returned
    \/ \E t \in Readers :
          \/ Queue!DequeueClosed(t) /\ returned' = [returned EXCEPT ![t] = NULL]
          \/ Queue!DequeueTake(t) /\ returned' = [returned EXCEPT ![t] = Head(Contents)]

(* No pointer is left to what was freed, and nothing is lost: what is      *)
(* allocated is what the links from head lead to, and tail is its end,     *)
(* also when the queue has run empty and an address comes back             *)
(* (unbounded_queue.c:89-93, 120-124).                                     *)
EntriesAreList ==
    /\ {Along(memory, head)[n] : n \in 0..Cardinality(DOMAIN memory)} \ {NULL} = DOMAIN memory
    /\ tail \in DOMAIN memory /\ memory[tail].next = NULL

(* The list is a queue: whatever malloc returns and whoever comes first,   *)
(* each step on head, tail and links is the step of the same name on a     *)
(* sequence, a reader gets the oldest value, and nothing is lost or left   *)
(* behind on the way (unbounded_queue.c:75-128).                           *)
IsQueue == /\ Queue!QueueInit /\ [][QueueStep]_<<Queue!queueVars, returned>>
           /\ []EntriesAreList
=============================================================================
