--------------------------- MODULE UnboundedQueue ---------------------------
(***************************************************************************)
(* unbounded_queue.c: the FIFO queue on which the pool threads wait for    *)
(* work.  Every operation runs under the queue's mutex, except that        *)
(* unbounded_queue_dequeue gives the mutex up while it sleeps on the       *)
(* condition variable, so a dequeue is cut where it can sleep: a reader is *)
(* "out" of the function, "asleep" in pthread_cond_wait or "woken" from it *)
(* and about to test the list again.  The linked list with its dummy head  *)
(* is abstracted to the sequence of the values it holds.                   *)
(***************************************************************************)
EXTENDS Naturals, Sequences

CONSTANT Threads          \* the threads that dequeue

VARIABLES
  queue,                  \* the values of the list, oldest first
  is_closed,              \* the flag of the same name
  reader                  \* where each thread is in unbounded_queue_dequeue

queueVars == <<queue, is_closed, reader>>

ReaderStates == {"out", "asleep", "woken"}

\* unbounded_queue_create.
QueueInit ==
  /\ queue = <<>>
  /\ is_closed = FALSE
  /\ reader = [t \in Threads |-> "out"]

\* pthread_cond_broadcast: whoever sleeps will test the list again.
Broadcast ==
  reader' = [t \in Threads |-> IF reader[t] = "asleep" THEN "woken" ELSE reader[t]]

\* Mutants of Enqueue: no broadcast; a closed queue refuses values.
Enqueue_silent(v) ==
  /\ queue' = Append(queue, v)
  /\ UNCHANGED <<is_closed, reader>>

Enqueue_refused(v) ==
  \/ is_closed /\ UNCHANGED queueVars
  \/ ~is_closed /\ queue' = Append(queue, v) /\ Broadcast /\ UNCHANGED is_closed

\* unbounded_queue_enqueue.  A closed queue accepts values like an open one.
Enqueue(v) ==
  /\ queue' = Append(queue, v)
  /\ Broadcast
  /\ UNCHANGED is_closed

\* unbounded_queue_enqueue when its malloc fails: the value is dropped, the
\* caller is not told, and the readers are woken all the same.
EnqueueFails ==
  /\ Broadcast
  /\ UNCHANGED <<queue, is_closed>>

\* unbounded_queue_close: it raises the flag and wakes nobody.
CloseQueue ==
  /\ is_closed' = TRUE
  /\ UNCHANGED <<queue, reader>>

\* The reader holds the mutex at the test of the while loop.  The flag is
\* looked at on entry only: a reader woken after the queue was closed goes
\* on to wait for a value.
AtList(t) ==
  \/ reader[t] = "out" /\ ~is_closed
  \/ reader[t] = "woken"

\* unbounded_queue_dequeue returns NULL.
DequeueClosed(t) ==
  /\ reader[t] = "out"
  /\ is_closed
  /\ UNCHANGED queueVars

\* The list is empty: the reader sleeps.
DequeueSleep(t) ==
  /\ AtList(t)
  /\ queue = <<>>
  /\ reader' = [reader EXCEPT ![t] = "asleep"]
  /\ UNCHANGED <<queue, is_closed>>

\* Mutant of DequeueTake: the head is read and not unlinked.
DequeueTake_kept(t) ==
  /\ AtList(t)
  /\ queue # <<>>
  /\ reader' = [reader EXCEPT ![t] = "out"]
  /\ UNCHANGED <<queue, is_closed>>

\* The reader takes the oldest value, Head(queue), and returns it.
DequeueTake(t) ==
  /\ AtList(t)
  /\ queue # <<>>
  /\ queue' = Tail(queue)
  /\ reader' = [reader EXCEPT ![t] = "out"]
  /\ UNCHANGED is_closed

\* pthread_cond_wait may return without a broadcast.
SpuriousWake(t) ==
  /\ reader[t] = "asleep"
  /\ reader' = [reader EXCEPT ![t] = "woken"]
  /\ UNCHANGED <<queue, is_closed>>

(***************************************************************************)
(* No lost wake-up: a thread sleeps in dequeue only while the list is      *)
(* empty, so a value that was enqueued is never left to a sleeper.         *)
(***************************************************************************)
NoSleepOnWork ==
  (\E t \in Threads : reader[t] = "asleep") => queue = <<>>
=============================================================================
