----------------------------- MODULE PoolStart -----------------------------
(***************************************************************************)
(* The start of the pool: threadpool_init creates its workers one by one,  *)
(* and when pthread_create fails it hands the half-made pool to            *)
(* threadpool_free, which was written for a pool whose threads all exist.  *)
(* The workers that were created run worker_thr_routine from the moment    *)
(* they exist.                                                             *)
(***************************************************************************)
EXTENDS UnboundedQueue, FiniteSets

CONSTANTS
  NumOfThreads,   \* the size threadpool_init is called with
  JoinUnknown     \* what pthread_join may do with a thread id that is all zero

\* The manual leaves the outcome of such a join undefined: it may return an
\* error, which threadpool_free ignores, or bring the process down.
ASSUME StartSizes ==
  /\ NumOfThreads \in Nat \ {0}
  /\ Threads = 1..NumOfThreads
  /\ JoinUnknown \subseteq {"error", "crash"}

stop_task == "stop_task"

VARIABLES
  step,       \* where the thread that starts the pool is
  created,    \* the workers pthread_create has made
  exited,     \* the workers that left worker_thr_routine
  i           \* the loop variable of threadpool_init and of threadpool_free

vars == <<queueVars, step, created, exited, i>>

Steps == {"create", "ready", "close", "stop", "join", "returned", "crashed"}

\* threadpool_init up to its loop: the thread ids are all zero.
Init ==
  /\ QueueInit
  /\ step = "create"
  /\ created = {}
  /\ exited = {}
  /\ i = 1

\* pthread_create makes worker i.
CreateThread ==
  /\ step = "create" /\ i <= NumOfThreads
  /\ created' = created \cup {i}
  /\ i' = i + 1
  /\ UNCHANGED <<queueVars, step, exited>>

\* "threadpool_init:: thread": threadpool_free(pool) is called.
CreateFails ==
  /\ step = "create" /\ i <= NumOfThreads
  /\ step' = "close"
  /\ UNCHANGED <<queueVars, created, exited, i>>

\* threadpool_init returns the pool.
Ready ==
  /\ step = "create" /\ i > NumOfThreads
  /\ step' = "ready"
  /\ UNCHANGED <<queueVars, created, exited, i>>

\* threadpool_free on its first line, on behalf of threadpool_init or, later,
\* of XSLTEnd.
Close ==
  /\ step \in {"close", "ready"}
  /\ CloseQueue
  /\ step' = "stop"
  /\ i' = 1
  /\ UNCHANGED <<created, exited>>

\* Mutant of SendStop: one stop task is enough.
SendStop_once ==
  /\ step = "stop"
  /\ IF i <= 1
     THEN Enqueue(stop_task) /\ i' = i + 1 /\ UNCHANGED step
     ELSE step' = "join" /\ i' = 1 /\ UNCHANGED queueVars
  /\ UNCHANGED <<created, exited>>

\* One stop task for each thread the pool should have.
SendStop ==
  /\ step = "stop"
  /\ IF i <= NumOfThreads
     THEN Enqueue(stop_task) /\ i' = i + 1 /\ UNCHANGED step
     ELSE step' = "join" /\ i' = 1 /\ UNCHANGED queueVars
  /\ UNCHANGED <<created, exited>>

\* Mutant of JoinThread: it does not wait for the worker.
JoinThread_detached ==
  /\ step = "join" /\ i \in created
  /\ i' = i + 1
  /\ UNCHANGED <<queueVars, step, created, exited>>

\* pthread_join of a worker that exists comes back when the worker has left.
JoinThread ==
  /\ step = "join" /\ i \in created
  /\ i \in exited
  /\ i' = i + 1
  /\ UNCHANGED <<queueVars, step, created, exited>>

\* pthread_join of a thread that was never created.
JoinUnknownThread ==
  /\ step = "join" /\ i <= NumOfThreads /\ i \notin created
  /\ \E outcome \in JoinUnknown :
       IF outcome = "error"
       THEN i' = i + 1 /\ UNCHANGED step
       ELSE step' = "crashed" /\ UNCHANGED i
  /\ UNCHANGED <<queueVars, created, exited>>

\* unbounded_queue_release, and threadpool_free is over.
Release ==
  /\ step = "join" /\ i > NumOfThreads
  /\ step' = "returned"
  /\ UNCHANGED <<queueVars, created, exited, i>>

Starter ==
  \/ CreateThread \/ CreateFails \/ Ready \/ SendStop \/ JoinThread
  \/ JoinUnknownThread \/ Release
  \/ step = "close" /\ Close

\* A worker in worker_thr_routine; there is no task yet but stop_task.
Worker(t) ==
  /\ t \in created \ exited
  /\ \/ DequeueClosed(t) /\ exited' = exited \cup {t}
     \/ DequeueTake(t) /\ exited' = exited \cup {t}
     \/ DequeueSleep(t) /\ UNCHANGED exited
  /\ UNCHANGED <<step, created, i>>

WorkerWakes(t) ==
  /\ t \in created \ exited
  /\ SpuriousWake(t)
  /\ UNCHANGED <<step, created, exited, i>>

Next ==
  \/ Starter
  \/ Close
  \/ \E t \in Threads : Worker(t) \/ WorkerWakes(t)

\* Every thread is scheduled.  Nobody has to end the library.
Spec == Init /\ [][Next]_vars /\ WF_vars(Starter) /\ \A t \in Threads : WF_vars(Worker(t))
-----------------------------------------------------------------------------
(***************************************************************************)
(* The type invariant.                                                     *)
(***************************************************************************)
TypeOK ==
  /\ queue \in Seq({stop_task})
  /\ is_closed \in BOOLEAN
  /\ reader \in [Threads -> ReaderStates]
  /\ step \in Steps
  /\ created \subseteq Threads
  /\ exited \subseteq created
  /\ i \in 1..(NumOfThreads + 1)

(***************************************************************************)
(* unbounded_queue_release destroys the mutex and the condition variable   *)
(* of the queue when no worker is left that could still use them, although *)
(* a worker may leave by the flag, by a stop task meant for another, or    *)
(* after it slept through the close.                                       *)
(***************************************************************************)
QueueOutlivesWorkers == step = "returned" => exited = created

(***************************************************************************)
(* threadpool_free comes back, with any number of the workers created and  *)
(* whatever they were doing when the queue was closed.                     *)
(***************************************************************************)
StopReturns == step \in {"close", "stop"} ~> step = "returned"

(***************************************************************************)
(* "on failure NULL is returned" (threadpool.h): a pthread_create that     *)
(* fails must not end the process.                                         *)
(***************************************************************************)
FailureIsReported == step # "crashed"
=============================================================================
