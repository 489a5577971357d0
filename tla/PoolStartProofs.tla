--------------------------- MODULE PoolStartProofs ---------------------------
(***************************************************************************)
(* Theorems about PoolStart, for a pool of any size.  The invariant says   *)
(* how far the joins have come: threadpool_free is past a worker only when *)
(* that worker has left, and it joins all of them before it returns,       *)
(* whichever of them left by the flag and whichever by a stop task.        *)
(***************************************************************************)
EXTENDS PoolStart, TLAPS

\* The joins are made in the order of the threads.
Joined ==
  /\ step = "join" => \A t \in created : t < i => t \in exited
  /\ step = "returned" => created \subseteq exited

StartInv == TypeOK /\ Joined /\ NoSleepOnWork

-----------------------------------------------------------------------------
(* What threadpool_init starts with satisfies the invariant                *)
(* (threadpool.c:67-85).                                                   *)
LEMMA StartInvInit == Init => StartInv
<1> SUFFICES ASSUME Init PROVE StartInv
  OBVIOUS
<1>1. TypeOK
  <2>1. queue = <<>> /\ is_closed \in BOOLEAN /\ step \in Steps
    BY DEF Init, QueueInit, Steps
  <2>5. queue \in Seq({stop_task})
    BY <2>1
  <2>2. reader \in [Threads -> ReaderStates]
    BY DEF Init, QueueInit, ReaderStates
  <2>3. created \subseteq Threads /\ exited \subseteq created
    BY DEF Init
  <2>4. i \in 1..(NumOfThreads + 1)
    BY StartSizes DEF Init
  <2> QED
    BY <2>1, <2>2, <2>3, <2>4, <2>5 DEF TypeOK
<1>2. Joined /\ NoSleepOnWork
  BY DEF Init, QueueInit, Joined, NoSleepOnWork
<1> QED
  BY <1>1, <1>2 DEF StartInv

(* A broadcast leaves nobody asleep (unbounded_queue.c, enqueue).          *)
LEMMA BroadcastWakes ==
  ASSUME reader \in [Threads -> ReaderStates], Broadcast
  PROVE  /\ reader' \in [Threads -> ReaderStates]
         /\ \A t \in Threads : reader'[t] # "asleep"
  BY DEF Broadcast, ReaderStates

(* Each step of the starter keeps the invariant (threadpool.c:67-144).     *)
LEMMA StarterKeeps ==
  ASSUME StartInv, Starter \/ Close
  PROVE  StartInv'
<1> USE StartSizes DEF StartInv
<1>1. CASE CreateThread
  BY <1>1 DEF CreateThread, TypeOK, Joined, NoSleepOnWork, queueVars, Steps
<1>2. CASE CreateFails \/ Ready
  BY <1>2 DEF CreateFails, Ready, TypeOK, Joined, NoSleepOnWork, queueVars, Steps
<1>7. CASE Release
  <2>1. \A t \in created : t < i
    BY <1>7 DEF Release, TypeOK
  <2>2. created \subseteq exited /\ Joined'
    BY <1>7, <2>1 DEF Release, Joined
  <2> QED
    BY <1>7, <2>2 DEF Release, TypeOK, NoSleepOnWork, queueVars, Steps
<1>3. CASE SendStop
  <2>1. CASE i <= NumOfThreads
    <3>1. Enqueue(stop_task) /\ i' = i + 1 /\ UNCHANGED <<step, created, exited>>
      BY <1>3, <2>1 DEF SendStop
    <3>2. queue' \in Seq({stop_task}) /\ UNCHANGED is_closed
      BY <3>1 DEF Enqueue, TypeOK
    <3>3. /\ reader' \in [Threads -> ReaderStates]
          /\ \A t \in Threads : reader'[t] # "asleep"
      BY <3>1, BroadcastWakes DEF Enqueue, TypeOK
    <3>4. TypeOK'
      BY <2>1, <3>1, <3>2, <3>3 DEF TypeOK
    <3> QED
      BY <1>3, <3>1, <3>3, <3>4 DEF Joined, NoSleepOnWork, SendStop
  <2>2. CASE ~(i <= NumOfThreads)
    BY <1>3, <2>2 DEF SendStop, TypeOK, Joined, NoSleepOnWork, queueVars, Steps
  <2> QED
    BY <2>1, <2>2
<1>4. CASE JoinThread
  BY <1>4 DEF JoinThread, TypeOK, Joined, NoSleepOnWork, queueVars
<1>5. CASE JoinUnknownThread
  BY <1>5 DEF JoinUnknownThread, TypeOK, Joined, NoSleepOnWork, queueVars, Steps
<1>6. CASE Close
  BY <1>6 DEF Close, CloseQueue, TypeOK, Joined, NoSleepOnWork, Steps
<1> QED
  BY <1>1, <1>2, <1>3, <1>4, <1>5, <1>6, <1>7 DEF Starter

(* A worker leaves, sleeps on an empty list only, or wakes                 *)
(* (threadpool.c:36-65, unbounded_queue.c, dequeue).                       *)
LEMMA WorkerKeeps ==
  ASSUME StartInv, NEW t \in Threads, Worker(t) \/ WorkerWakes(t)
  PROVE  StartInv'
<1> USE DEF StartInv
<1>1. CASE Worker(t)
  <2>1. t \in created \ exited /\ UNCHANGED <<step, created, i>>
    BY <1>1 DEF Worker
  <2>2. CASE DequeueClosed(t) /\ exited' = exited \cup {t}
    BY <2>1, <2>2 DEF DequeueClosed, TypeOK, Joined, NoSleepOnWork, queueVars
  <2>3. CASE DequeueTake(t) /\ exited' = exited \cup {t}
    <3>1. queue # <<>> /\ queue' = Tail(queue) /\ reader' = [reader EXCEPT ![t] = "out"]
          /\ UNCHANGED is_closed
      BY <2>3 DEF DequeueTake
    <3>2. \A s \in Threads : reader[s] # "asleep"
      BY <3>1 DEF NoSleepOnWork
    <3>3. queue' \in Seq({stop_task}) /\ reader' \in [Threads -> ReaderStates]
          /\ \A s \in Threads : reader'[s] # "asleep"
      BY <3>1, <3>2 DEF TypeOK, ReaderStates
    <3> QED
      BY <2>1, <2>3, <3>1, <3>3 DEF TypeOK, Joined, NoSleepOnWork
  <2>4. CASE DequeueSleep(t) /\ UNCHANGED exited
    BY <2>1, <2>4 DEF DequeueSleep, TypeOK, Joined, NoSleepOnWork, ReaderStates
  <2> QED
    BY <1>1, <2>2, <2>3, <2>4 DEF Worker
<1>2. CASE WorkerWakes(t)
  BY <1>2 DEF WorkerWakes, SpuriousWake, TypeOK, Joined, NoSleepOnWork, ReaderStates
<1> QED
  BY <1>1, <1>2

(* Every step of starter and workers keeps the invariant.                  *)
LEMMA StartInvStep == StartInv /\ [Next]_vars => StartInv'
<1> SUFFICES ASSUME StartInv, [Next]_vars PROVE StartInv'
  OBVIOUS
<1>1. CASE Starter \/ Close
  BY <1>1, StarterKeeps
<1>2. CASE \E t \in Threads : Worker(t) \/ WorkerWakes(t)
  BY <1>2, WorkerKeeps
<1>3. CASE UNCHANGED vars
  BY <1>3 DEF vars, queueVars, StartInv, TypeOK, Joined, NoSleepOnWork
<1> QED
  BY <1>1, <1>2, <1>3 DEF Next

(* The invariant holds in every behaviour.                                 *)
LEMMA StartInvHolds == Spec => []StartInv
  BY StartInvInit, StartInvStep, PTL DEF Spec

-----------------------------------------------------------------------------
(* Types, the loop variable included: it never passes the threads by more  *)
(* than one (threadpool.c:80-99, 118-144).                                 *)
THEOREM StartTypeCorrect == Spec => []TypeOK
<1>1. StartInv => TypeOK
  BY DEF StartInv
<1> QED
  BY <1>1, StartInvHolds, PTL

(* However many threads pthread_create made before it failed, and however  *)
(* each of them leaves, the queue is released after the last of them       *)
(* (threadpool.c:118-144).                                                 *)
THEOREM QueueReleasedLast == Spec => []QueueOutlivesWorkers
<1>1. StartInv => QueueOutlivesWorkers
  BY DEF StartInv, TypeOK, Joined, QueueOutlivesWorkers
<1> QED
  BY <1>1, StartInvHolds, PTL

(* No worker sleeps on a stop task, with spurious wake-ups and a close     *)
(* that wakes nobody (unbounded_queue.c, enqueue and dequeue).             *)
THEOREM NoWorkerSleepsOnStop == Spec => []NoSleepOnWork
<1>1. StartInv => NoSleepOnWork
  BY DEF StartInv
<1> QED
  BY <1>1, StartInvHolds, PTL
=============================================================================
