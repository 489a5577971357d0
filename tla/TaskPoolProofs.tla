--------------------------- MODULE TaskPoolProofs ---------------------------
(***************************************************************************)
(* Proofs about TaskPool, for any finite number of threads, calls and      *)
(* contexts.                                                               *)
(*                                                                         *)
(* The counter of a call is at least one as long as a context of the call  *)
(* is not done: such a context is in a task itself (then it is a holder),  *)
(* or it is on the stack of a worker, or about to be spawned from there,   *)
(* and the task of that worker is a holder.  IInv ties stacks, spawns,     *)
(* queue and calls together to make this argument inductive.               *)
(*                                                                         *)
(* The last part is about as many threads as calls: nothing is dropped,    *)
(* and the pool implements TransformRun.                                   *)
(***************************************************************************)
EXTENDS TaskPool, FiniteSetTheorems, SequenceTheorems, TLAPS

\* TypeOK, but for the sign of the counter, which is a matter of Counting.
Types ==
  /\ queue \in Seq(Contexts \cup {stop_task})
  /\ is_closed \in BOOLEAN
  /\ reader \in [Threads -> ReaderStates]
  /\ num_of_blocked \in Nat
  /\ job \in [Threads -> OrNull(Contexts)]
  /\ exited \in SUBSET Threads
  /\ pool \in {"open", "stopping", "freed"}
  /\ stops \in Nat
  /\ lost \in 0..MaxLost
  /\ call \in [Callers -> CallStates]
  /\ variable \in [Callers -> {"none", "live", "released"}]
  /\ value \in [Callers -> Int]
  /\ status \in [Contexts -> Statuses]
  /\ owner \in [Contexts -> OrNull(Callers)]
  /\ workers \in [Contexts -> OrNull(Callers)]
  /\ task_mode \in [Contexts -> TaskModes]
  /\ stack \in [Actors -> Seq(Contexts)]
  /\ spawn \in [Actors -> OrNull(Contexts)]

OnStack(a, c) == \E i \in 1..Len(stack[a]) : stack[a][i] = c

\* The contexts on stacks are the running ones, each at one place.
Stacks ==
  /\ \A c \in Contexts : status[c] = "running" => \E a \in Actors : OnStack(a, c)
  /\ \A a \in Actors, c \in Contexts : OnStack(a, c) => status[c] = "running"
  /\ \A a, b \in Actors, c \in Contexts : OnStack(a, c) /\ OnStack(b, c) => a = b
  /\ \A a \in Actors : \A i, j \in 1..Len(stack[a]) : stack[a][i] = stack[a][j] => i = j

\* The queue holds the queued contexts, each once.
Queued ==
  /\ \A i \in 1..Len(queue) : queue[i] # stop_task => status[queue[i]] = "queued"
  /\ \A i, j \in 1..Len(queue) : queue[i] = queue[j] /\ queue[i] # stop_task => i = j

\* A worker with contexts on its stack is in a task, and nobody else is in it.
Jobs ==
  /\ \A t \in Threads, c \in Contexts : OnStack(t, c) => job[t] # NULL
  /\ \A t \in Threads : job[t] # NULL => status[job[t]] \in {"running", "done"}
  /\ \A t, u \in Threads : job[t] = job[u] /\ job[t] # NULL => t = u

\* A context that is being spawned is being so by one thread.
Spawns ==
  /\ \A a \in Actors : spawn[a] # NULL => status[spawn[a]] \in {"new", "counted"}
  /\ \A c \in Contexts : status[c] = "new" =>
       workers[c] # NULL /\ \E a \in Actors : spawn[a] = c
  /\ \A a, b \in Actors : spawn[a] = spawn[b] /\ spawn[a] # NULL => a = b

\* What a context inherits.
Contextual ==
  \A c \in Contexts :
    /\ status[c] = "free" <=> owner[c] = NULL
    /\ workers[c] \in {NULL, owner[c]}
    /\ owner[c] # NULL => call[owner[c]] \notin {"idle", "create"}
    /\ workers[c] # NULL => variable[workers[c]] # "none"
    /\ owner[c] # NULL /\ workers[c] = NULL /\ variable[owner[c]] # "none" =>
         /\ task_mode[c] = "SINGLE"
         /\ status[c] \in {"running", "done"}
         /\ \A t \in Threads : job[t] # c

\* A worker works for the call of its task, with the variable of its task.
OnWorkers ==
  \A t \in Threads :
    /\ \A c \in Contexts : OnStack(t, c) =>
         /\ owner[c] = owner[job[t]]
         /\ \/ workers[c] = workers[job[t]]
            \/ workers[c] = NULL /\ task_mode[c] = "SINGLE"
    /\ spawn[t] # NULL =>
         /\ \E c \in Contexts : OnStack(t, c)
         /\ owner[spawn[t]] = owner[job[t]]
         /\ workers[spawn[t]] = workers[job[t]]

\* A caller works on contexts only when its call went inline; otherwise the
\* one context it touches is the root, when it starts its task.
OnCallers ==
  \A r \in Callers :
    /\ \A c \in Contexts : OnStack(r, c) => call[r] = "inline" /\ owner[c] = r
    /\ call[r] = "start" => spawn[r] # NULL /\ status[spawn[r]] = "counted"
    /\ spawn[r] # NULL => call[r] \in {"start", "inline"} /\ owner[spawn[r]] = r
    /\ owner[RootOf[r]] \in {NULL, r}

\* The life of the shared variable along the call.
Variables ==
  \A r \in Callers :
    /\ call[r] \in {"idle", "create", "inline"} => variable[r] = "none"
    /\ call[r] \in {"start", "wait", "asleep", "release"} => variable[r] = "live"
    /\ call[r] = "finish" => variable[r] = "released"
    /\ call[r] = "returned" => variable[r] # "live"
    /\ call[r] = "release" \/ variable[r] = "released" => value[r] = 0

Counting == CounterCountsTasks

IInv ==
  /\ Types
  /\ Stacks
  /\ Queued
  /\ Jobs
  /\ Spawns
  /\ Contextual
  /\ OnWorkers
  /\ OnCallers
  /\ Variables
  /\ Counting
-----------------------------------------------------------------------------
(* The stacks.                                                             *)

\* Calling a function puts its context on the stack of the thread.
LEMMA PushStack ==
  ASSUME stack \in [Actors -> Seq(Contexts)], NEW a \in Actors, NEW c \in Contexts, Push(a, c)
  PROVE  /\ stack' \in [Actors -> Seq(Contexts)]
         /\ \A b \in Actors : b # a => stack'[b] = stack[b]
         /\ Len(stack'[a]) = Len(stack[a]) + 1
         /\ \A i \in 1..Len(stack[a]) : stack'[a][i] = stack[a][i]
         /\ stack'[a][Len(stack[a]) + 1] = c
<1>1. stack' = [stack EXCEPT ![a] = Append(@, c)]
  BY DEF Push
<1>2. stack[a] \in Seq(Contexts)
  OBVIOUS
<1>3. /\ Append(stack[a], c) \in Seq(Contexts)
      /\ Len(Append(stack[a], c)) = Len(stack[a]) + 1
      /\ \A i \in 1..Len(stack[a]) : Append(stack[a], c)[i] = stack[a][i]
      /\ Append(stack[a], c)[Len(stack[a]) + 1] = c
  BY <1>2
<1>4. stack'[a] = Append(stack[a], c)
  BY <1>1
<1>5. QED
  BY <1>1, <1>3, <1>4

LEMMA PushOnStack ==
  ASSUME stack \in [Actors -> Seq(Contexts)], NEW a \in Actors, NEW c \in Contexts, Push(a, c)
  PROVE  \A b \in Actors, d \in Contexts :
           OnStack(b, d)' <=> OnStack(b, d) \/ (b = a /\ d = c)
<1> DEFINE n == Len(stack[a])
<1>1. n \in Nat
  OBVIOUS
<1>2. 1..(n+1) = (1..n) \cup {n+1}
  BY <1>1
<1>3. \A d \in Contexts : OnStack(a, d)' <=> OnStack(a, d) \/ d = c
  BY <1>2, <1>1, PushStack DEF OnStack
<1>4. \A b \in Actors, d \in Contexts : b # a => (OnStack(b, d)' <=> OnStack(b, d))
  BY PushStack DEF OnStack
<1>5. QED
  BY <1>3, <1>4

\* The function of a context returns: only that context leaves the stack.
LEMMA PopStack ==
  ASSUME stack \in [Actors -> Seq(Contexts)], NEW a \in Actors, stack[a] # <<>>,
         stack' = [stack EXCEPT ![a] = SubSeq(@, 1, Len(@) - 1)]
  PROVE  /\ stack' \in [Actors -> Seq(Contexts)]
         /\ Len(stack[a]) \in Nat \ {0}
         /\ \A b \in Actors : b # a => stack'[b] = stack[b]
         /\ Len(stack'[a]) = Len(stack[a]) - 1
         /\ \A i \in 1..(Len(stack[a]) - 1) : stack'[a][i] = stack[a][i]
<1>1. stack[a] \in Seq(Contexts) /\ Len(stack[a]) \in Nat \ {0}
  OBVIOUS
<1>2. /\ SubSeq(stack[a], 1, Len(stack[a]) - 1) \in Seq(Contexts)
      /\ Len(SubSeq(stack[a], 1, Len(stack[a]) - 1)) = Len(stack[a]) - 1
      /\ \A i \in 1..(Len(stack[a]) - 1) :
           SubSeq(stack[a], 1, Len(stack[a]) - 1)[i] = stack[a][i]
  <2> DEFINE s == stack[a]
             n == Len(s) - 1
  <2>1. n \in Nat /\ \A i \in 1..n : s[i] \in Contexts
    BY <1>1
  <2> HIDE DEF s, n
  <2>2. /\ SubSeq(s, 1, n) \in Seq(Contexts)
        /\ Len(SubSeq(s, 1, n)) = IF 1 <= n THEN n - 1 + 1 ELSE 0
        /\ \A i \in 1..(n - 1 + 1) : SubSeq(s, 1, n)[i] = s[1 + i - 1]
    BY <2>1, SubSeqProperties
  <2>3. /\ SubSeq(s, 1, n) \in Seq(Contexts)
        /\ Len(SubSeq(s, 1, n)) = n
        /\ \A i \in 1..n : SubSeq(s, 1, n)[i] = s[i]
    BY <2>1, <2>2
  <2>4. QED
    BY <2>3 DEF s, n
<1>3. stack'[a] = SubSeq(stack[a], 1, Len(stack[a]) - 1)
  OBVIOUS
<1>4. QED
  BY <1>1, <1>2, <1>3

LEMMA PopOnStack ==
  ASSUME stack \in [Actors -> Seq(Contexts)], NEW a \in Actors, stack[a] # <<>>,
         \A i, j \in 1..Len(stack[a]) : stack[a][i] = stack[a][j] => i = j,
         stack' = [stack EXCEPT ![a] = SubSeq(@, 1, Len(@) - 1)]
  PROVE  /\ Current(a) \in Contexts
         /\ OnStack(a, Current(a))
         /\ \A b \in Actors, d \in Contexts :
              OnStack(b, d)' <=> OnStack(b, d) /\ ~(b = a /\ d = Current(a))
<1> DEFINE n == Len(stack[a])
<1>1. n \in Nat \ {0} /\ 1..n = (1..(n-1)) \cup {n} /\ n \notin 1..(n-1)
  BY PopStack
<1>2. Current(a) = stack[a][n] /\ Current(a) \in Contexts
  BY <1>1 DEF Current
<1>3. \A d \in Contexts : OnStack(a, d)' <=> OnStack(a, d) /\ d # Current(a)
  <2> SUFFICES ASSUME NEW d \in Contexts
               PROVE  OnStack(a, d)' <=> OnStack(a, d) /\ d # Current(a)
    OBVIOUS
  <2>1. Len(stack'[a]) = n - 1 /\ \A i \in 1..(n-1) : stack'[a][i] = stack[a][i]
    BY PopStack
  <2>2. OnStack(a, d)' <=> \E i \in 1..(n-1) : stack[a][i] = d
    BY <2>1 DEF OnStack
  <2>3. OnStack(a, d) <=> \E i \in 1..n : stack[a][i] = d
    BY DEF OnStack
  <2>4. (\E i \in 1..(n-1) : stack[a][i] = d) <=> (\E i \in 1..n : stack[a][i] = d) /\ d # stack[a][n]
    BY <1>1
  <2>5. QED
    BY <2>2, <2>3, <2>4, <1>2
<1>4. \A b \in Actors, d \in Contexts : b # a => (OnStack(b, d)' <=> OnStack(b, d))
  BY PopStack DEF OnStack
<1>5. OnStack(a, Current(a))
  BY <1>1, <1>2 DEF OnStack
<1>6. QED
  BY <1>2, <1>3, <1>4, <1>5

\* A thread that is inside a function has a current context on its stack.
LEMMA CurrentOnStack ==
  ASSUME stack \in [Actors -> Seq(Contexts)], NEW a \in Actors, stack[a] # <<>>
  PROVE  Current(a) \in Contexts /\ OnStack(a, Current(a))
<1>1. Len(stack[a]) \in 1..Len(stack[a])
  OBVIOUS
<1>2. QED
  BY <1>1 DEF Current, OnStack
-----------------------------------------------------------------------------
(* The counter.                                                            *)

LEMMA HoldersFinite == \A r \in Callers : IsFiniteSet(Holders(r))
<1>1. \A r \in Callers : Holders(r) \in SUBSET Contexts
  BY DEF Holders
<1>2. QED
  BY <1>1, FinitePool, FS_Subset

\* With the counter at zero the call has no task.
LEMMA ZeroMeansNoHolder ==
  ASSUME Counting, NEW c \in Contexts, workers[c] \in Callers, Holds(c),
         value[workers[c]] = 0
  PROVE  FALSE
<1>1. c \in Holders(workers[c])
  BY DEF Holders
<1>2. IsFiniteSet(Holders(workers[c])) /\ Cardinality(Holders(workers[c])) = 0
  BY HoldersFinite DEF Counting, CounterCountsTasks
<1>3. QED
  BY <1>1, <1>2, FS_EmptySet

\* Nor does a worker work for the call.
LEMMA ZeroMeansNoJob ==
  ASSUME Types, Counting, NEW t \in Threads, job[t] # NULL, workers[job[t]] \in Callers,
         value[workers[job[t]]] = 0
  PROVE  FALSE
<1>1. job[t] \in Contexts /\ Holds(job[t])
  BY DEF Types, OrNull, Holds
<1>2. QED
  BY <1>1, ZeroMeansNoHolder

\* A step that moves no context in or out of the holders keeps the count.
LEMMA SameHolders ==
  ASSUME Counting, value' = value, NEW D \in SUBSET Contexts,
         \A c \in Contexts \ D : workers'[c] = workers[c] /\ (Holds(c)' <=> Holds(c)),
         \A c \in D : /\ workers[c] \notin Callers \/ ~Holds(c)
                      /\ workers'[c] \notin Callers \/ ~Holds(c)'
  PROVE  Counting'
<1>1. \A r \in Callers : Holders(r)' = Holders(r)
  BY DEF Holders
<1>2. QED
  BY <1>1 DEF Counting, CounterCountsTasks

\* One task more for the call w: the counter goes up with it.
LEMMA OneHolderMore ==
  ASSUME Types, Counting, NEW w \in Callers, NEW d \in Contexts,
         value' = [value EXCEPT ![w] = @ + 1],
         ~Holds(d) \/ workers[d] # w, Holds(d)', workers'[d] = w,
         workers[d] \in {NULL, w},
         \A c \in Contexts \ {d} : workers'[c] = workers[c] /\ (Holds(c)' <=> Holds(c))
  PROVE  Counting'
<1>1. \A r \in Callers : r # w => Holders(r)' = Holders(r)
  BY FinitePool DEF Holders, Actors
<1>2. Holders(w)' = Holders(w) \cup {d} /\ d \notin Holders(w)
  BY DEF Holders
<1>3. Cardinality(Holders(w) \cup {d}) = Cardinality(Holders(w)) + 1
  BY <1>2, HoldersFinite, FS_AddElement
<1>4. QED
  BY <1>1, <1>2, <1>3 DEF Counting, CounterCountsTasks, Types

\* One task less: the counter goes down.
LEMMA OneHolderLess ==
  ASSUME Types, Counting, NEW w \in Callers, NEW d \in Contexts,
         value' = [value EXCEPT ![w] = @ - 1],
         Holds(d), ~Holds(d)', workers[d] = w, workers' = workers,
         \A c \in Contexts \ {d} : Holds(c)' <=> Holds(c)
  PROVE  Counting' /\ value[w] \in Nat \ {0}
<1>1. \A r \in Callers : r # w => Holders(r)' = Holders(r)
  BY DEF Holders
<1>2. Holders(w)' = Holders(w) \ {d} /\ d \in Holders(w)
  BY DEF Holders
<1>3. Cardinality(Holders(w) \ {d}) = Cardinality(Holders(w)) - 1
  BY <1>2, HoldersFinite, FS_RemoveElement
<1>4. Cardinality(Holders(w)) \in Nat \ {0}
  BY <1>2, HoldersFinite, FS_CardinalityType, FS_EmptySet
<1>5. QED
  BY <1>1, <1>2, <1>3, <1>4 DEF Counting, CounterCountsTasks, Types
-----------------------------------------------------------------------------
(* Each step keeps IInv.                                                   *)

LEMMA IncreaseStep ==
  ASSUME IInv, NEW a \in Actors, Increase(a)
  PROVE  IInv'
<1> DEFINE c == spawn[a]
           w == workers[c]
<1>1. /\ c \in Contexts /\ status[c] = "new" /\ w \in Callers
      /\ \A t \in Threads : job[t] # c
  BY DEF IInv, Types, Spawns, Contextual, Jobs, Increase, OrNull
<1>2. /\ status' = [status EXCEPT ![c] = "counted"]
      /\ value' = [value EXCEPT ![w] = @ + 1]
      /\ UNCHANGED <<queue, is_closed, reader, num_of_blocked, exited, pool, stops, job, lost,
                     call, variable, owner, workers, task_mode, stack, spawn>>
  BY DEF Increase, queueVars, poolVars, callVars, contextVars
<1>3. \A b \in Actors, d \in Contexts : OnStack(b, d)' <=> OnStack(b, d)
  BY <1>2 DEF OnStack
<1>4. Types'
  BY <1>1, <1>2 DEF IInv, Types, Statuses
<1>5. Stacks'
  BY <1>1, <1>2, <1>3 DEF IInv, Types, Stacks
<1>6. Queued'
  BY <1>1, <1>2 DEF IInv, Types, Queued
<1>7. Jobs'
  BY <1>1, <1>2, <1>3 DEF IInv, Types, OrNull, Jobs, Actors
<1>8. Spawns'
  BY <1>1, <1>2 DEF IInv, Types, Spawns
<1>9. Contextual'
  BY <1>1, <1>2 DEF IInv, Types, Contextual
<1>10. OnWorkers'
  BY <1>1, <1>2, <1>3 DEF IInv, OnWorkers, Actors
<1>11. OnCallers'
  BY <1>1, <1>2, <1>3, FinitePool DEF IInv, Types, OnCallers, Actors
<1>12. value[w] # 0
  <2>1. a \in Threads \/ a \in Callers
    BY DEF Actors
  <2>2. CASE a \in Threads
    <3>1. job[a] # NULL /\ workers[job[a]] = w
      BY <1>1, <2>2, FinitePool DEF IInv, OnWorkers, Jobs, Actors
    <3>2. QED
      BY <1>1, <2>2, <3>1, ZeroMeansNoJob DEF IInv
  <2>3. CASE a \in Callers
    BY <1>1, <2>3, FinitePool DEF IInv, OnCallers, Contextual, Variables, Actors
  <2>4. QED
    BY <2>1, <2>2, <2>3
<1>13. Variables'
  BY <1>1, <1>2, <1>12 DEF IInv, Types, Variables
<1>14. Counting'
  <2>1. ~Holds(c) /\ Holds(c)'
    BY <1>1, <1>2 DEF Holds, IInv, Types
  <2>2. \A d \in Contexts \ {c} : Holds(d)' <=> Holds(d)
    BY <1>1, <1>2 DEF Holds, IInv, Types
  <2>3. QED
    BY <1>1, <1>2, <2>1, <2>2, OneHolderMore DEF IInv
<1>15. QED
  BY <1>4, <1>5, <1>6, <1>7, <1>8, <1>9, <1>10, <1>11, <1>13, <1>14 DEF IInv

LEMMA StartTaskStep ==
  ASSUME IInv, NEW a \in Actors, StartTask(a)
  PROVE  IInv'
<1> DEFINE c == spawn[a]
<1>1. /\ c \in Contexts /\ status[c] = "counted" /\ c # stop_task
      /\ \A t \in Threads : job[t] # c
      /\ \A i \in 1..Len(queue) : queue[i] # c
  <2>1. c \in Contexts /\ status[c] = "counted"
    BY DEF IInv, Types, StartTask, OrNull
  <2>2. c # stop_task
    BY <2>1, FinitePool
  <2>3. \A t \in Threads : job[t] # c
    BY <2>1, FinitePool DEF IInv, Jobs, Actors
  <2>4. \A i \in 1..Len(queue) : queue[i] # c
    BY <2>1, <2>2 DEF IInv, Queued
  <2>5. QED
    BY <2>1, <2>2, <2>3, <2>4
<1>2. /\ spawn' = [spawn EXCEPT ![a] = NULL]
      /\ call' = [r \in Callers |-> IF r = a /\ call[r] = "start" THEN "wait" ELSE call[r]]
      /\ UNCHANGED <<is_closed, num_of_blocked, exited, pool, stops, job, variable, value,
                     owner, workers, task_mode, stack>>
      /\ \/ queue' = Append(queue, c) /\ status' = [status EXCEPT ![c] = "queued"] /\ lost' = lost
         \/ queue' = queue /\ status' = [status EXCEPT ![c] = "lost"]
            /\ lost < MaxLost /\ lost' = lost + 1
      /\ reader' = [t \in Threads |-> IF reader[t] = "asleep" THEN "woken" ELSE reader[t]]
  BY DEF StartTask, Enqueue, EnqueueFails, Broadcast, poolVars, contextVars
<1>3. \A b \in Actors, d \in Contexts : OnStack(b, d)' <=> OnStack(b, d)
  BY <1>2 DEF OnStack
<1>4. status'[c] \in {"queued", "lost"} /\ \A d \in Contexts \ {c} : status'[d] = status[d]
  BY <1>1, <1>2 DEF IInv, Types
<1>5. Types'
  <2>1. lost' \in 0..MaxLost
    BY <1>2, FinitePool DEF IInv, Types
  <2>5. status' \in [Contexts -> Statuses]
    BY <1>1, <1>2 DEF IInv, Types, Statuses
  <2>6. call' \in [Callers -> CallStates]
    BY <1>2 DEF IInv, Types, CallStates
  <2>7. reader' \in [Threads -> ReaderStates]
    BY <1>2 DEF IInv, Types, ReaderStates
  <2>2. queue' \in Seq(Contexts \cup {stop_task})
    <3>1. queue \in Seq(Contexts \cup {stop_task}) /\ c \in Contexts \cup {stop_task}
      BY <1>1 DEF IInv, Types
    <3>2. Append(queue, c) \in Seq(Contexts \cup {stop_task})
      BY <3>1, AppendProperties
    <3>3. QED
      BY <1>2, <3>1, <3>2
  <2>3. spawn' \in [Actors -> OrNull(Contexts)]
    BY <1>2 DEF IInv, Types, OrNull
  <2>4. QED
    BY <1>2, <2>1, <2>2, <2>3, <2>5, <2>6, <2>7 DEF IInv, Types
<1>6. Stacks'
  <2>1. \A d \in Contexts : status'[d] = "running" <=> status[d] = "running"
    BY <1>1, <1>4
  <2>2. QED
    BY <1>2, <1>3, <2>1 DEF IInv, Stacks
<1>7. Queued'
  <2>1. CASE queue' = queue
    <3>1. \A i \in 1..Len(queue) : queue[i] # stop_task => queue[i] \in Contexts
      BY DEF IInv, Types
    <3>2. QED
      BY <1>1, <1>4, <2>1, <3>1 DEF IInv, Queued
  <2>2. CASE queue' = Append(queue, c) /\ status' = [status EXCEPT ![c] = "queued"]
    <3>1. /\ queue \in Seq(Contexts \cup {stop_task})
          /\ \A i \in 1..Len(queue) : queue[i] \in Contexts \cup {stop_task}
      BY DEF IInv, Types
    <3>2. /\ Len(queue) \in Nat
          /\ Len(queue') = Len(queue) + 1
          /\ \A i \in 1..Len(queue) : queue'[i] = queue[i]
          /\ queue'[Len(queue) + 1] = c
      BY <1>1, <2>2, <3>1, AppendProperties
    <3>3. 1..(Len(queue) + 1) = (1..Len(queue)) \cup {Len(queue) + 1}
      BY <3>2
    <3>4. status'[c] = "queued"
      BY <1>1, <2>2 DEF IInv, Types
    <3>5. QED
      BY <1>1, <1>4, <3>1, <3>2, <3>3, <3>4 DEF IInv, Queued
  <2>3. QED
    BY <1>2, <2>1, <2>2
<1>8. Jobs'
  BY <1>1, <1>2, <1>3, <1>4 DEF IInv, Types, OrNull, Jobs, Actors
<1>9. Spawns'
  BY <1>1, <1>2, <1>4 DEF IInv, Types, OrNull, Spawns
<1>10. Contextual'
  <2>1. \A d \in Contexts : owner[d] # NULL /\ workers[d] = NULL /\ variable[owner[d]] # "none" => d # c
    BY <1>1 DEF IInv, Contextual
  <2>2. \A r \in Callers : call[r] \in {"idle", "create"} <=> call'[r] \in {"idle", "create"}
    BY <1>2
  <2>3. \A d \in Contexts : status[d] = "free" <=> status'[d] = "free"
    BY <1>1, <1>4
  <2>4. \A d \in Contexts : owner[d] # NULL => owner[d] \in Callers
    BY DEF IInv, Types, OrNull
  <2>5. SUFFICES ASSUME NEW d \in Contexts
                 PROVE  /\ status'[d] = "free" <=> owner[d] = NULL
                        /\ workers[d] \in {NULL, owner[d]}
                        /\ owner[d] # NULL => call'[owner[d]] \notin {"idle", "create"}
                        /\ workers[d] # NULL => variable[workers[d]] # "none"
                        /\ owner[d] # NULL /\ workers[d] = NULL /\ variable[owner[d]] # "none" =>
                             /\ task_mode[d] = "SINGLE"
                             /\ status'[d] \in {"running", "done"}
                             /\ \A t \in Threads : job[t] # d
    BY <1>2 DEF Contextual
  <2>6. QED
    BY <1>4, <2>1, <2>2, <2>3, <2>4 DEF IInv, Contextual
<1>11. OnWorkers'
  BY <1>2, <1>3, FinitePool DEF IInv, Types, OnWorkers, Actors
<1>12. OnCallers'
  BY <1>1, <1>2, <1>3, <1>4, FinitePool DEF IInv, Types, OrNull, OnCallers, Spawns, Actors
<1>13. Variables'
  BY <1>2 DEF IInv, Types, Variables
<1>14. Counting'
  <2>1. \A d \in Contexts : Holds(d)' <=> Holds(d)
    BY <1>1, <1>2, <1>4 DEF Holds
  <2>2. /\ {} \in SUBSET Contexts /\ value' = value
        /\ \A d \in Contexts \ {} : workers'[d] = workers[d] /\ (Holds(d)' <=> Holds(d))
    BY <1>2, <2>1
  <2>3. QED
    BY <2>2, SameHolders DEF IInv
<1>15. QED
  BY <1>5, <1>6, <1>7, <1>8, <1>9, <1>10, <1>11, <1>12, <1>13, <1>14 DEF IInv

LEMMA TaskEndsStep ==
  ASSUME IInv, NEW t \in Threads, TaskEnds(t)
  PROVE  IInv'
<1>0. PICK c \in Contexts : c = job[t] /\ c # NULL
  BY DEF IInv, Types, TaskEnds, OrNull
<1> DEFINE w == workers[c]
<1>1. c \in Contexts /\ c = job[t] /\ c # NULL /\ w \in OrNull(Callers) /\ status[c] \in {"running", "done"}
  BY <1>0 DEF IInv, Types, Jobs, OrNull
<1>2. /\ job' = [job EXCEPT ![t] = NULL]
      /\ UNCHANGED <<queue, is_closed, reader, num_of_blocked, exited, pool, stops, lost,
                     variable, status, owner, workers, task_mode, stack, spawn>>
      /\ \A d \in Contexts : ~OnStack(t, d)
  BY DEF TaskEnds, queueVars, workerUnchanged, contextVars, OnStack
<1>3. /\ w = NULL => value' = value /\ call' = call
      /\ w # NULL => /\ value' = [value EXCEPT ![w] = @ - 1]
                     /\ call' = [call EXCEPT ![w] = IF value'[w] = 0 /\ @ = "asleep"
                                                    THEN "wait" ELSE @]
  BY <1>0 DEF TaskEnds
<1>4. \A b \in Actors, d \in Contexts : OnStack(b, d)' <=> OnStack(b, d)
  BY <1>2 DEF OnStack
<1>5. \A r \in Callers : \/ call'[r] = call[r]
                         \/ call[r] = "asleep" /\ call'[r] = "wait"
  BY <1>1, <1>3 DEF IInv, Types, OrNull
<1>6. Types'
  <2>1. call' \in [Callers -> CallStates]
    <3>1. CASE w = NULL
      BY <1>3, <3>1 DEF IInv, Types
    <3>2. CASE w # NULL
      <4>1. call \in [Callers -> CallStates] /\ w \in Callers
        BY <1>1, <3>2 DEF IInv, Types, OrNull
      <4>2. PICK x \in CallStates : call' = [call EXCEPT ![w] = x]
        BY <1>3, <3>2, <4>1 DEF CallStates
      <4>3. QED
        BY <4>1, <4>2
    <3>3. QED
      BY <3>1, <3>2
  <2>2. value' \in [Callers -> Int]
    BY <1>1, <1>3 DEF IInv, Types, OrNull
  <2>3. job' \in [Threads -> OrNull(Contexts)]
    BY <1>2 DEF IInv, Types, OrNull
  <2>4. QED
    BY <1>2, <2>1, <2>2, <2>3 DEF IInv, Types
<1>7. Stacks' /\ Queued' /\ Spawns'
  BY <1>2, <1>4 DEF IInv, Stacks, Queued, Spawns
<1>8. Jobs'
  BY <1>1, <1>2, <1>4 DEF IInv, Types, Jobs, Actors
<1>9. Contextual'
  <2>1. \A d \in Contexts : owner[d] # NULL => owner[d] \in Callers
    BY DEF IInv, Types, OrNull
  <2>2. \A r \in Callers : call[r] \notin {"idle", "create"} => call'[r] \notin {"idle", "create"}
    BY <1>5
  <2>3. \A u \in Threads, d \in Contexts : job[u] # d => job'[u] # d
    BY <1>1, <1>2, FinitePool DEF IInv, Types
  <2>4. QED
    BY <1>2, <2>1, <2>2, <2>3 DEF IInv, Contextual
<1>10. OnWorkers'
  <2>1. spawn[t] = NULL
    BY <1>2 DEF IInv, OnWorkers
  <2>2. QED
    BY <1>2, <1>4, <2>1 DEF IInv, Types, OnWorkers, Actors
<1>11. OnCallers'
  BY <1>2, <1>4, <1>5 DEF IInv, OnCallers, Actors
<1>12. /\ w # NULL => value[w] \in Nat \ {0}
       /\ Counting'
  <2>1. /\ job'[t] = NULL
        /\ \A u \in Threads : u # t => job'[u] = job[u] /\ job[u] # c
    BY <1>1, <1>2 DEF IInv, Types, Jobs
  <2>4. Holds(c) /\ ~Holds(c)'
    <3>1. Holds(c)
      BY <1>0 DEF Holds
    <3>2. \A u \in Threads : job'[u] # c
      BY <1>1, <2>1
    <3>3. status'[c] \notin {"counted", "queued", "lost"}
      BY <1>1, <1>2
    <3>4. QED
      BY <1>2, <3>1, <3>2, <3>3 DEF Holds
  <2>5. \A d \in Contexts \ {c} : Holds(d)' <=> Holds(d)
    <3>1. \A d \in Contexts \ {c}, u \in Threads : job'[u] = d <=> job[u] = d
      BY <1>1, <2>1, FinitePool
    <3>2. QED
      BY <1>2, <3>1 DEF Holds
  <2>2. CASE w = NULL
    <3>1. /\ {c} \in SUBSET Contexts /\ value' = value
          /\ \A d \in Contexts \ {c} : workers'[d] = workers[d] /\ (Holds(d)' <=> Holds(d))
          /\ \A d \in {c} : /\ workers[d] \notin Callers \/ ~Holds(d)
                            /\ workers'[d] \notin Callers \/ ~Holds(d)'
      BY <1>1, <1>2, <1>3, <2>2, <2>5, FinitePool DEF Actors
    <3>2. QED
      BY <3>1, <2>2, SameHolders DEF IInv
  <2>3. CASE w # NULL
    <3>1. w \in Callers /\ value' = [value EXCEPT ![w] = @ - 1] /\ workers' = workers
      BY <1>1, <1>2, <1>3, <2>3 DEF OrNull
    <3>2. Types /\ Counting /\ c \in Contexts /\ workers[c] = w
      BY <1>1 DEF IInv
    <3>3. value[w] \in Nat \ {0} /\ Counting'
      BY <2>4, <2>5, <3>1, <3>2, OneHolderLess
    <3>4. QED
      BY <3>3
  <2>6. QED
    BY <2>2, <2>3
<1>13. Variables'
  BY <1>1, <1>2, <1>3, <1>5, <1>12 DEF IInv, Types, OrNull, Variables
<1>14. QED
  BY <1>6, <1>7, <1>8, <1>9, <1>10, <1>11, <1>12, <1>13 DEF IInv

\* What the queue still holds when its oldest value is taken.
LEMMA TakeQueue ==
  ASSUME queue \in Seq(Contexts \cup {stop_task}), queue # <<>>, queue' = Tail(queue)
  PROVE  /\ queue' \in Seq(Contexts \cup {stop_task})
         /\ Len(queue) \in Nat \ {0} /\ Len(queue') = Len(queue) - 1
         /\ Head(queue) \in Contexts \cup {stop_task} /\ Head(queue) = queue[1]
         /\ \A i \in 1..Len(queue') :
              queue'[i] = queue[i + 1] /\ i + 1 \in 1..Len(queue) /\ i + 1 # 1
<1>1. Len(queue) \in Nat \ {0}
  BY EmptySeq
<1>2. /\ Head(queue) \in Contexts \cup {stop_task}
      /\ Tail(queue) \in Seq(Contexts \cup {stop_task})
      /\ Len(Tail(queue)) = Len(queue) - 1
      /\ \A i \in 1..Len(Tail(queue)) : Tail(queue)[i] = queue[i + 1]
  BY HeadTailProperties
<1>3. Head(queue) = queue[1]
  OBVIOUS
<1>4. \A i \in 1..(Len(queue) - 1) : i + 1 \in 1..Len(queue) /\ i + 1 # 1
  BY <1>1
<1>5. QED
  BY <1>1, <1>2, <1>3, <1>4

\* A context that starts to run goes to one stack.
LEMMA PushStacks ==
  ASSUME Types, Stacks, NEW a \in Actors, NEW c \in Contexts, Push(a, c),
         status[c] # "running", status' = [status EXCEPT ![c] = "running"]
  PROVE  /\ Stacks'
         /\ stack' \in [Actors -> Seq(Contexts)]
         /\ \A b \in Actors, d \in Contexts :
              OnStack(b, d)' <=> OnStack(b, d) \/ (b = a /\ d = c)
<1>1. stack \in [Actors -> Seq(Contexts)]
  BY DEF Types
<1>2. \A b \in Actors, d \in Contexts :
        OnStack(b, d)' <=> OnStack(b, d) \/ (b = a /\ d = c)
  BY <1>1, PushOnStack
<1>3. \A b \in Actors : ~OnStack(b, c)
  BY DEF Stacks
<1>4. status'[c] = "running" /\ \A d \in Contexts \ {c} : status'[d] = status[d]
  BY DEF Types
<1>5. \A b \in Actors : \A i, j \in 1..Len(stack'[b]) : stack'[b][i] = stack'[b][j] => i = j
  <2>1. CASE Len(stack[a]) \in Nat
    <3> DEFINE n == Len(stack[a])
    <3>1. /\ \A b \in Actors : b # a => stack'[b] = stack[b]
          /\ Len(stack'[a]) = n + 1
          /\ \A i \in 1..n : stack'[a][i] = stack[a][i]
          /\ stack'[a][n + 1] = c
      BY <1>1, PushStack
    <3>2. 1..(n + 1) = (1..n) \cup {n + 1}
      BY <2>1
    <3>3. \A i \in 1..n : stack[a][i] # c
      BY <1>3 DEF OnStack
    <3>4. \A i, j \in 1..(n + 1) : stack'[a][i] = stack'[a][j] => i = j
      BY <3>1, <3>2, <3>3 DEF Stacks
    <3>5. QED
      BY <3>1, <3>4 DEF Stacks
  <2>2. QED
    BY <1>1, <2>1
<1>6. \A d \in Contexts : status'[d] = "running" => \E b \in Actors : OnStack(b, d)'
  BY <1>2, <1>4 DEF Stacks
<1>7. \A b \in Actors, d \in Contexts : OnStack(b, d)' => status'[d] = "running"
  BY <1>2, <1>4 DEF Stacks
<1>8. \A b, e \in Actors, d \in Contexts : OnStack(b, d)' /\ OnStack(e, d)' => b = e
  BY <1>2, <1>3 DEF Stacks
<1>9. stack' \in [Actors -> Seq(Contexts)]
  BY <1>1, PushStack
<1>10. QED
  BY <1>2, <1>5, <1>6, <1>7, <1>8, <1>9 DEF Stacks

LEMMA TakesTaskStep ==
  ASSUME IInv, NEW t \in Threads, WorkerTakesTask(t)
  PROVE  IInv'
<1>0. PICK c \in Contexts : c = Head(queue)
  <2>1. queue # <<>> /\ queue' = Tail(queue) /\ Head(queue) # stop_task
    BY DEF WorkerTakesTask, DequeueTake
  <2>2. QED
    BY <2>1, TakeQueue DEF IInv, Types
<1>1. /\ queue' \in Seq(Contexts \cup {stop_task})
      /\ c = queue[1] /\ 1 \in 1..Len(queue) /\ c # stop_task
      /\ \A i \in 1..Len(queue') :
           queue'[i] = queue[i + 1] /\ i + 1 \in 1..Len(queue) /\ i + 1 # 1
  <2>1. queue # <<>> /\ queue' = Tail(queue) /\ Head(queue) # stop_task
    BY DEF WorkerTakesTask, DequeueTake
  <2>2. queue \in Seq(Contexts \cup {stop_task})
    BY DEF IInv, Types
  <2>3. QED
    BY <1>0, <2>1, <2>2, TakeQueue
<1>2. /\ job[t] = NULL /\ Push(t, c)
      /\ job' = [job EXCEPT ![t] = c]
      /\ status' = [status EXCEPT ![c] = "running"]
      /\ reader' = [reader EXCEPT ![t] = "out"]
      /\ UNCHANGED <<is_closed, num_of_blocked, exited, pool, stops, lost, call, variable,
                     value, owner, workers, task_mode, spawn>>
  BY <1>0 DEF WorkerTakesTask, DequeueTake, InLoop, workerUnchanged, contextVars
<1>3. status[c] = "queued" /\ t \in Actors /\ c # NULL
  BY <1>1, FinitePool DEF IInv, Queued, Actors
<1>4. /\ Stacks'
      /\ stack' \in [Actors -> Seq(Contexts)]
      /\ \A b \in Actors, d \in Contexts :
           OnStack(b, d)' <=> OnStack(b, d) \/ (b = t /\ d = c)
  BY <1>2, <1>3, PushStacks DEF IInv
<1>5. /\ status'[c] = "running" /\ \A d \in Contexts \ {c} : status'[d] = status[d]
      /\ job'[t] = c /\ \A u \in Threads \ {t} : job'[u] = job[u]
      /\ \A u \in Threads : job[u] # c
  BY <1>2, <1>3 DEF IInv, Types, Jobs
<1>6. \A d \in Contexts : ~OnStack(t, d)
  BY <1>2 DEF IInv, Jobs
<1>7. Types'
  <2>1. job' \in [Threads -> OrNull(Contexts)]
    BY <1>2 DEF IInv, Types, OrNull
  <2>2. status' \in [Contexts -> Statuses]
    BY <1>2 DEF IInv, Types, Statuses
  <2>3. reader' \in [Threads -> ReaderStates]
    BY <1>2 DEF IInv, Types, ReaderStates
  <2>4. QED
    BY <1>1, <1>2, <1>4, <2>1, <2>2, <2>3 DEF IInv, Types
<1>8. Queued'
  <2>1. \A i \in 1..Len(queue') : queue'[i] # stop_task => queue'[i] \in Contexts \ {c}
    BY <1>1 DEF IInv, Types, Queued
  <2>2. \A i \in 1..Len(queue') : queue'[i] # stop_task => status'[queue'[i]] = "queued"
    BY <1>1, <1>5, <2>1 DEF IInv, Queued
  <2>3. \A i, j \in 1..Len(queue') : i + 1 = j + 1 => i = j
    OBVIOUS
  <2>4. \A i, j \in 1..Len(queue') :
          queue'[i] = queue'[j] /\ queue'[i] # stop_task => i + 1 = j + 1
    BY <1>1 DEF IInv, Queued
  <2>5. QED
    BY <2>2, <2>3, <2>4 DEF Queued
<1>9. Jobs'
  <2>1. \A u \in Threads, d \in Contexts : OnStack(u, d)' => job'[u] # NULL
    BY <1>3, <1>4, <1>5 DEF IInv, Jobs, Actors
  <2>2. \A u \in Threads : job'[u] # NULL => status'[job'[u]] \in {"running", "done"}
    <3>1. \A u \in Threads \ {t} : job'[u] = job[u] /\ (job[u] # NULL => job[u] \in Contexts \ {c})
      BY <1>5 DEF IInv, Types, OrNull
    <3>2. QED
      BY <1>5, <3>1 DEF IInv, Jobs
  <2>3. \A u, v \in Threads : job'[u] = job'[v] /\ job'[u] # NULL => u = v
    BY <1>5 DEF IInv, Jobs
  <2>4. QED
    BY <2>1, <2>2, <2>3 DEF Jobs
<1>10. Spawns'
  BY <1>2, <1>3, <1>5 DEF IInv, Types, OrNull, Spawns
<1>11. Contextual'
  BY <1>2, <1>3, <1>5 DEF IInv, Contextual
<1>12. OnWorkers'
  <2>1. spawn[t] = NULL
    BY <1>6 DEF IInv, OnWorkers
  <2>2. \A u \in Threads \ {t}, d \in Contexts : OnStack(u, d)' <=> OnStack(u, d)
    BY <1>4 DEF Actors
  <2>3. \A d \in Contexts : OnStack(t, d)' => d = c
    BY <1>3, <1>4, <1>6
  <2>4. QED
    BY <1>2, <1>5, <2>1, <2>2, <2>3 DEF IInv, OnWorkers
<1>13. OnCallers'
  <2>1. \A r \in Callers, d \in Contexts : OnStack(r, d)' <=> OnStack(r, d)
    BY <1>4, FinitePool DEF Actors
  <2>2. \A r \in Callers : spawn[r] # c
    BY <1>3 DEF IInv, Spawns, Actors
  <2>3. \A r \in Callers : spawn[r] # NULL => spawn[r] \in Contexts
    BY DEF IInv, Types, OrNull, Actors
  <2>4. QED
    BY <1>2, <1>5, <2>1, <2>2, <2>3 DEF IInv, OnCallers
<1>14. Variables'
  BY <1>2 DEF IInv, Variables
<1>15. Counting'
  <2>1. \A d \in Contexts \ {c}, u \in Threads : job'[u] = d <=> job[u] = d
    BY <1>2, <1>5, FinitePool
  <2>2. \A d \in Contexts : Holds(d)' <=> Holds(d)
    BY <1>3, <1>5, <2>1 DEF Holds
  <2>3. /\ {} \in SUBSET Contexts /\ value' = value
        /\ \A d \in Contexts \ {} : workers'[d] = workers[d] /\ (Holds(d)' <=> Holds(d))
    BY <1>2, <2>2
  <2>4. QED
    BY <2>3, SameHolders DEF IInv
<1>16. QED
  BY <1>4, <1>7, <1>8, <1>9, <1>10, <1>11, <1>12, <1>13, <1>14, <1>15 DEF IInv

\* Nobody has anything to do with a context that is not allocated.
LEMMA FreeContext ==
  ASSUME IInv, NEW c \in Contexts, status[c] = "free"
  PROVE  /\ c # NULL /\ owner[c] = NULL /\ workers[c] = NULL
         /\ \A a \in Actors : ~OnStack(a, c) /\ spawn[a] # c
         /\ \A t \in Threads : job[t] # c
         /\ ~Holds(c)
<1>1. c # NULL /\ NULL \notin Callers
  BY FinitePool DEF Actors
<1>2. owner[c] = NULL /\ workers[c] = NULL
  BY DEF IInv, Contextual
<1>3. \A a \in Actors : ~OnStack(a, c) /\ spawn[a] # c
  BY <1>1 DEF IInv, Stacks, Spawns
<1>4. \A t \in Threads : job[t] # c
  BY <1>1 DEF IInv, Jobs
<1>5. ~Holds(c)
  BY <1>4 DEF Holds
<1>6. QED
  BY <1>1, <1>2, <1>3, <1>4, <1>5

\* The root of a call that has not started is not allocated, and no context
\* works for the call.
LEMMA FreeRoot ==
  ASSUME IInv, NEW r \in Callers, call[r] \in {"idle", "create"}
  PROVE  /\ RootOf[r] \in Contexts /\ status[RootOf[r]] = "free"
         /\ \A d \in Contexts : owner[d] # r /\ workers[d] # r
         /\ spawn[r] = NULL
         /\ \A d \in Contexts : ~OnStack(r, d)
<1>1. RootOf[r] \in Contexts /\ r # NULL
  BY OneRootPerCall, FinitePool DEF Actors
<1>2. \A d \in Contexts : owner[d] # r /\ workers[d] # r
  BY <1>1 DEF IInv, Contextual
<1>3. owner[RootOf[r]] = NULL
  BY <1>1, <1>2 DEF IInv, OnCallers
<1>4. status[RootOf[r]] = "free"
  BY <1>1, <1>3 DEF IInv, Contextual
<1>5. spawn[r] = NULL /\ \A d \in Contexts : ~OnStack(r, d)
  BY DEF IInv, OnCallers
<1>6. QED
  BY <1>1, <1>2, <1>4, <1>5

LEMMA CreateVariableStep ==
  ASSUME IInv, NEW r \in Callers, CreateVariable(r)
  PROVE  IInv'
<1>0. PICK c \in Contexts : c = RootOf[r] /\ status[c] = "free"
  BY FreeRoot DEF CreateVariable
<1>1. /\ c # NULL /\ owner[c] = NULL /\ workers[c] = NULL
      /\ \A a \in Actors : ~OnStack(a, c) /\ spawn[a] # c
      /\ \A t \in Threads : job[t] # c
      /\ ~Holds(c)
  BY <1>0, FreeContext
<1>2. /\ \A d \in Contexts : owner[d] # r /\ workers[d] # r
      /\ spawn[r] = NULL
      /\ \A d \in Contexts : ~OnStack(r, d)
  BY FreeRoot DEF CreateVariable
<1>3. /\ call[r] = "create"
      /\ variable' = [variable EXCEPT ![r] = "live"]
      /\ value' = [value EXCEPT ![r] = 1]
      /\ owner' = [owner EXCEPT ![c] = r]
      /\ workers' = [workers EXCEPT ![c] = r]
      /\ status' = [status EXCEPT ![c] = "counted"]
      /\ spawn' = [spawn EXCEPT ![r] = c]
      /\ call' = [call EXCEPT ![r] = "start"]
      /\ UNCHANGED <<queue, is_closed, reader, exited, pool, stops, job, lost,
                     num_of_blocked, task_mode, stack>>
  BY <1>0 DEF CreateVariable, callerUnchanged, queueVars
<1>4. \A b \in Actors, d \in Contexts : OnStack(b, d)' <=> OnStack(b, d)
  BY <1>3 DEF OnStack
<1>5. r \in Actors /\ r \notin Threads /\ r # NULL /\ NULL \notin Callers
  BY FinitePool DEF Actors
<1>6. /\ status'[c] = "counted" /\ owner'[c] = r /\ workers'[c] = r
      /\ \A d \in Contexts \ {c} :
           status'[d] = status[d] /\ owner'[d] = owner[d] /\ workers'[d] = workers[d]
      /\ spawn'[r] = c /\ \A a \in Actors \ {r} : spawn'[a] = spawn[a]
      /\ call'[r] = "start" /\ variable'[r] = "live"
      /\ \A s \in Callers \ {r} : call'[s] = call[s] /\ variable'[s] = variable[s] /\ value'[s] = value[s]
  BY <1>3, <1>5 DEF IInv, Types
<1>7. Types'
  <2>1. spawn' \in [Actors -> OrNull(Contexts)]
    BY <1>3 DEF IInv, Types, OrNull
  <2>2. owner' \in [Contexts -> OrNull(Callers)] /\ workers' \in [Contexts -> OrNull(Callers)]
    BY <1>3 DEF IInv, Types, OrNull
  <2>3. status' \in [Contexts -> Statuses] /\ call' \in [Callers -> CallStates]
    BY <1>3 DEF IInv, Types, Statuses, CallStates
  <2>4. value' \in [Callers -> Int] /\ variable' \in [Callers -> {"none", "live", "released"}]
    BY <1>3 DEF IInv, Types
  <2>5. QED
    BY <1>3, <2>1, <2>2, <2>3, <2>4 DEF IInv, Types
<1>8. Stacks'
  <2>1. \A d \in Contexts : status'[d] = "running" <=> status[d] = "running"
    BY <1>0, <1>6
  <2>2. QED
    BY <1>3, <1>4, <2>1 DEF IInv, Stacks
<1>9. Queued'
  <2>1. \A i \in 1..Len(queue) : queue[i] # stop_task => queue[i] \in Contexts \ {c}
    <3>1. \A i \in 1..Len(queue) : queue[i] \in Contexts \cup {stop_task}
      BY DEF IInv, Types
    <3>2. QED
      BY <1>0, <3>1 DEF IInv, Queued
  <2>2. QED
    BY <1>3, <1>6, <2>1 DEF IInv, Queued
<1>10. Jobs'
  <2>1. \A t \in Threads : job[t] # NULL => job[t] \in Contexts \ {c}
    BY <1>1 DEF IInv, Types, OrNull
  <2>2. QED
    BY <1>3, <1>4, <1>6, <2>1 DEF IInv, Jobs, Actors
<1>11. Spawns'
  <2>1. \A a \in Actors \ {r} : spawn[a] # NULL => spawn[a] \in Contexts \ {c}
    BY <1>1 DEF IInv, Types, OrNull
  <2>2. \A d \in Contexts : status[d] = "new" => \E a \in Actors \ {r} : spawn[a] = d
    BY <1>2, FinitePool DEF IInv, Spawns
  <2>3. QED
    BY <1>5, <1>6, <2>1, <2>2 DEF IInv, Spawns
<1>12. Contextual'
  <2>1. \A d \in Contexts \ {c} : owner'[d] # r /\ workers'[d] # r
    BY <1>2, <1>6
  <2>2. \A d \in Contexts : owner[d] \in Callers \cup {NULL} /\ workers[d] \in Callers \cup {NULL}
    BY DEF IInv, Types, OrNull
  <2>3. QED
    BY <1>3, <1>5, <1>6, <2>1, <2>2 DEF IInv, Contextual
<1>13. OnWorkers'
  <2>1. \A t \in Threads : /\ t \in Actors \ {r}
                           /\ job[t] # NULL => job[t] \in Contexts \ {c}
                           /\ spawn[t] # NULL => spawn[t] \in Contexts \ {c}
    BY <1>1, <1>5 DEF IInv, Types, OrNull, Actors
  <2>2. \A t \in Threads, d \in Contexts : OnStack(t, d) => d # c /\ job[t] # NULL
    BY <1>1 DEF IInv, Jobs, Actors
  <2>3. \A t \in Threads : spawn[t] # NULL => job[t] # NULL
    BY <2>2 DEF IInv, OnWorkers
  <2>4. QED
    BY <1>3, <1>4, <1>6, <2>1, <2>2, <2>3 DEF IInv, OnWorkers
<1>14. OnCallers'
  <2>1. \A s \in Callers : s \in Actors /\ RootOf[s] \in Contexts /\ (s # r => RootOf[s] # c)
    BY <1>0, OneRootPerCall DEF Actors
  <2>2. \A s \in Callers \ {r} : spawn[s] # NULL => spawn[s] \in Contexts \ {c}
    BY <1>1, <2>1 DEF IInv, Types, OrNull
  <2>3. QED
    BY <1>0, <1>1, <1>2, <1>4, <1>6, <2>1, <2>2 DEF IInv, OnCallers
<1>15. value[r] = 0
  <2>1. Holders(r) = {}
    BY <1>2 DEF Holders
  <2>2. QED
    BY <2>1, FS_EmptySet DEF IInv, Counting, CounterCountsTasks
<1>16. Variables'
  BY <1>3, <1>6 DEF IInv, Variables
<1>17. Counting'
  <2>1. value' = [value EXCEPT ![r] = @ + 1]
    BY <1>3, <1>15 DEF IInv, Types
  <2>2. Holds(c)'
    BY <1>6 DEF Holds
  <2>3. \A d \in Contexts \ {c} : workers'[d] = workers[d] /\ (Holds(d)' <=> Holds(d))
    BY <1>3, <1>6 DEF Holds
  <2>4. Types /\ Counting
    BY DEF IInv
  <2>5. QED
    BY <1>1, <1>6, <2>1, <2>2, <2>3, <2>4, OneHolderMore
<1>18. QED
  BY <1>7, <1>8, <1>9, <1>10, <1>11, <1>12, <1>13, <1>14, <1>16, <1>17 DEF IInv

LEMMA RunRootInlineStep ==
  ASSUME IInv, NEW r \in Callers, RunRootInline(r)
  PROVE  IInv'
<1>0. PICK c \in Contexts : c = RootOf[r] /\ status[c] = "free"
  BY FreeRoot DEF RunRootInline
<1>1. /\ c # NULL /\ owner[c] = NULL /\ workers[c] = NULL
      /\ \A a \in Actors : ~OnStack(a, c) /\ spawn[a] # c
      /\ \A t \in Threads : job[t] # c
      /\ ~Holds(c)
  BY <1>0, FreeContext
<1>2. /\ \A d \in Contexts : owner[d] # r /\ workers[d] # r
      /\ spawn[r] = NULL
      /\ \A d \in Contexts : ~OnStack(r, d)
  BY FreeRoot DEF RunRootInline
<1>3. /\ call[r] = "idle" /\ Push(r, c)
      /\ owner' = [owner EXCEPT ![c] = r]
      /\ status' = [status EXCEPT ![c] = "running"]
      /\ call' = [call EXCEPT ![r] = "inline"]
      /\ UNCHANGED <<queue, is_closed, reader, exited, pool, stops, job, lost, variable,
                     value, workers, num_of_blocked, task_mode, spawn>>
  BY <1>0 DEF RunRootInline, callerUnchanged, queueVars
<1>4. r \in Actors /\ r \notin Threads /\ r # NULL
  BY FinitePool DEF Actors
<1>5. /\ Stacks'
      /\ stack' \in [Actors -> Seq(Contexts)]
      /\ \A b \in Actors, d \in Contexts :
           OnStack(b, d)' <=> OnStack(b, d) \/ (b = r /\ d = c)
  <2>1. /\ Types /\ Stacks /\ r \in Actors /\ c \in Contexts /\ Push(r, c)
        /\ status[c] # "running" /\ status' = [status EXCEPT ![c] = "running"]
    BY <1>0, <1>3, <1>4 DEF IInv
  <2>2. QED
    BY <2>1, PushStacks
<1>6. /\ status'[c] = "running" /\ owner'[c] = r
      /\ \A d \in Contexts \ {c} : status'[d] = status[d] /\ owner'[d] = owner[d]
      /\ call'[r] = "inline" /\ \A s \in Callers \ {r} : call'[s] = call[s]
      /\ variable[r] = "none"
  BY <1>3 DEF IInv, Types, Variables
<1>7. Types'
  <2>1. owner' \in [Contexts -> OrNull(Callers)]
    BY <1>3 DEF IInv, Types, OrNull
  <2>2. status' \in [Contexts -> Statuses] /\ call' \in [Callers -> CallStates]
    BY <1>3 DEF IInv, Types, Statuses, CallStates
  <2>3. QED
    BY <1>3, <1>5, <2>1, <2>2 DEF IInv, Types
<1>8. Queued'
  <2>1. \A i \in 1..Len(queue) : queue[i] # stop_task => queue[i] \in Contexts \ {c}
    <3>1. \A i \in 1..Len(queue) : queue[i] \in Contexts \cup {stop_task}
      BY DEF IInv, Types
    <3>2. QED
      BY <1>0, <3>1 DEF IInv, Queued
  <2>2. QED
    BY <1>3, <1>6, <2>1 DEF IInv, Queued
<1>9. Jobs'
  <2>1. \A t \in Threads : job[t] # NULL => job[t] \in Contexts \ {c}
    BY <1>1 DEF IInv, Types, OrNull
  <2>2. \A t \in Threads, d \in Contexts : OnStack(t, d)' <=> OnStack(t, d)
    BY <1>4, <1>5 DEF Actors
  <2>3. QED
    BY <1>3, <1>6, <2>1, <2>2 DEF IInv, Jobs
<1>10. Spawns'
  <2>1. \A a \in Actors : spawn[a] # NULL => spawn[a] \in Contexts \ {c}
    BY <1>1 DEF IInv, Types, OrNull
  <2>2. QED
    BY <1>3, <1>6, <2>1 DEF IInv, Spawns
<1>11. Contextual'
  <2>1. \A d \in Contexts \ {c} : owner'[d] # r
    BY <1>2, <1>6
  <2>2. \A d \in Contexts : owner[d] \in Callers \cup {NULL}
    BY DEF IInv, Types, OrNull
  <2>3. QED
    BY <1>1, <1>3, <1>4, <1>6, <2>1, <2>2 DEF IInv, Contextual
<1>12. OnWorkers'
  <2>1. \A t \in Threads : /\ job[t] # NULL => job[t] \in Contexts \ {c}
                           /\ spawn[t] # NULL => spawn[t] \in Contexts \ {c}
    BY <1>1, <1>4 DEF IInv, Types, OrNull, Actors
  <2>2. \A t \in Threads, d \in Contexts : OnStack(t, d)' <=> OnStack(t, d)
    BY <1>4, <1>5 DEF Actors
  <2>3. \A t \in Threads, d \in Contexts : OnStack(t, d) => d # c /\ job[t] # NULL
    BY <1>1 DEF IInv, Jobs, Actors
  <2>4. \A t \in Threads : spawn[t] # NULL => job[t] # NULL
    BY <2>3 DEF IInv, OnWorkers
  <2>5. QED
    BY <1>3, <1>6, <2>1, <2>2, <2>3, <2>4 DEF IInv, OnWorkers
<1>13. OnCallers'
  <2>1. \A s \in Callers : s \in Actors /\ RootOf[s] \in Contexts /\ (s # r => RootOf[s] # c)
    BY <1>0, OneRootPerCall DEF Actors
  <2>2. \A s \in Callers : spawn[s] # NULL => spawn[s] \in Contexts \ {c}
    BY <1>1, <2>1 DEF IInv, Types, OrNull
  <2>3. \A s \in Callers, d \in Contexts : OnStack(s, d)' => (s = r /\ d = c) \/ (s # r /\ d # c /\ OnStack(s, d))
    BY <1>1, <1>2, <1>5, <2>1
  <2>4. QED
    BY <1>0, <1>2, <1>3, <1>6, <2>1, <2>2, <2>3 DEF IInv, OnCallers
<1>14. Variables'
  BY <1>3, <1>6 DEF IInv, Variables
<1>15. Counting'
  <2>1. /\ {} \in SUBSET Contexts /\ value' = value
        /\ \A d \in Contexts \ {} : workers'[d] = workers[d] /\ (Holds(d)' <=> Holds(d))
    BY <1>0, <1>1, <1>3, <1>6 DEF Holds
  <2>2. QED
    BY <2>1, SameHolders DEF IInv
<1>16. QED
  BY <1>5, <1>7, <1>8, <1>9, <1>10, <1>11, <1>12, <1>13, <1>14, <1>15 DEF IInv

LEMMA ReturnStep ==
  ASSUME IInv, NEW a \in Actors, Return(a)
  PROVE  IInv'
<1>0. PICK c \in Contexts : c = Current(a)
  BY CurrentOnStack DEF Return, Active, IInv, Types
<1>1. /\ stack \in [Actors -> Seq(Contexts)] /\ stack[a] # <<>>
      /\ spawn[a] = NULL
      /\ \A i, j \in 1..Len(stack[a]) : stack[a][i] = stack[a][j] => i = j
      /\ stack' = [stack EXCEPT ![a] = SubSeq(@, 1, Len(@) - 1)]
      /\ status' = [status EXCEPT ![c] = "done"]
      /\ call' = [r \in Callers |-> IF r = a /\ Len(stack[r]) = 1 THEN "returned" ELSE call[r]]
      /\ UNCHANGED <<queue, is_closed, reader, num_of_blocked, exited, pool, stops, job, lost,
                     variable, value, owner, workers, task_mode, spawn>>
  BY <1>0 DEF Return, Active, queueVars, poolVars, contextVars, IInv, Types, Stacks
<1>2. /\ OnStack(a, c)
      /\ \A b \in Actors, d \in Contexts :
           OnStack(b, d)' <=> OnStack(b, d) /\ ~(b = a /\ d = c)
  BY <1>0, <1>1, PopOnStack
<1>3. /\ stack' \in [Actors -> Seq(Contexts)]
      /\ Len(stack[a]) \in Nat \ {0}
      /\ \A b \in Actors : b # a => stack'[b] = stack[b]
      /\ Len(stack'[a]) = Len(stack[a]) - 1
      /\ \A i \in 1..(Len(stack[a]) - 1) : stack'[a][i] = stack[a][i]
  BY <1>1, PopStack
<1>4. /\ status[c] = "running" /\ status'[c] = "done"
      /\ \A d \in Contexts \ {c} : status'[d] = status[d]
  BY <1>1, <1>2 DEF IInv, Types, Stacks
<1>5. Types'
  <2>1. status' \in [Contexts -> Statuses] /\ call' \in [Callers -> CallStates]
    BY <1>1 DEF IInv, Types, Statuses, CallStates
  <2>2. QED
    BY <1>1, <1>3, <2>1 DEF IInv, Types
<1>6. Stacks'
  <2>1. \A b \in Actors : \A i, j \in 1..Len(stack'[b]) : stack'[b][i] = stack'[b][j] => i = j
    <3>1. \A i, j \in 1..(Len(stack[a]) - 1) : stack'[a][i] = stack'[a][j] => i = j
      BY <1>1, <1>3
    <3>2. QED
      BY <1>3, <3>1 DEF IInv, Stacks
  <2>2. \A b \in Actors, d \in Contexts : OnStack(b, d) /\ d = c => b = a
    BY <1>2 DEF IInv, Stacks
  <2>3. \A d \in Contexts : status'[d] = "running" => \E b \in Actors : OnStack(b, d)'
    BY <1>2, <1>4 DEF IInv, Stacks
  <2>4. \A b \in Actors, d \in Contexts : OnStack(b, d)' => status'[d] = "running"
    BY <1>2, <1>4, <2>2 DEF IInv, Stacks
  <2>5. \A b, e \in Actors, d \in Contexts : OnStack(b, d)' /\ OnStack(e, d)' => b = e
    BY <1>2 DEF IInv, Stacks
  <2>6. QED
    BY <2>1, <2>3, <2>4, <2>5 DEF Stacks
<1>7. Queued'
  <2>1. \A i \in 1..Len(queue) : queue[i] \in Contexts \cup {stop_task}
    BY DEF IInv, Types
  <2>2. QED
    BY <1>1, <1>4, <2>1 DEF IInv, Queued
<1>8. Jobs'
  BY <1>1, <1>2, <1>4 DEF IInv, Types, OrNull, Jobs, Actors
<1>9. Spawns'
  BY <1>1, <1>4 DEF IInv, Types, OrNull, Spawns
<1>10. \A r \in Callers : \/ call'[r] = call[r]
                          \/ /\ r = a /\ call[r] = "inline" /\ call'[r] = "returned"
                             /\ \A d \in Contexts : ~OnStack(r, d)'
  <2>1. \A r \in Callers : r = a => call[r] = "inline"
    BY <1>2 DEF IInv, OnCallers
  <2>2. Len(stack[a]) = 1 => \A d \in Contexts : ~OnStack(a, d)'
    BY <1>3 DEF OnStack
  <2>3. QED
    BY <1>1, <2>1, <2>2
<1>11. Contextual'
  <2>1. \A d \in Contexts : owner[d] # NULL => owner[d] \in Callers
    BY DEF IInv, Types, OrNull
  <2>2. \A r \in Callers : call[r] \notin {"idle", "create"} => call'[r] \notin {"idle", "create"}
    BY <1>10
  <2>3. QED
    BY <1>1, <1>4, <2>1, <2>2 DEF IInv, Contextual
<1>12. OnWorkers'
  <2>1. \A t \in Threads : spawn[t] # NULL => t \in Actors \ {a}
    BY <1>1 DEF Actors
  <2>2. \A t \in Threads, d \in Contexts : t \in Actors /\ (OnStack(t, d)' => OnStack(t, d))
    BY <1>2 DEF Actors
  <2>3. \A t \in Threads : spawn[t] # NULL => \E d \in Contexts : OnStack(t, d)'
    BY <1>2, <2>1 DEF IInv, OnWorkers
  <2>4. QED
    BY <1>1, <2>2, <2>3 DEF IInv, OnWorkers
<1>13. OnCallers'
  <2>1. \A r \in Callers : r \in Actors /\ (spawn[r] # NULL => r # a /\ spawn[r] \in Contexts \ {c})
    BY <1>1, <1>4 DEF IInv, Types, OrNull, Spawns, Actors
  <2>2. \A r \in Callers, d \in Contexts : OnStack(r, d)' => OnStack(r, d)
    BY <1>2, <2>1
  <2>3. \A r \in Callers : call'[r] = "start" => call[r] = "start"
    BY <1>10
  <2>4. \A r \in Callers : spawn[r] # NULL => call'[r] = call[r]
    BY <1>10, <2>1
  <2>5. QED
    BY <1>1, <1>4, <1>10, <2>1, <2>2, <2>3, <2>4 DEF IInv, OnCallers
<1>14. Variables'
  BY <1>1, <1>10 DEF IInv, Variables
<1>15. Counting'
  <2>1. /\ {} \in SUBSET Contexts /\ value' = value
        /\ \A d \in Contexts \ {} : workers'[d] = workers[d] /\ (Holds(d)' <=> Holds(d))
    BY <1>1, <1>4 DEF Holds
  <2>2. QED
    BY <2>1, SameHolders DEF IInv
<1>16. QED
  BY <1>5, <1>6, <1>7, <1>8, <1>9, <1>11, <1>12, <1>13, <1>14, <1>15 DEF IInv

\* A context that is called in place, with the variable of the current context
\* or with none: only SINGLE contexts lose the variable.
LEMMA CallInlineStep ==
  ASSUME IInv, NEW a \in Actors, NEW c \in Contexts, NEW w, NEW mode \in TaskModes,
         CallInline(a, c, w, mode),
         \/ w = workers[Current(a)] /\ (task_mode[Current(a)] = "SINGLE" => mode = "SINGLE")
         \/ (w = NULL /\ mode = "SINGLE")
  PROVE  IInv'
<1>0. PICK x \in Contexts : x = Current(a) /\ OnStack(a, x)
  BY CurrentOnStack DEF CallInline, Active, IInv, Types
<1>1. /\ spawn[a] = NULL /\ status[c] = "free" /\ Push(a, c)
      /\ \A r \in Callers : c # RootOf[r]
      /\ owner' = [owner EXCEPT ![c] = owner[x]]
      /\ workers' = [workers EXCEPT ![c] = w]
      /\ task_mode' = [task_mode EXCEPT ![c] = mode]
      /\ status' = [status EXCEPT ![c] = "running"]
      /\ UNCHANGED <<queue, is_closed, reader, num_of_blocked, exited, pool, stops, job, lost,
                     call, variable, value, spawn>>
  BY <1>0 DEF CallInline, Active, NewContext, queueVars, poolVars, callVars
<1>2. /\ c # NULL /\ owner[c] = NULL /\ workers[c] = NULL
      /\ \A b \in Actors : ~OnStack(b, c) /\ spawn[b] # c
      /\ \A t \in Threads : job[t] # c
      /\ ~Holds(c)
  BY <1>1, FreeContext
<1>3. /\ status[x] = "running" /\ x # c
      /\ owner[x] \in Callers /\ workers[x] \in {NULL, owner[x]}
      /\ \/ w = workers[x] /\ (task_mode[x] = "SINGLE" => mode = "SINGLE")
         \/ (w = NULL /\ mode = "SINGLE")
      /\ w \in {NULL, owner[x]}
  <2>1. status[x] = "running" /\ x # c
    BY <1>0, <1>1 DEF IInv, Stacks
  <2>2. owner[x] \in Callers /\ workers[x] \in {NULL, owner[x]}
    BY <2>1 DEF IInv, Types, OrNull, Contextual
  <2>3. QED
    BY <1>0, <2>1, <2>2
<1>4. /\ Stacks'
      /\ stack' \in [Actors -> Seq(Contexts)]
      /\ \A b \in Actors, d \in Contexts :
           OnStack(b, d)' <=> OnStack(b, d) \/ (b = a /\ d = c)
  <2>1. /\ Types /\ Stacks /\ Push(a, c)
        /\ status[c] # "running" /\ status' = [status EXCEPT ![c] = "running"]
    BY <1>1 DEF IInv
  <2>2. QED
    BY <2>1, PushStacks
<1>5. /\ status'[c] = "running" /\ owner'[c] = owner[x] /\ workers'[c] = w /\ task_mode'[c] = mode
      /\ \A d \in Contexts \ {c} : /\ status'[d] = status[d] /\ owner'[d] = owner[d]
                                   /\ workers'[d] = workers[d] /\ task_mode'[d] = task_mode[d]
  BY <1>1 DEF IInv, Types
<1>6. Types'
  <2>1. owner' \in [Contexts -> OrNull(Callers)]
    BY <1>1, <1>3 DEF IInv, Types, OrNull
  <2>2. workers' \in [Contexts -> OrNull(Callers)]
    BY <1>1, <1>3 DEF IInv, Types, OrNull
  <2>3. status' \in [Contexts -> Statuses] /\ task_mode' \in [Contexts -> TaskModes]
    BY <1>1 DEF IInv, Types, Statuses
  <2>4. QED
    BY <1>1, <1>4, <2>1, <2>2, <2>3 DEF IInv, Types
<1>7. Queued'
  <2>1. \A i \in 1..Len(queue) : queue[i] \in Contexts \cup {stop_task}
    BY DEF IInv, Types
  <2>2. \A i \in 1..Len(queue) : queue[i] # stop_task => queue[i] \in Contexts \ {c}
    BY <1>1, <2>1 DEF IInv, Queued
  <2>3. QED
    BY <1>1, <1>5, <2>2 DEF IInv, Queued
<1>8. \A t \in Threads : /\ t \in Actors
                         /\ job[t] # NULL => job[t] \in Contexts \ {c}
                         /\ spawn[t] # NULL => spawn[t] \in Contexts \ {c}
  BY <1>2 DEF IInv, Types, OrNull, Actors
<1>9. a \in Threads => job[a] # NULL
  BY <1>0 DEF IInv, Jobs
<1>10. Jobs'
  BY <1>1, <1>4, <1>5, <1>8, <1>9 DEF IInv, Jobs
<1>11. Spawns'
  <2>1. \A b \in Actors : spawn[b] # NULL => spawn[b] \in Contexts \ {c}
    BY <1>2 DEF IInv, Types, OrNull
  <2>2. QED
    BY <1>1, <1>5, <2>1 DEF IInv, Spawns
<1>12. Contextual'
  <2>1. owner[x] # NULL
    BY <1>3, FinitePool DEF Actors
  <2>2. /\ call[owner[x]] \notin {"idle", "create"}
        /\ w # NULL => variable[w] # "none"
        /\ w = NULL /\ variable[owner[x]] # "none" => mode = "SINGLE"
    BY <1>3, <2>1 DEF IInv, Contextual
  <2>3. QED
    BY <1>1, <1>2, <1>3, <1>5, <2>1, <2>2 DEF IInv, Contextual
<1>13. OnWorkers'
  <2>1. \A t \in Threads, d \in Contexts : OnStack(t, d)' => \/ d # c /\ OnStack(t, d)
                                                             \/ t = a /\ d = c
    BY <1>2, <1>4, <1>8
  <2>2. \A t \in Threads, d \in Contexts : OnStack(t, d) => d # c /\ job[t] # NULL /\ OnStack(t, d)'
    BY <1>2, <1>4, <1>8 DEF IInv, Jobs
  <2>3. a \in Threads => /\ owner[x] = owner[job[a]]
                         /\ w = workers[job[a]] \/ (w = NULL /\ mode = "SINGLE")
    BY <1>0, <1>3 DEF IInv, OnWorkers
  <2>4. \A t \in Threads : spawn[t] # NULL => job[t] # NULL
    BY <2>2 DEF IInv, OnWorkers
  <2>5. QED
    BY <1>1, <1>5, <1>8, <1>9, <2>1, <2>2, <2>3, <2>4 DEF IInv, OnWorkers
<1>14. OnCallers'
  <2>1. \A r \in Callers : /\ r \in Actors
                           /\ RootOf[r] \in Contexts \ {c}
                           /\ spawn[r] # NULL => spawn[r] \in Contexts \ {c}
    BY <1>1, <1>2, OneRootPerCall DEF IInv, Types, OrNull, Actors
  <2>2. \A r \in Callers, d \in Contexts : OnStack(r, d)' => \/ d # c /\ OnStack(r, d)
                                                             \/ r = a /\ d = c
    BY <1>2, <1>4, <2>1
  <2>3. a \in Callers => call[a] = "inline" /\ owner[x] = a
    BY <1>0 DEF IInv, OnCallers
  <2>4. QED
    BY <1>1, <1>5, <2>1, <2>2, <2>3 DEF IInv, OnCallers
<1>15. Variables'
  BY <1>1 DEF IInv, Variables
<1>16. Counting'
  <2>1. /\ {c} \in SUBSET Contexts /\ value' = value
        /\ \A d \in Contexts \ {c} : workers'[d] = workers[d] /\ (Holds(d)' <=> Holds(d))
        /\ \A d \in {c} : /\ workers[d] \notin Callers \/ ~Holds(d)
                          /\ workers'[d] \notin Callers \/ ~Holds(d)'
    BY <1>1, <1>2, <1>5 DEF Holds
  <2>2. QED
    BY <2>1, SameHolders DEF IInv
<1>17. QED
  BY <1>4, <1>6, <1>7, <1>10, <1>11, <1>12, <1>13, <1>14, <1>15, <1>16 DEF IInv

LEMMA RunInNewTaskStep ==
  ASSUME IInv, NEW a \in Actors, NEW c \in Contexts, NEW fork \in ForkAttributes,
         NEW is_parallel \in BOOLEAN, RunInNewTask(a, c, fork, is_parallel)
  PROVE  IInv'
<1>0. PICK x \in Contexts : x = Current(a) /\ OnStack(a, x)
  BY CurrentOnStack DEF RunInNewTask, Active, IInv, Types
<1> DEFINE w == workers[x]
           mode == ModeAfter(task_mode[x], fork)
<1>1. /\ spawn[a] = NULL /\ status[c] = "free"
      /\ \A r \in Callers : c # RootOf[r]
      /\ task_mode[x] # "SINGLE"
      /\ owner' = [owner EXCEPT ![c] = owner[x]]
      /\ workers' = [workers EXCEPT ![c] = w]
      /\ task_mode' = [task_mode EXCEPT ![c] = mode]
      /\ status' = [status EXCEPT ![c] = IF w = NULL THEN "counted" ELSE "new"]
      /\ spawn' = [spawn EXCEPT ![a] = c]
      /\ UNCHANGED <<queue, is_closed, reader, num_of_blocked, exited, pool, stops, job, lost,
                     call, variable, value, stack>>
  BY <1>0 DEF RunInNewTask, RunsInline, Active, NewContext, queueVars, poolVars, callVars
<1>2. /\ c # NULL /\ owner[c] = NULL /\ workers[c] = NULL
      /\ \A b \in Actors : ~OnStack(b, c) /\ spawn[b] # c
      /\ \A t \in Threads : job[t] # c
      /\ ~Holds(c)
  BY <1>1, FreeContext
<1>3. /\ status[x] = "running" /\ x # c
      /\ owner[x] \in Callers /\ w \in {NULL, owner[x]}
      /\ mode \in TaskModes
  BY <1>0, <1>2 DEF IInv, Types, OrNull, Stacks, Contextual, ModeAfter, TaskModes
<1>4. \A b \in Actors, d \in Contexts : OnStack(b, d)' <=> OnStack(b, d)
  BY <1>1 DEF OnStack
<1>5. /\ status'[c] = IF w = NULL THEN "counted" ELSE "new"
      /\ owner'[c] = owner[x] /\ workers'[c] = w /\ task_mode'[c] = mode
      /\ spawn'[a] = c /\ \A b \in Actors \ {a} : spawn'[b] = spawn[b]
      /\ \A d \in Contexts \ {c} : /\ status'[d] = status[d] /\ owner'[d] = owner[d]
                                   /\ workers'[d] = workers[d] /\ task_mode'[d] = task_mode[d]
  BY <1>1 DEF IInv, Types
<1> HIDE DEF mode
<1>6. Types'
  <2>1. owner' \in [Contexts -> OrNull(Callers)]
    BY <1>1, <1>3 DEF IInv, Types, OrNull
  <2>2. workers' \in [Contexts -> OrNull(Callers)]
    BY <1>1, <1>3 DEF IInv, Types, OrNull
  <2>3. status' \in [Contexts -> Statuses] /\ task_mode' \in [Contexts -> TaskModes]
    BY <1>1, <1>3 DEF IInv, Types, Statuses
  <2>4. spawn' \in [Actors -> OrNull(Contexts)]
    BY <1>1 DEF IInv, Types, OrNull
  <2>5. QED
    BY <1>1, <2>1, <2>2, <2>3, <2>4 DEF IInv, Types
<1>7. Stacks'
  <2>1. \A d \in Contexts : status'[d] = "running" <=> status[d] = "running"
    BY <1>1, <1>5
  <2>2. QED
    BY <1>1, <1>4, <2>1 DEF IInv, Stacks
<1>8. Queued'
  <2>1. \A i \in 1..Len(queue) : queue[i] \in Contexts \cup {stop_task}
    BY DEF IInv, Types
  <2>2. \A i \in 1..Len(queue) : queue[i] # stop_task => queue[i] \in Contexts \ {c}
    BY <1>1, <2>1 DEF IInv, Queued
  <2>3. QED
    BY <1>1, <1>5, <2>2 DEF IInv, Queued
<1>9. \A t \in Threads : /\ t \in Actors
                         /\ job[t] # NULL => job[t] \in Contexts \ {c}
                         /\ spawn[t] # NULL => spawn[t] \in Contexts \ {c}
  BY <1>2 DEF IInv, Types, OrNull, Actors
<1>10. Jobs'
  BY <1>1, <1>4, <1>5, <1>9 DEF IInv, Jobs
<1>11. Spawns'
  <2>1. \A b \in Actors : spawn[b] # NULL => spawn[b] \in Contexts \ {c}
    BY <1>2 DEF IInv, Types, OrNull
  <2>2. \A d \in Contexts \ {c} : status[d] = "new" =>
          workers[d] # NULL /\ \E b \in Actors \ {a} : spawn[b] = d
    BY <1>1, FinitePool DEF IInv, Spawns
  <2>3. status'[c] \in {"new", "counted"} /\ (status'[c] = "new" => w # NULL)
    BY <1>5
  <2>4. \A b \in Actors : spawn'[b] # NULL => status'[spawn'[b]] \in {"new", "counted"}
    BY <1>5, <2>1, <2>3 DEF IInv, Spawns
  <2>5. \A d \in Contexts : status'[d] = "new" =>
          workers'[d] # NULL /\ \E b \in Actors : spawn'[b] = d
    BY <1>5, <2>2, <2>3
  <2>6. \A b, e \in Actors : spawn'[b] = spawn'[e] /\ spawn'[b] # NULL => b = e
    BY <1>5, <2>1 DEF IInv, Spawns
  <2>7. QED
    BY <2>4, <2>5, <2>6 DEF Spawns
<1>12. Contextual'
  <2>1. owner[x] # NULL
    BY <1>3, FinitePool DEF Actors
  <2>2. /\ call[owner[x]] \notin {"idle", "create"}
        /\ w # NULL => variable[w] # "none"
        /\ w = NULL => variable[owner[x]] = "none"
    BY <1>1, <1>3, <2>1 DEF IInv, Contextual
  <2>3. status'[c] # "free"
    BY <1>5
  <2>4. QED
    BY <1>1, <1>2, <1>3, <1>5, <2>1, <2>2, <2>3 DEF IInv, Contextual
<1>13. OnWorkers'
  <2>1. \A t \in Threads, d \in Contexts : OnStack(t, d) => d # c /\ job[t] # NULL
    BY <1>2, <1>9 DEF IInv, Jobs
  <2>2. a \in Threads => owner[x] = owner[job[a]] /\ w = workers[job[a]] /\ job[a] # NULL
    BY <1>0, <1>1, <2>1 DEF IInv, OnWorkers
  <2>3. \A t \in Threads : spawn[t] # NULL => job[t] # NULL
    BY <2>1 DEF IInv, OnWorkers
  <2>4. \A t \in Threads, d \in Contexts : OnStack(t, d)' =>
          /\ owner'[d] = owner'[job'[t]]
          /\ workers'[d] = workers'[job'[t]] \/ (workers'[d] = NULL /\ task_mode'[d] = "SINGLE")
    <3>1. \A t \in Threads, d \in Contexts : OnStack(t, d) =>
            /\ owner[d] = owner[job[t]]
            /\ workers[d] = workers[job[t]] \/ (workers[d] = NULL /\ task_mode[d] = "SINGLE")
      BY DEF IInv, OnWorkers
    <3>2. \A t \in Threads, d \in Contexts : OnStack(t, d)' =>
            OnStack(t, d) /\ d \in Contexts \ {c} /\ job[t] \in Contexts \ {c} /\ job'[t] = job[t]
      BY <1>1, <1>4, <1>9, <2>1
    <3>3. QED
      BY <1>5, <3>1, <3>2
  <2>5. \A t \in Threads \ {a} : spawn'[t] # NULL =>
          /\ \E d \in Contexts : OnStack(t, d)'
          /\ owner'[spawn'[t]] = owner'[job'[t]]
          /\ workers'[spawn'[t]] = workers'[job'[t]]
    BY <1>1, <1>4, <1>5, <1>9, <2>3 DEF IInv, OnWorkers
  <2>6. a \in Threads => /\ \E d \in Contexts : OnStack(a, d)'
                         /\ owner'[spawn'[a]] = owner'[job'[a]]
                         /\ workers'[spawn'[a]] = workers'[job'[a]]
    BY <1>0, <1>1, <1>4, <1>5, <1>9, <2>2
  <2>7. QED
    BY <2>4, <2>5, <2>6 DEF OnWorkers
<1>14. OnCallers'
  <2>1. \A r \in Callers : /\ r \in Actors
                           /\ RootOf[r] \in Contexts \ {c}
                           /\ spawn[r] # NULL => spawn[r] \in Contexts \ {c}
    BY <1>1, <1>2, OneRootPerCall DEF IInv, Types, OrNull, Actors
  <2>2. \A r \in Callers, d \in Contexts : OnStack(r, d)' => d # c /\ OnStack(r, d)
    BY <1>2, <1>4, <2>1
  <2>3. a \in Callers => call[a] = "inline" /\ owner[x] = a
    BY <1>0 DEF IInv, OnCallers
  <2>4. QED
    BY <1>1, <1>5, <2>1, <2>2, <2>3 DEF IInv, OnCallers
<1>15. Variables'
  BY <1>1 DEF IInv, Variables
<1>16. Counting'
  <2>1. workers'[c] \notin Callers \/ ~Holds(c)'
    <3>1. CASE w = NULL
      BY <1>5, <3>1, FinitePool DEF Actors
    <3>2. CASE w # NULL
      BY <1>1, <1>2, <1>5, <3>2 DEF Holds
    <3>3. QED
      BY <3>1, <3>2
  <2>2. /\ {c} \in SUBSET Contexts /\ value' = value
        /\ \A d \in Contexts \ {c} : workers'[d] = workers[d] /\ (Holds(d)' <=> Holds(d))
        /\ \A d \in {c} : /\ workers[d] \notin Callers \/ ~Holds(d)
                          /\ workers'[d] \notin Callers \/ ~Holds(d)'
    BY <1>1, <1>2, <1>5, <2>1 DEF Holds
  <2>3. QED
    BY <2>2, SameHolders DEF IInv
<1>17. QED
  BY <1>6, <1>7, <1>8, <1>10, <1>11, <1>12, <1>13, <1>14, <1>15, <1>16 DEF IInv

\* A step that touches no context: only the queue, the readers and the calls.
LEMMA QuietStep ==
  ASSUME IInv, Types', Queued', Variables',
         UNCHANGED <<job, value, status, owner, workers, task_mode, stack, spawn>>,
         \A r \in Callers : \/ call'[r] = call[r]
                            \/ call[r] = "idle" /\ call'[r] = "create"
                            \/ /\ call[r] \notin {"idle", "create", "start", "inline"}
                               /\ call'[r] \notin {"idle", "create", "start", "inline"},
         \A r \in Callers : variable[r] # "none" <=> variable'[r] # "none"
  PROVE  IInv'
<1>1. \A a \in Actors, d \in Contexts : OnStack(a, d)' <=> OnStack(a, d)
  BY DEF OnStack
<1>2. Stacks'
  BY <1>1 DEF IInv, Stacks
<1>3. Jobs'
  BY <1>1 DEF IInv, Jobs, Actors
<1>4. Spawns'
  BY DEF IInv, Spawns
<1>5. Contextual'
  <2>1. \A d \in Contexts : /\ owner[d] # NULL => owner[d] \in Callers
                            /\ workers[d] # NULL => workers[d] \in Callers
    BY DEF IInv, Types, OrNull
  <2>2. \A r \in Callers : call[r] \notin {"idle", "create"} => call'[r] \notin {"idle", "create"}
    OBVIOUS
  <2>3. QED
    BY <2>1, <2>2 DEF IInv, Contextual
<1>6. OnWorkers'
  BY <1>1 DEF IInv, OnWorkers, Actors
<1>7. OnCallers'
  <2>1. \A r \in Callers : call[r] \in {"start", "inline"} <=> call'[r] \in {"start", "inline"}
    OBVIOUS
  <2>2. \A r \in Callers : /\ call[r] = "start" <=> call'[r] = "start"
                           /\ call[r] = "inline" <=> call'[r] = "inline"
    OBVIOUS
  <2>3. QED
    BY <1>1, <2>1, <2>2 DEF IInv, OnCallers, Actors
<1>8. Counting'
  <2>1. /\ {} \in SUBSET Contexts /\ value' = value
        /\ \A d \in Contexts \ {} : workers'[d] = workers[d] /\ (Holds(d)' <=> Holds(d))
    BY DEF Holds
  <2>2. QED
    BY <2>1, SameHolders DEF IInv
<1>9. QED
  BY <1>2, <1>3, <1>4, <1>5, <1>6, <1>7, <1>8 DEF IInv

\* A worker in its loop that takes no task.
LEMMA WorkerStep ==
  ASSUME IInv, NEW t \in Threads,
         WorkerTakesStop(t) \/ WorkerFindsClosed(t) \/ WorkerSleeps(t) \/ WorkerWakes(t)
  PROVE  IInv'
<1>1. /\ UNCHANGED <<is_closed, num_of_blocked, pool, stops, lost, job, call, variable, value,
                     status, owner, workers, task_mode, stack, spawn>>
      /\ exited' \in {exited, exited \cup {t}}
      /\ \/ reader' = reader
         \/ \E s \in ReaderStates : reader' = [reader EXCEPT ![t] = s]
      /\ \/ queue' = queue
         \/ queue # <<>> /\ queue' = Tail(queue)
  BY DEF WorkerTakesStop, WorkerFindsClosed, WorkerSleeps, WorkerWakes, DequeueTake,
         DequeueClosed, DequeueSleep, SpuriousWake, ReaderStates, queueVars, workerUnchanged,
         contextVars
<1>2. queue \in Seq(Contexts \cup {stop_task})
  BY DEF IInv, Types
<1>3. /\ queue' \in Seq(Contexts \cup {stop_task})
      /\ Queued'
  <2>1. CASE queue' = queue
    BY <1>1, <1>2, <2>1 DEF IInv, Queued
  <2>2. CASE queue # <<>> /\ queue' = Tail(queue)
    <3>1. /\ queue' \in Seq(Contexts \cup {stop_task})
          /\ \A i \in 1..Len(queue') : queue'[i] = queue[i + 1] /\ i + 1 \in 1..Len(queue)
      BY <1>2, <2>2, TakeQueue
    <3>2. \A i, j \in 1..Len(queue') : i + 1 = j + 1 => i = j
      OBVIOUS
    <3>3. \A i, j \in 1..Len(queue') :
            queue'[i] = queue'[j] /\ queue'[i] # stop_task => i + 1 = j + 1
      BY <3>1 DEF IInv, Queued
    <3>4. \A i \in 1..Len(queue') : queue'[i] # stop_task => status'[queue'[i]] = "queued"
      BY <1>1, <3>1 DEF IInv, Queued
    <3>5. QED
      BY <3>1, <3>2, <3>3, <3>4 DEF Queued
  <2>3. QED
    BY <1>1, <2>1, <2>2
<1>4. Types'
  <2>1. reader' \in [Threads -> ReaderStates] /\ exited' \in SUBSET Threads
    BY <1>1 DEF IInv, Types
  <2>2. QED
    BY <1>1, <1>3, <2>1 DEF IInv, Types
<1>5. Variables'
  BY <1>1 DEF IInv, Variables
<1>6. QED
  BY <1>1, <1>3, <1>4, <1>5, QuietStep

\* A caller that waits, is woken, or comes and goes.
LEMMA CallerStep ==
  ASSUME IInv, NEW r \in Callers,
         TryWait(r) \/ Wait(r) \/ CallerWakes(r) \/ Release(r) \/ FinishWait(r)
  PROVE  IInv'
<1>1. /\ UNCHANGED <<queue, is_closed, reader, exited, pool, stops, job, lost, value, status,
                     owner, workers, task_mode, stack, spawn>>
  BY DEF TryWait, Wait, CallerWakes, Release, FinishWait, callerUnchanged, queueVars, contextVars
<1>2. PICK s \in CallStates :
        /\ call' = [call EXCEPT ![r] = s]
        /\ \/ call[r] = "idle" /\ s = "create" /\ variable' = variable
           \/ call[r] = "wait" /\ s = "release" /\ variable' = variable /\ value[r] = 0
           \/ call[r] = "wait" /\ s = "asleep" /\ variable' = variable
           \/ call[r] = "asleep" /\ s = "wait" /\ variable' = variable
           \/ call[r] = "release" /\ s = "finish" /\ variable' = [variable EXCEPT ![r] = "released"]
           \/ call[r] = "finish" /\ s = "returned" /\ variable' = variable
  BY DEF TryWait, Wait, CallerWakes, Release, FinishWait, CallStates
<1>3. num_of_blocked' \in Nat
  BY DEF TryWait, Wait, CallerWakes, Release, FinishWait, IInv, Types
<1>4. Types'
  <2>1. call' \in [Callers -> CallStates] /\ variable' \in [Callers -> {"none", "live", "released"}]
    BY <1>2 DEF IInv, Types
  <2>2. QED
    BY <1>1, <1>3, <2>1 DEF IInv, Types
<1>5. Queued'
  BY <1>1 DEF IInv, Queued
<1>6. /\ call'[r] = s
      /\ \A q \in Callers \ {r} : call'[q] = call[q] /\ variable'[q] = variable[q]
      /\ variable'[r] = variable[r] \/ (call[r] = "release" /\ variable'[r] = "released")
  BY <1>2 DEF IInv, Types
<1>7. Variables'
  <2>1. /\ call[r] \in {"idle", "create", "inline"} => variable[r] = "none"
        /\ call[r] \in {"start", "wait", "asleep", "release"} => variable[r] = "live"
        /\ call[r] = "finish" => variable[r] = "released"
        /\ call[r] = "release" \/ variable[r] = "released" => value[r] = 0
        /\ variable[r] \in {"none", "live", "released"}
    BY DEF IInv, Types, Variables
  <2>2. /\ s \in {"idle", "create", "inline"} => variable'[r] = "none"
        /\ s \in {"start", "wait", "asleep", "release"} => variable'[r] = "live"
        /\ s = "finish" => variable'[r] = "released"
        /\ s = "returned" => variable'[r] # "live"
        /\ s = "release" \/ variable'[r] = "released" => value[r] = 0
    <3>1. CASE call[r] = "release"
      BY <1>2, <2>1, <3>1 DEF IInv, Types
    <3>2. CASE call[r] # "release"
      BY <1>2, <2>1, <3>2
    <3>3. QED
      BY <3>1, <3>2
  <2>3. QED
    BY <1>1, <1>6, <2>2 DEF IInv, Variables
<1>8. \A q \in Callers : variable[q] # "none" <=> variable'[q] # "none"
  BY <1>6 DEF IInv, Variables
<1>9. \A q \in Callers : \/ call'[q] = call[q]
                         \/ call[q] = "idle" /\ call'[q] = "create"
                         \/ /\ call[q] \notin {"idle", "create", "start", "inline"}
                            /\ call'[q] \notin {"idle", "create", "start", "inline"}
  BY <1>2, <1>6
<1>10. QED
  BY <1>1, <1>4, <1>5, <1>7, <1>8, <1>9, QuietStep

\* threadpool_free.
LEMMA FreeStep ==
  ASSUME IInv, ClosePool \/ SendStop \/ JoinThreads
  PROVE  IInv'
<1>1. /\ UNCHANGED <<num_of_blocked, exited, job, call, variable, value, status,
                     owner, workers, task_mode, stack, spawn>>
      /\ queue' \in {queue, Append(queue, stop_task)}
      /\ is_closed' \in {is_closed, TRUE}
      /\ reader' \in {reader, [t \in Threads |-> IF reader[t] = "asleep" THEN "woken" ELSE reader[t]]}
      /\ pool' \in {pool, "stopping", "freed"}
      /\ stops' \in {stops, stops + 1}
      /\ lost' = lost \/ (lost < MaxLost /\ lost' = lost + 1)
  BY DEF ClosePool, SendStop, JoinThreads, CloseQueue, Enqueue, EnqueueFails, Broadcast,
         freeUnchanged, callVars, contextVars, queueVars
<1>2. queue \in Seq(Contexts \cup {stop_task})
  BY DEF IInv, Types
<1>3. /\ queue' \in Seq(Contexts \cup {stop_task})
      /\ Queued'
  <2>1. CASE queue' = queue
    BY <1>1, <1>2, <2>1 DEF IInv, Queued
  <2>2. CASE queue' = Append(queue, stop_task)
    <3>1. /\ queue' \in Seq(Contexts \cup {stop_task})
          /\ Len(queue) \in Nat
          /\ Len(queue') = Len(queue) + 1
          /\ \A i \in 1..Len(queue) : queue'[i] = queue[i]
          /\ queue'[Len(queue) + 1] = stop_task
      BY <1>2, <2>2, AppendProperties
    <3>2. \A i \in 1..Len(queue') : queue'[i] # stop_task => i \in 1..Len(queue)
      BY <3>1
    <3>3. QED
      BY <1>1, <3>1, <3>2 DEF IInv, Queued
  <2>3. QED
    BY <1>1, <2>1, <2>2
<1>4. Types'
  <2>1. reader' \in [Threads -> ReaderStates]
    BY <1>1 DEF IInv, Types, ReaderStates
  <2>2. is_closed' \in BOOLEAN
    BY <1>1 DEF IInv, Types
  <2>5. pool' \in {"open", "stopping", "freed"} /\ stops' \in Nat
    BY <1>1 DEF IInv, Types
  <2>3. lost' \in 0..MaxLost
    BY <1>1, FinitePool DEF IInv, Types
  <2>4. QED
    BY <1>1, <1>3, <2>1, <2>2, <2>3, <2>5 DEF IInv, Types
<1>5. Variables'
  BY <1>1 DEF IInv, Variables
<1>6. QED
  BY <1>1, <1>3, <1>4, <1>5, QuietStep

\* What an instruction can do on the thread it runs on.
LEMMA WorkStep ==
  ASSUME IInv, NEW a \in Actors, Work(a)
  PROVE  IInv'
<1>1. CASE Instruct(a)
  <2>1. PICK c \in Contexts :
          \/ CallDirect(a, c)
          \/ CallSingle(a, c)
          \/ \E fork \in ForkAttributes, is_parallel \in BOOLEAN :
               \/ RunInline(a, c, fork, is_parallel)
               \/ RunInNewTask(a, c, fork, is_parallel)
    BY <1>1 DEF Instruct
  <2>2. CASE CallDirect(a, c)
    <3>1. task_mode[Current(a)] \in TaskModes
      BY <2>2, CurrentOnStack DEF CallDirect, CallInline, Active, IInv, Types
    <3>2. QED
      BY <2>2, <3>1, CallInlineStep DEF CallDirect
  <2>3. CASE CallSingle(a, c)
    BY <2>3, CallInlineStep DEF CallSingle, TaskModes
  <2>4. ASSUME NEW fork \in ForkAttributes, NEW is_parallel \in BOOLEAN,
               RunInline(a, c, fork, is_parallel)
        PROVE  IInv'
    <3> DEFINE m == task_mode[Current(a)]
    <3>1. m \in TaskModes
      BY <2>4, CurrentOnStack DEF RunInline, Active, IInv, Types
    <3>2. ModeAfter(m, fork) \in TaskModes /\ (m = "SINGLE" => ModeAfter(m, fork) = "SINGLE")
      BY <3>1 DEF ModeAfter, TaskModes
    <3>3. CallInline(a, c, workers[Current(a)], ModeAfter(m, fork))
      BY <2>4 DEF RunInline
    <3>4. QED
      BY <3>2, <3>3, CallInlineStep
  <2>5. ASSUME NEW fork \in ForkAttributes, NEW is_parallel \in BOOLEAN,
               RunInNewTask(a, c, fork, is_parallel)
        PROVE  IInv'
    BY <2>5, RunInNewTaskStep
  <2>6. QED
    BY <2>1, <2>2, <2>3, <2>4, <2>5
<1>2. QED
  BY <1>1, IncreaseStep, StartTaskStep, ReturnStep DEF Work
-----------------------------------------------------------------------------
(* IInv is an invariant.                                                   *)

LEMMA InitIInv == Init => IInv
<1> SUFFICES ASSUME Init PROVE IInv
  OBVIOUS
<1>1. NULL \notin Callers /\ NULL \notin Contexts
  BY FinitePool DEF Actors
<1>2. \A a \in Actors, c \in Contexts : ~OnStack(a, c)
  BY DEF Init, OnStack
<1>3. Types
  <2>1. queue \in Seq(Contexts \cup {stop_task}) /\ stack \in [Actors -> Seq(Contexts)]
    BY DEF Init, QueueInit
  <2>2. is_closed \in BOOLEAN
    BY DEF Init, QueueInit
  <2>7. num_of_blocked \in Nat /\ stops \in Nat
    BY DEF Init
  <2>8. lost \in 0..MaxLost
    BY FinitePool DEF Init
  <2>6. value \in [Callers -> Int]
    BY DEF Init
  <2>3. /\ reader \in [Threads -> ReaderStates]
        /\ exited \in SUBSET Threads
        /\ pool \in {"open", "stopping", "freed"}
        /\ call \in [Callers -> CallStates]
        /\ variable \in [Callers -> {"none", "live", "released"}]
        /\ status \in [Contexts -> Statuses]
        /\ task_mode \in [Contexts -> TaskModes]
    BY DEF Init, QueueInit, ReaderStates, CallStates, Statuses, TaskModes
  <2>4. /\ job \in [Threads -> OrNull(Contexts)]
        /\ owner \in [Contexts -> OrNull(Callers)]
        /\ workers \in [Contexts -> OrNull(Callers)]
        /\ spawn \in [Actors -> OrNull(Contexts)]
    BY DEF Init, OrNull
  <2>5. QED
    BY <2>1, <2>2, <2>3, <2>4, <2>6, <2>7, <2>8 DEF Types
<1>4. Stacks
  BY <1>2 DEF Init, Stacks
<1>5. Queued
  BY DEF Init, QueueInit, Queued
<1>6. Jobs
  BY <1>2 DEF Init, Jobs, Actors
<1>7. Spawns
  BY DEF Init, Spawns
<1>8. Contextual
  BY DEF Init, Contextual
<1>9. OnWorkers
  BY <1>2 DEF Init, OnWorkers, Actors
<1>10. OnCallers
  BY <1>2, OneRootPerCall DEF Init, OnCallers, Actors
<1>11. Variables
  BY DEF Init, Variables
<1>12. Counting
  <2>1. \A r \in Callers : Holders(r) = {}
    BY <1>1 DEF Init, Holders
  <2>2. QED
    BY <2>1, FS_EmptySet DEF Init, Counting, CounterCountsTasks
<1>13. QED
  BY <1>3, <1>4, <1>5, <1>6, <1>7, <1>8, <1>9, <1>10, <1>11, <1>12 DEF IInv

LEMMA StutterIInv == IInv /\ UNCHANGED vars => IInv'
<1> SUFFICES ASSUME IInv, UNCHANGED vars PROVE IInv'
  OBVIOUS
<1>1. UNCHANGED <<queue, is_closed, reader, num_of_blocked, exited, pool, stops, job, lost, call,
                  variable, value, status, owner, workers, task_mode, stack, spawn>>
  BY DEF vars, queueVars, poolVars, callVars, contextVars
<1>2. Types'
  BY <1>1 DEF IInv, Types
<1>3. Queued'
  BY <1>1 DEF IInv, Queued
<1>4. Variables'
  BY <1>1 DEF IInv, Variables
<1>5. QED
  BY <1>1, <1>2, <1>3, <1>4, QuietStep

LEMMA NextIInv == IInv /\ [Next]_vars => IInv'
<1> SUFFICES ASSUME IInv, [Next]_vars PROVE IInv'
  OBVIOUS
<1>1. CASE \E a \in Actors : Work(a)
  BY <1>1, WorkStep
<1>2. CASE \E t \in Threads : Worker(t) \/ WorkerWakes(t)
  BY <1>2, TakesTaskStep, TaskEndsStep, WorkerStep DEF Worker
<1>3. CASE \E r \in Callers : Begin(r) \/ Caller(r) \/ CallerWakes(r)
  BY <1>3, RunRootInlineStep, CreateVariableStep, CallerStep DEF Begin, Caller
<1>4. CASE ClosePool \/ Free
  BY <1>4, FreeStep DEF Free
<1>5. CASE Terminated \/ UNCHANGED vars
  BY <1>5, StutterIInv DEF Terminated
<1>6. QED
  BY <1>1, <1>2, <1>3, <1>4, <1>5 DEF Next

(***************************************************************************)
(* The inductive invariant: stacks, tasks, calls and counters of a pool of *)
(* any size stay in step.                                                  *)
(***************************************************************************)
THEOREM Inductive == Spec => []IInv
BY InitIInv, NextIInv, PTL DEF Spec
-----------------------------------------------------------------------------
(* What follows from it.                                                   *)

\* A worker whose stack or spawn works for a call with a shared variable is
\* in a task that the call counts.
LEMMA ZeroMeansNoWork ==
  ASSUME IInv, NEW r \in Callers, variable[r] # "none", value[r] = 0, NEW t \in Threads,
         NEW c \in Contexts, owner[c] = r, OnStack(t, c) \/ spawn[t] = c
  PROVE  FALSE
<1>1. t \in Actors /\ c # NULL /\ r # NULL
  BY FinitePool DEF Actors
<1>2. job[t] # NULL /\ owner[job[t]] = r
  BY <1>1 DEF IInv, OnWorkers, Jobs
<1>3. job[t] \in Contexts
  BY <1>2 DEF IInv, Types, OrNull
<1>4. workers[job[t]] = r
  BY <1>1, <1>2, <1>3 DEF IInv, Contextual
<1>5. QED
  BY <1>2, <1>4, ZeroMeansNoJob DEF IInv

LEMMA ImpliesTypeOK == IInv => TypeOK
<1> SUFFICES ASSUME IInv PROVE TypeOK
  OBVIOUS
<1>1. value \in [Callers -> Nat]
  BY HoldersFinite, FS_CardinalityType DEF IInv, Types, Counting, CounterCountsTasks
<1>2. QED
  BY <1>1 DEF IInv, Types, TypeOK

LEMMA ImpliesJoinIsComplete == IInv => JoinIsComplete
<1> SUFFICES ASSUME IInv, NEW r \in Callers, Waited(r), NEW c \in Contexts, owner[c] = r,
                    status[c] # "done"
             PROVE  FALSE
  BY DEF JoinIsComplete
<1>1. variable[r] # "none" /\ value[r] = 0 /\ call[r] \notin {"start", "inline"}
  BY DEF IInv, Types, Variables, Waited
<1>2. c # NULL /\ r # NULL
  BY FinitePool DEF Actors
<1>3. status[c] \in {"new", "counted", "queued", "lost", "running"}
  BY <1>2 DEF IInv, Types, Statuses, Contextual
<1>4. CASE status[c] = "running"
  <2>1. PICK a \in Actors : OnStack(a, c)
    BY <1>4 DEF IInv, Stacks
  <2>2. CASE a \in Threads
    BY <1>1, <2>1, <2>2, ZeroMeansNoWork
  <2>3. CASE a \in Callers
    BY <1>1, <2>1, <2>3 DEF IInv, OnCallers
  <2>4. QED
    BY <2>2, <2>3 DEF Actors
<1>5. CASE status[c] = "new"
  <2>1. PICK a \in Actors : spawn[a] = c
    BY <1>5 DEF IInv, Spawns
  <2>2. CASE a \in Threads
    BY <1>1, <2>1, <2>2, ZeroMeansNoWork
  <2>3. CASE a \in Callers
    BY <1>1, <1>2, <2>1, <2>3 DEF IInv, OnCallers
  <2>4. QED
    BY <2>2, <2>3 DEF Actors
<1>6. CASE status[c] \in {"counted", "queued", "lost"}
  <2>1. workers[c] = r
    BY <1>1, <1>2, <1>6 DEF IInv, Contextual
  <2>2. QED
    BY <1>1, <1>6, <2>1, ZeroMeansNoHolder DEF IInv, Holds
<1>7. QED
  BY <1>3, <1>4, <1>5, <1>6

LEMMA ImpliesNoUseAfterRelease == IInv => NoUseAfterRelease
<1> SUFFICES ASSUME IInv, NEW c \in Contexts, workers[c] # NULL, status[c] = "new" \/ Holds(c)
             PROVE  variable[workers[c]] = "live"
  BY DEF NoUseAfterRelease
<1> DEFINE r == workers[c]
<1>1. r \in Callers /\ owner[c] = r /\ variable[r] \in {"live", "released"} /\ c # NULL
  BY FinitePool DEF IInv, Types, OrNull, Contextual, Actors
<1>2. SUFFICES ASSUME variable[r] = "released" PROVE FALSE
  BY <1>1
<1>3. variable[r] # "none" /\ value[r] = 0 /\ call[r] \notin {"start", "inline"}
  BY <1>1, <1>2 DEF IInv, Variables
<1>4. CASE Holds(c)
  BY <1>1, <1>3, <1>4, ZeroMeansNoHolder DEF IInv
<1>5. CASE status[c] = "new"
  <2>1. PICK a \in Actors : spawn[a] = c
    BY <1>5 DEF IInv, Spawns
  <2>2. CASE a \in Threads
    BY <1>1, <1>3, <2>1, <2>2, ZeroMeansNoWork
  <2>3. CASE a \in Callers
    BY <1>1, <1>3, <2>1, <2>3 DEF IInv, OnCallers
  <2>4. QED
    BY <2>2, <2>3 DEF Actors
<1>6. QED
  BY <1>4, <1>5

(***************************************************************************)
(* Type correctness; in particular the unsigned counter of a shared        *)
(* variable is never decreased below zero.                                 *)
(***************************************************************************)
THEOREM TypeCorrect == Spec => []TypeOK
BY Inductive, ImpliesTypeOK, PTL

(***************************************************************************)
(* The counter of a call is the number of its unfinished tasks: increase   *)
(* comes before threadpool_start, decrease last in template_task_function. *)
(***************************************************************************)
THEOREM CounterIsExact == Spec => []CounterCountsTasks
<1>1. IInv => CounterCountsTasks
  BY DEF IInv, Counting
<1>2. QED
  BY <1>1, Inductive, PTL

(***************************************************************************)
(* When shared_variable_wait has returned, every context made for the call *)
(* has returned.                                                           *)
(***************************************************************************)
THEOREM JoinWaitsForAll == Spec => []JoinIsComplete
BY Inductive, ImpliesJoinIsComplete, PTL

(***************************************************************************)
(* No task touches a shared variable after shared_variable_release.        *)
(***************************************************************************)
THEOREM VariableOutlivesTasks == Spec => []NoUseAfterRelease
BY Inductive, ImpliesNoUseAfterRelease, PTL

(***************************************************************************)
(* No task is taken by two workers or stands in the queue twice.           *)
(***************************************************************************)
THEOREM TasksRunOnce == Spec => []EachTaskRunsOnce
<1>1. IInv => EachTaskRunsOnce
  BY DEF IInv, Jobs, Queued, EachTaskRunsOnce
<1>2. QED
  BY <1>1, Inductive, PTL

(***************************************************************************)
(* A context without a variable never gets into a task while its call      *)
(* waits on a counter: SINGLE is passed on with the missing variable.      *)
(***************************************************************************)
THEOREM SingleStaysOnThread == Spec => []UncountedStaysOnThread
<1>1. IInv => UncountedStaysOnThread
  BY DEF IInv, Contextual, UncountedStaysOnThread
<1>2. QED
  BY <1>1, Inductive, PTL
-----------------------------------------------------------------------------
(* The places of the pool.                                                 *)

WaitStates == {"create", "start", "wait", "asleep", "release", "finish"}

Waiting == {r \in Callers : call[r] \in WaitStates}

\* A step that neither grants nor gives back a place.
LEMMA SameWaiting ==
  ASSUME BlockedIsExact, num_of_blocked' = num_of_blocked,
         \A r \in Callers : call'[r] \in WaitStates <=> call[r] \in WaitStates
  PROVE  BlockedIsExact'
<1>1. Waiting' = Waiting
  BY DEF Waiting
<1>2. QED
  BY <1>1 DEF BlockedIsExact, Waiting, WaitStates

LEMMA NextBlocked == IInv /\ BlockedIsExact /\ [Next]_vars => BlockedIsExact'
<1> SUFFICES ASSUME IInv, BlockedIsExact, [Next]_vars PROVE BlockedIsExact'
  OBVIOUS
<1>1. /\ IsFiniteSet(Waiting)
      /\ num_of_blocked = Cardinality(Waiting)
      /\ num_of_blocked <= Cardinality(Threads)
      /\ num_of_blocked \in Nat /\ Cardinality(Threads) \in Nat
  <2>1. Waiting \in SUBSET Callers
    BY DEF Waiting
  <2>2. QED
    BY <2>1, FinitePool, FS_Subset, FS_CardinalityType
       DEF IInv, Types, BlockedIsExact, Waiting, WaitStates
<1>2. call \in [Callers -> CallStates]
  BY DEF IInv, Types
<1>3. ASSUME NEW r \in Callers, TryWait(r) PROVE BlockedIsExact'
  <2>1. Waiting' = Waiting \cup {r} /\ r \notin Waiting
    BY <1>2, <1>3 DEF TryWait, Waiting, WaitStates
  <2>2. Cardinality(Waiting \cup {r}) = Cardinality(Waiting) + 1
    BY <1>1, <2>1, FS_AddElement
  <2>3. num_of_blocked' = num_of_blocked + 1 /\ num_of_blocked < Cardinality(Threads)
    BY <1>3 DEF TryWait
  <2>4. num_of_blocked' = Cardinality(Waiting') /\ num_of_blocked' <= Cardinality(Threads)
    BY <1>1, <2>1, <2>2, <2>3
  <2>5. QED
    BY <2>4 DEF BlockedIsExact, Waiting, WaitStates
<1>4. ASSUME NEW r \in Callers, FinishWait(r) PROVE BlockedIsExact'
  <2>1. Waiting' = Waiting \ {r} /\ r \in Waiting
    BY <1>2, <1>4 DEF FinishWait, Waiting, WaitStates
  <2>2. Cardinality(Waiting \ {r}) = Cardinality(Waiting) - 1 /\ Cardinality(Waiting) # 0
    BY <1>1, <2>1, FS_RemoveElement, FS_EmptySet
  <2>3. num_of_blocked' = IF num_of_blocked > 0 THEN num_of_blocked - 1 ELSE 0
    BY <1>4 DEF FinishWait
  <2>4. num_of_blocked' = Cardinality(Waiting') /\ num_of_blocked' <= Cardinality(Threads)
    BY <1>1, <2>1, <2>2, <2>3
  <2>5. QED
    BY <2>4 DEF BlockedIsExact, Waiting, WaitStates
<1>5. ASSUME NEW a \in Actors, Work(a) PROVE BlockedIsExact'
  <2>1. CASE StartTask(a)
    BY <1>2, <2>1, SameWaiting DEF StartTask, poolVars, WaitStates
  <2>2. CASE Return(a)
    <3>1. stack[a] # <<>> /\ num_of_blocked' = num_of_blocked
      BY <2>2 DEF Return, Active, poolVars
    <3>2. Current(a) \in Contexts /\ OnStack(a, Current(a))
      BY <3>1, CurrentOnStack DEF IInv, Types
    <3>3. a \in Callers => call[a] = "inline"
      BY <3>2 DEF IInv, OnCallers
    <3>4. \A r \in Callers : call'[r] = call[r] \/ (r = a /\ call'[r] = "returned")
      BY <2>2 DEF Return
    <3>5. QED
      BY <3>1, <3>3, <3>4, SameWaiting DEF WaitStates
  <2>3. CASE Instruct(a) \/ Increase(a)
    <3>1. UNCHANGED <<num_of_blocked, call>>
      BY <2>3 DEF Instruct, CallDirect, CallSingle, RunInline, RunInNewTask, CallInline,
                  Increase, poolVars, callVars
    <3>2. QED
      BY <3>1, SameWaiting
  <2>4. QED
    BY <1>5, <2>1, <2>2, <2>3 DEF Work
<1>6. ASSUME NEW t \in Threads, Worker(t) \/ WorkerWakes(t) PROVE BlockedIsExact'
  <2>1. CASE TaskEnds(t)
    <3>1. num_of_blocked' = num_of_blocked
      BY <2>1 DEF TaskEnds, workerUnchanged
    <3>2. \A r \in Callers : \/ call'[r] = call[r]
                             \/ call[r] = "asleep" /\ call'[r] = "wait"
      BY <1>2, <2>1 DEF TaskEnds
    <3>3. QED
      BY <3>1, <3>2, SameWaiting DEF WaitStates
  <2>2. CASE ~TaskEnds(t)
    <3>1. UNCHANGED <<num_of_blocked, call>>
      BY <1>6, <2>2 DEF Worker, WorkerTakesTask, WorkerTakesStop, WorkerFindsClosed,
                        WorkerSleeps, WorkerWakes, workerUnchanged
    <3>2. QED
      BY <3>1, SameWaiting
  <2>3. QED
    BY <2>1, <2>2
<1>7. ASSUME NEW r \in Callers,
             \/ RunRootInline(r) \/ CreateVariable(r) \/ Wait(r) \/ Release(r) \/ CallerWakes(r)
      PROVE  BlockedIsExact'
  <2>1. num_of_blocked' = num_of_blocked
    BY <1>7 DEF RunRootInline, CreateVariable, Wait, Release, CallerWakes
  <2>2. PICK s \in CallStates : /\ call' = [call EXCEPT ![r] = s]
                                /\ call[r] \in WaitStates <=> s \in WaitStates
    BY <1>7 DEF RunRootInline, CreateVariable, Wait, Release, CallerWakes, CallStates, WaitStates
  <2>3. QED
    BY <1>2, <2>1, <2>2, SameWaiting
<1>8. CASE ClosePool \/ Free
  <2>1. UNCHANGED <<num_of_blocked, call>>
    BY <1>8 DEF ClosePool, Free, SendStop, JoinThreads, freeUnchanged, callVars
  <2>2. QED
    BY <2>1, SameWaiting
<1>9. CASE UNCHANGED vars
  BY <1>9, SameWaiting DEF vars, poolVars, callVars
<1>10. QED
  BY <1>3, <1>4, <1>5, <1>6, <1>7, <1>8, <1>9 DEF Next, Begin, Caller, Terminated

(***************************************************************************)
(* thread_pool_try_wait and thread_pool_finish_wait keep exact account of  *)
(* the calls that wait, and never grant more places than there are threads.*)
(***************************************************************************)
THEOREM BlockedCountsWaits == Spec => []BlockedIsExact
<1>1. Init => BlockedIsExact
  <2> SUFFICES ASSUME Init PROVE BlockedIsExact
    OBVIOUS
  <2>1. Waiting = {}
    BY DEF Init, Waiting, WaitStates
  <2>2. num_of_blocked = 0
    BY DEF Init
  <2>3. Cardinality(Waiting) = 0 /\ Cardinality(Threads) \in Nat
    BY <2>1, FinitePool, FS_EmptySet, FS_CardinalityType
  <2>4. QED
    BY <2>2, <2>3 DEF BlockedIsExact, Waiting, WaitStates
<1>2. QED
  BY <1>1, NextBlocked, Inductive, PTL DEF Spec
-----------------------------------------------------------------------------
(* The sleepers: workers in unbounded_queue_dequeue, calls in              *)
(* shared_variable_wait.                                                   *)

(* A broadcast leaves no worker asleep.                                    *)
LEMMA BroadcastWakesAll ==
  ASSUME reader \in [Threads -> ReaderStates], Broadcast
  PROVE  \A t \in Threads : reader'[t] # "asleep"
BY DEF Broadcast

LEMMA NextSleepers == IInv /\ NoSleepOnWork /\ [Next]_vars => NoSleepOnWork'
<1> SUFFICES ASSUME IInv, NoSleepOnWork, [Next]_vars PROVE NoSleepOnWork'
  OBVIOUS
<1>1. reader \in [Threads -> ReaderStates]
  BY DEF IInv, Types
<1>2. CASE UNCHANGED <<queue, reader>>
  BY <1>2 DEF NoSleepOnWork
<1>3. CASE Broadcast
  BY <1>1, <1>3, BroadcastWakesAll DEF NoSleepOnWork
<1>4. ASSUME NEW t \in Threads, DequeueTake(t) PROVE NoSleepOnWork'
  <2>1. \A u \in Threads : reader[u] # "asleep"
    BY <1>4 DEF DequeueTake, NoSleepOnWork
  <2>2. reader' = [reader EXCEPT ![t] = "out"]
    BY <1>4 DEF DequeueTake
  <2>3. QED
    BY <1>1, <2>1, <2>2 DEF NoSleepOnWork
<1>5. ASSUME NEW t \in Threads, DequeueSleep(t) PROVE NoSleepOnWork'
  BY <1>5 DEF DequeueSleep, NoSleepOnWork
<1>6. ASSUME NEW t \in Threads, SpuriousWake(t) PROVE NoSleepOnWork'
  BY <1>1, <1>6 DEF SpuriousWake, NoSleepOnWork
<1>7. ASSUME NEW a \in Actors, Work(a) PROVE NoSleepOnWork'
  BY <1>2, <1>3, <1>7 DEF Work, Instruct, CallDirect, CallSingle, RunInline, RunInNewTask,
     CallInline, Increase, StartTask, Enqueue, EnqueueFails, Return, queueVars
<1>8. ASSUME NEW t \in Threads, Worker(t) \/ WorkerWakes(t) PROVE NoSleepOnWork'
  BY <1>2, <1>4, <1>5, <1>6, <1>8 DEF Worker, WorkerTakesTask, WorkerTakesStop, WorkerFindsClosed,
     WorkerSleeps, WorkerWakes, TaskEnds, DequeueClosed, queueVars
<1>9. ASSUME NEW r \in Callers, Begin(r) \/ Caller(r) \/ CallerWakes(r) PROVE NoSleepOnWork'
  BY <1>2, <1>9 DEF Begin, TryWait, RunRootInline, Caller, CreateVariable, Wait, Release, FinishWait,
     CallerWakes, callerUnchanged, queueVars
<1>10. CASE ClosePool \/ Free
  BY <1>2, <1>3, <1>10 DEF ClosePool, CloseQueue, Free, SendStop, JoinThreads, Enqueue,
     EnqueueFails, queueVars
<1>11. CASE UNCHANGED vars
  BY <1>2, <1>11 DEF vars, queueVars
<1>12. QED
  BY <1>7, <1>8, <1>9, <1>10, <1>11 DEF Next, Terminated

(***************************************************************************)
(* No worker sleeps while a task is in the queue, whoever enqueues it and  *)
(* although close wakes nobody and a malloc may fail.                      *)
(***************************************************************************)
THEOREM WorkersWakeForWork == Spec => []NoSleepOnWork
<1>1. Init => NoSleepOnWork
  BY DEF Init, QueueInit, NoSleepOnWork
<1>2. QED
  BY <1>1, NextSleepers, Inductive, PTL DEF Spec

\* A step that neither changes a counter nor sends a call to sleep.
LEMMA SameSleepingCalls ==
  ASSUME NoSleepOnZero, value' = value,
         \A r \in Callers : call'[r] = "asleep" => call[r] = "asleep"
  PROVE  NoSleepOnZero'
BY DEF NoSleepOnZero

LEMMA NextSleepingCalls == IInv /\ NoSleepOnZero /\ [Next]_vars => NoSleepOnZero'
<1> SUFFICES ASSUME IInv, NoSleepOnZero, [Next]_vars PROVE NoSleepOnZero'
  OBVIOUS
<1>1. call \in [Callers -> CallStates] /\ value \in [Callers -> Nat]
  BY ImpliesTypeOK DEF TypeOK
<1>2. ASSUME NEW a \in Actors, Increase(a) PROVE NoSleepOnZero'
  <2>1. value' = [value EXCEPT ![workers[spawn[a]]] = @ + 1] /\ call' = call
    BY <1>2 DEF Increase, callVars
  <2>2. \A r \in Callers : value'[r] \in {value[r], value[r] + 1}
    BY <1>1, <2>1
  <2>3. QED
    BY <1>1, <2>1, <2>2 DEF NoSleepOnZero
<1>3. ASSUME NEW t \in Threads, TaskEnds(t) PROVE NoSleepOnZero'
  <2> DEFINE w == workers[job[t]]
  <2>1. CASE w = NULL
    BY <1>3, <2>1 DEF TaskEnds, NoSleepOnZero
  <2>2. CASE w # NULL
    <3>1. /\ value' = [value EXCEPT ![w] = @ - 1]
          /\ call' = [call EXCEPT ![w] = IF value'[w] = 0 /\ @ = "asleep" THEN "wait" ELSE @]
      BY <1>3, <2>2 DEF TaskEnds
    <3>2. \A r \in Callers : r # w => value'[r] = value[r] /\ call'[r] = call[r]
      BY <1>1, <3>1
    <3>3. w \in Callers => (call'[w] = "asleep" => value'[w] # 0)
      BY <1>1, <3>1
    <3>4. QED
      BY <3>2, <3>3 DEF NoSleepOnZero
  <2>3. QED
    BY <2>1, <2>2
<1>4. ASSUME NEW r \in Callers, CreateVariable(r) PROVE NoSleepOnZero'
  BY <1>1, <1>4 DEF CreateVariable, NoSleepOnZero
<1>5. ASSUME NEW r \in Callers, Wait(r) PROVE NoSleepOnZero'
  BY <1>1, <1>5 DEF Wait, NoSleepOnZero
<1>6. ASSUME NEW a \in Actors, StartTask(a) \/ Return(a) PROVE NoSleepOnZero'
  BY <1>6, SameSleepingCalls DEF StartTask, Return
<1>7. ASSUME NEW a \in Actors, Instruct(a) PROVE NoSleepOnZero'
  BY <1>7, SameSleepingCalls DEF Instruct, CallDirect, CallSingle, RunInline, RunInNewTask,
     CallInline, callVars
<1>8. ASSUME NEW t \in Threads, Worker(t) \/ WorkerWakes(t), ~TaskEnds(t) PROVE NoSleepOnZero'
  BY <1>8, SameSleepingCalls DEF Worker, WorkerTakesTask, WorkerTakesStop, WorkerFindsClosed,
     WorkerSleeps, WorkerWakes
<1>9. ASSUME NEW r \in Callers, Begin(r) \/ Release(r) \/ FinishWait(r) \/ CallerWakes(r)
      PROVE  NoSleepOnZero'
  <2>1. value' = value
    BY <1>9 DEF Begin, TryWait, RunRootInline, Release, FinishWait, CallerWakes
  <2>2. PICK s \in CallStates : s # "asleep" /\ call' = [call EXCEPT ![r] = s]
    BY <1>9 DEF Begin, TryWait, RunRootInline, Release, FinishWait, CallerWakes, CallStates
  <2>3. QED
    BY <1>1, <2>1, <2>2, SameSleepingCalls
<1>10. CASE ClosePool \/ Free \/ UNCHANGED vars
  <2>1. UNCHANGED <<value, call>>
    BY <1>10 DEF ClosePool, Free, SendStop, JoinThreads, freeUnchanged, callVars, vars
  <2>2. QED
    BY <2>1, SameSleepingCalls
<1>11. QED
  BY <1>2, <1>3, <1>4, <1>5, <1>6, <1>7, <1>8, <1>9, <1>10 DEF Next, Work, Begin, Caller, Terminated

(***************************************************************************)
(* No call sleeps on a counter that is down: the task that takes it to     *)
(* zero broadcasts, and the counter never goes up again behind a sleeper   *)
(* that was not woken.                                                     *)
(***************************************************************************)
THEOREM CallsWakeAtZero == Spec => []NoSleepOnZero
<1>1. Init => NoSleepOnZero
  BY DEF Init, NoSleepOnZero
<1>2. QED
  BY <1>1, NextSleepingCalls, Inductive, PTL DEF Spec
-----------------------------------------------------------------------------
(* As many threads as calls.  Every call is then granted its wait, none    *)
(* runs on its caller's stack, and this is when the pool keeps the two     *)
(* promises that a call which went inline would break: it drops nothing    *)
(* and it implements TransformRun.                                         *)

EnoughThreads == Cardinality(Callers) <= Cardinality(Threads)

\* A call returns over its released variable, has started with its root, and
\* is over when the pool is being freed.
Granted ==
  /\ BlockedIsExact
  /\ \A r \in Callers :
       /\ call[r] # "inline"
       /\ call[r] = "returned" => variable[r] = "released"
       /\ call[r] \notin {"idle", "create"} => status[RootOf[r]] # "free"
  /\ pool # "open" => \A r \in Callers : call[r] \in {"idle", "returned"}

\* A call that is on its way goes on, or nothing happens to it.
OnItsWay == {"start", "wait", "asleep", "release", "finish"}

LEMMA SameGranted ==
  ASSUME Granted, BlockedIsExact', pool' = pool,
         \A r \in Callers : call[r] = "returned" => variable'[r] = variable[r],
         \A r \in Callers : call'[r] = call[r] \/ {call[r], call'[r]} \subseteq OnItsWay,
         \A c \in Contexts : status'[c] = "free" => status[c] = "free"
  PROVE  Granted'
<1>1. \A r \in Callers : RootOf[r] \in Contexts
  BY OneRootPerCall
<1>2. QED
  BY <1>1 DEF Granted, OnItsWay

\* A context of a caller's stack would belong to a call that went inline.
LEMMA CallersHaveNoStack ==
  ASSUME IInv, Granted, NEW a \in Actors, Active(a)
  PROVE  a \in Threads /\ a \notin Callers /\ Current(a) \in Contexts
         /\ status[Current(a)] = "running" /\ owner[Current(a)] \in Callers
<1>1. Current(a) \in Contexts /\ OnStack(a, Current(a))
  BY CurrentOnStack DEF Active, IInv, Types
<1>2. a \notin Callers
  BY <1>1 DEF IInv, OnCallers, Granted
<1>3. status[Current(a)] = "running"
  BY <1>1 DEF IInv, Stacks
<1>4. owner[Current(a)] \in Callers
  BY <1>1, <1>3 DEF IInv, Types, Contextual, OrNull
<1>5. QED
  BY <1>1, <1>2, <1>3, <1>4 DEF Actors

\* thread_pool_try_wait refuses nobody.
LEMMA NobodyRefused ==
  ASSUME EnoughThreads, IInv, BlockedIsExact, NEW r \in Callers, RunRootInline(r)
  PROVE  FALSE
<1>1. Waiting \in SUBSET (Callers \ {r})
  BY DEF Waiting, WaitStates, RunRootInline
<1>2. IsFiniteSet(Callers \ {r}) /\ Cardinality(Callers \ {r}) = Cardinality(Callers) - 1
  BY FinitePool, FS_RemoveElement
<1>3. Cardinality(Waiting) <= Cardinality(Callers \ {r})
  BY <1>1, <1>2, FS_Subset
<1>4. num_of_blocked = Cardinality(Waiting) /\ num_of_blocked >= Cardinality(Threads)
  BY DEF BlockedIsExact, Waiting, WaitStates, RunRootInline
<1>5. Cardinality(Callers) \in Nat /\ Cardinality(Threads) \in Nat /\ num_of_blocked \in Nat
  BY FinitePool, FS_CardinalityType DEF IInv, Types
<1>6. QED
  BY <1>2, <1>3, <1>4, <1>5 DEF EnoughThreads

LEMMA NextGranted ==
  ASSUME EnoughThreads, IInv, Granted, [Next]_vars
  PROVE  Granted'
<1>1. BlockedIsExact /\ BlockedIsExact'
  BY NextBlocked DEF Granted
<1>2. call \in [Callers -> CallStates] /\ status \in [Contexts -> Statuses]
  BY DEF IInv, Types
<1>3. ASSUME NEW a \in Actors, Instruct(a) \/ Increase(a) PROVE Granted'
  <2>1. UNCHANGED <<pool, call, variable>>
    BY <1>3 DEF Instruct, CallDirect, CallSingle, RunInline, RunInNewTask, CallInline,
                Increase, poolVars, callVars
  <2>2. \E c, s : s # "free" /\ status' = [status EXCEPT ![c] = s]
    <3>1. CASE Increase(a)
      BY <3>1 DEF Increase
    <3>2. CASE Instruct(a)
      BY <3>2 DEF Instruct, CallDirect, CallSingle, RunInline, RunInNewTask, CallInline
    <3>3. QED
      BY <1>3, <3>1, <3>2
  <2>3. \A c \in Contexts : status'[c] = "free" => status[c] = "free"
    BY <1>2, <2>2
  <2>4. QED
    BY <1>1, <2>1, <2>3, SameGranted
<1>4. ASSUME NEW a \in Actors, StartTask(a) PROVE Granted'
  <2>1. /\ UNCHANGED <<pool, variable>>
        /\ \A r \in Callers : call'[r] = call[r] \/ (call[r] = "start" /\ call'[r] = "wait")
    BY <1>4 DEF StartTask, poolVars
  <2>2. \A c \in Contexts : status'[c] = "free" => status[c] = "free"
    BY <1>2, <1>4 DEF StartTask
  <2>3. QED
    BY <1>1, <2>1, <2>2, SameGranted DEF OnItsWay
<1>5. ASSUME NEW a \in Actors, Return(a) PROVE Granted'
  <2>1. a \notin Callers
    BY <1>5, CallersHaveNoStack DEF Return
  <2>2. UNCHANGED <<pool, variable>> /\ \A r \in Callers : call'[r] = call[r]
    BY <1>5, <2>1 DEF Return, poolVars
  <2>3. \A c \in Contexts : status'[c] = "free" => status[c] = "free"
    BY <1>2, <1>5 DEF Return
  <2>4. QED
    BY <1>1, <2>2, <2>3, SameGranted
<1>6. ASSUME NEW t \in Threads, Worker(t) \/ WorkerWakes(t) PROVE Granted'
  <2>1. UNCHANGED <<pool, variable>>
    BY <1>6 DEF Worker, WorkerTakesTask, WorkerTakesStop, WorkerFindsClosed, WorkerSleeps,
                WorkerWakes, TaskEnds, workerUnchanged
  <2>2. \A r \in Callers : call'[r] = call[r] \/ (call[r] = "asleep" /\ call'[r] = "wait")
    <3>1. CASE TaskEnds(t)
      BY <1>2, <3>1 DEF TaskEnds
    <3>2. CASE ~TaskEnds(t)
      BY <1>6, <3>2 DEF Worker, WorkerTakesTask, WorkerTakesStop, WorkerFindsClosed, WorkerSleeps,
                        WorkerWakes
    <3>3. QED
      BY <3>1, <3>2
  <2>3. \A c \in Contexts : status'[c] = "free" => status[c] = "free"
    <3>1. CASE WorkerTakesTask(t)
      BY <1>2, <3>1 DEF WorkerTakesTask
    <3>2. CASE ~WorkerTakesTask(t)
      BY <1>6, <3>2 DEF Worker, WorkerTakesStop, WorkerFindsClosed, WorkerSleeps, WorkerWakes, TaskEnds
    <3>3. QED
      BY <3>1, <3>2
  <2>4. QED
    BY <1>1, <2>1, <2>2, <2>3, SameGranted DEF OnItsWay
<1>7. ASSUME NEW r \in Callers, Wait(r) \/ Release(r) \/ CallerWakes(r) PROVE Granted'
  <2>1. UNCHANGED <<pool, status>> /\ call[r] \in OnItsWay /\ call[r] # "returned"
    BY <1>7 DEF Wait, Release, CallerWakes, callerUnchanged, OnItsWay
  <2>2. \A s \in Callers : s # r => call'[s] = call[s] /\ variable'[s] = variable[s]
    BY <1>2, <1>7 DEF Wait, Release, CallerWakes, IInv, Types
  <2>3. call'[r] \in OnItsWay
    BY <1>2, <1>7 DEF Wait, Release, CallerWakes, OnItsWay
  <2>4. QED
    BY <1>1, <2>1, <2>2, <2>3, SameGranted
<1>8. ASSUME NEW r \in Callers, TryWait(r) PROVE Granted'
  <2>1. UNCHANGED <<pool, status, variable>> /\ pool = "open" /\ call' = [call EXCEPT ![r] = "create"]
    BY <1>8 DEF TryWait, callerUnchanged
  <2>2. QED
    BY <1>1, <1>2, <2>1 DEF Granted
<1>9. ASSUME NEW r \in Callers, CreateVariable(r) PROVE Granted'
  <2>1. /\ pool' = pool /\ call[r] = "create" /\ call' = [call EXCEPT ![r] = "start"]
        /\ \A s \in Callers : s # r => variable'[s] = variable[s]
        /\ status' = [status EXCEPT ![RootOf[r]] = "counted"]
    BY <1>9 DEF CreateVariable, callerUnchanged
  <2>2. pool = "open" /\ pool' = "open"
    BY <2>1 DEF Granted, IInv, Types
  <2>3. \A c \in Contexts : status'[c] = "free" => status[c] = "free" /\ c # RootOf[r]
    BY <1>2, <2>1
  <2>4. \A s \in Callers : RootOf[s] \in Contexts
    BY OneRootPerCall
  <2>5. call'[r] = "start" /\ \A s \in Callers : s # r => call'[s] = call[s]
    BY <1>2, <2>1
  <2>6. QED
    BY <1>1, <2>1, <2>2, <2>3, <2>4, <2>5 DEF Granted
<1>10. ASSUME NEW r \in Callers, FinishWait(r) PROVE Granted'
  <2>1. /\ UNCHANGED <<pool, variable, status>>
        /\ call[r] = "finish" /\ call' = [call EXCEPT ![r] = "returned"]
    BY <1>10 DEF FinishWait, callerUnchanged
  <2>2. variable[r] = "released"
    BY <2>1 DEF IInv, Variables
  <2>3. call'[r] = "returned" /\ \A s \in Callers : s # r => call'[s] = call[s]
    BY <1>2, <2>1
  <2>4. QED
    BY <1>1, <2>1, <2>2, <2>3 DEF Granted
<1>11. ASSUME ClosePool \/ Free PROVE Granted'
  <2>1. UNCHANGED <<call, variable, status>>
    BY <1>11 DEF ClosePool, Free, SendStop, JoinThreads, freeUnchanged, callVars
  <2>2. \A r \in Callers : call[r] \in {"idle", "returned"}
    BY <1>11 DEF ClosePool, Free, SendStop, JoinThreads, Granted
  <2>3. QED
    BY <1>1, <2>1, <2>2 DEF Granted
<1>12. CASE UNCHANGED vars
  BY <1>1, <1>12 DEF vars, poolVars, callVars, Granted
<1>13. QED
  BY <1>1, <1>3, <1>4, <1>5, <1>6, <1>7, <1>8, <1>9, <1>10, <1>11, <1>12, NobodyRefused
     DEF Next, Work, Begin, Caller, Terminated

LEMMA AlwaysGranted == ASSUME EnoughThreads PROVE Spec => []Granted
<1>1. Init => Granted
  <2> SUFFICES ASSUME Init PROVE Granted
    OBVIOUS
  <2>1. Waiting = {}
    BY DEF Init, Waiting, WaitStates
  <2>2. num_of_blocked = 0 /\ Cardinality(Waiting) = 0 /\ Cardinality(Threads) \in Nat
    BY <2>1, FinitePool, FS_EmptySet, FS_CardinalityType DEF Init
  <2>3. BlockedIsExact
    BY <2>2 DEF BlockedIsExact, Waiting, WaitStates
  <2>4. QED
    BY <2>3 DEF Init, Granted
<1>2. IInv /\ Granted /\ [Next]_vars => Granted'
  BY NextGranted
<1>3. QED
  BY <1>1, <1>2, Inductive, PTL DEF Spec

(***************************************************************************)
(* When threadpool_free has released the queue, every task that was ever   *)
(* started has run to its end: each belongs to a call, and the calls that  *)
(* began have waited for all of theirs.                                    *)
(***************************************************************************)
THEOREM NothingIsDropped == ASSUME EnoughThreads PROVE Spec => []NothingDropped
<1>1. IInv /\ Granted => NothingDropped
  <2> SUFFICES ASSUME IInv, Granted, pool = "freed",
                      NEW c \in Contexts, status[c] # "free"
               PROVE  status[c] = "done"
    BY DEF NothingDropped
  <2>1. owner[c] \in Callers /\ call[owner[c]] \notin {"idle", "create"}
    BY DEF IInv, Types, Contextual, OrNull
  <2>2. call[owner[c]] = "returned" /\ variable[owner[c]] = "released"
    BY <2>1 DEF Granted
  <2>3. Waited(owner[c])
    BY <2>2 DEF Waited
  <2>4. QED
    BY <2>1, <2>3, ImpliesJoinIsComplete DEF JoinIsComplete
<1>2. QED
  BY <1>1, Inductive, AlwaysGranted, PTL
-----------------------------------------------------------------------------
(* The pool implements TransformRun.                                       *)

\* What Run substitutes for the variables of TransformRun.
RunPhase ==
  [r \in Callers |-> IF call[r] = "returned" THEN "returned"
                     ELSE IF status[RootOf[r]] = "free" THEN "idle" ELSE "active"]
RunPending == [r \in Callers |-> {c \in Contexts : owner[c] = r /\ status[c] # "done"}]
RunFinished == {c \in Contexts : status[c] = "done"}

LEMMA PointChange ==
  ASSUME NEW S, NEW f, NEW g, NEW x \in S, NEW v,
         f = [s \in S |-> f[s]], g = [s \in S |-> g[s]],
         g[x] = v, \A s \in S : s # x => g[s] = f[s]
  PROVE  g = [f EXCEPT ![x] = v]
OBVIOUS

LEMMA RunFunctions ==
  /\ \A r \in Callers :
       /\ RunPhase[r] = IF call[r] = "returned" THEN "returned"
                        ELSE IF status[RootOf[r]] = "free" THEN "idle" ELSE "active"
       /\ RunPending[r] = {c \in Contexts : owner[c] = r /\ status[c] # "done"}
  /\ RunPhase = [r \in Callers |-> RunPhase[r]]
  /\ RunPending = [r \in Callers |-> RunPending[r]]
BY DEF RunPhase, RunPending

\* A step of threads and queue that the run does not show.
LEMMA Hidden ==
  ASSUME owner' = owner,
         \A r \in Callers : call'[r] = "returned" <=> call[r] = "returned",
         \A c \in Contexts : /\ status'[c] = "free" <=> status[c] = "free"
                             /\ status'[c] = "done" <=> status[c] = "done"
  PROVE  UNCHANGED <<RunPhase, RunPending, RunFinished>>
<1>1. \A r \in Callers : RootOf[r] \in Contexts
  BY OneRootPerCall
<1>2. RunFinished' = RunFinished
  BY DEF RunFinished
<1>3. \A r \in Callers : RunPhase'[r] = RunPhase[r]
  BY <1>1, RunFunctions DEF RunPhase
<1>4. \A r \in Callers : RunPending'[r] = RunPending[r]
  BY RunFunctions DEF RunPending
<1>5. RunPhase' = RunPhase /\ RunPending' = RunPending
  BY <1>3, <1>4 DEF RunPhase, RunPending
<1>6. QED
  BY <1>2, <1>5

LEMMA FreeIsFresh ==
  ASSUME IInv, NEW c \in Contexts, status[c] = "free"
  PROVE  c \notin RunFinished /\ \A r \in Callers : c \notin RunPending[r]
<1>1. owner[c] = NULL /\ \A r \in Callers : r # NULL
  BY FinitePool DEF IInv, Contextual, Actors
<1>2. QED
  BY <1>1, RunFunctions DEF RunFinished

(* template_task_run, in place or in a new task, is a Fork.                *)
LEMMA ForkStep ==
  ASSUME IInv, Granted, NEW a \in Actors, Active(a), NEW c \in Contexts, NEW w, NEW mode,
         NewContext(a, c, w, mode), NEW s \in {"new", "counted", "running"},
         status' = [status EXCEPT ![c] = s], call' = call
  PROVE  \E r \in Callers, b \in Contexts : Run!Fork(r, b, c)
<1>0. PICK b \in Contexts, r \in Callers : b = Current(a) /\ r = owner[b]
  BY CallersHaveNoStack
<1>1. status[b] = "running"
  BY <1>0, CallersHaveNoStack
<1>2. /\ status[c] = "free" /\ \A q \in Callers : c # RootOf[q]
      /\ owner' = [owner EXCEPT ![c] = r]
  BY <1>0 DEF NewContext
<1>3. /\ status'[c] = s /\ \A d \in Contexts : d # c => status'[d] = status[d]
      /\ owner'[c] = r /\ \A d \in Contexts : d # c => owner'[d] = owner[d]
  BY <1>2 DEF IInv, Types
<1>4. \A q \in Callers : RootOf[q] \in Contexts /\ RootOf[q] # c
  BY <1>2, OneRootPerCall
<1>5. RunPhase' = RunPhase
  BY <1>3, <1>4 DEF RunPhase
<1>6. RunFinished' = RunFinished
  BY <1>2, <1>3 DEF RunFinished
<1>7. b \in RunPending[r] /\ c \notin RunFinished /\ \A q \in Callers : c \notin RunPending[q]
  BY <1>0, <1>1, <1>2, FreeIsFresh, RunFunctions
<1>8. RunPending' = [RunPending EXCEPT ![r] = RunPending[r] \cup {c}]
  <2>1. RunPending' = [q \in Callers |-> RunPending'[q]]
    BY DEF RunPending
  <2>2. \A q \in Callers :
           RunPending'[q] = {d \in Contexts : owner'[d] = q /\ status'[d] # "done"}
    BY DEF RunPending
  <2>3. RunPending'[r] = RunPending[r] \cup {c}
    BY <1>1, <1>3, <2>2, RunFunctions
  <2>4. \A q \in Callers : q # r => RunPending'[q] = RunPending[q]
    <3> SUFFICES ASSUME NEW q \in Callers, q # r PROVE RunPending'[q] = RunPending[q]
      OBVIOUS
    <3>1. c \notin RunPending'[q] /\ c \notin RunPending[q]
      BY <1>3, <1>7, <2>2
    <3>2. \A d \in Contexts : d # c => (d \in RunPending'[q] <=> d \in RunPending[q])
      BY <1>3, <2>2, RunFunctions
    <3>3. RunPending'[q] \subseteq Contexts /\ RunPending[q] \subseteq Contexts
      BY <2>2, RunFunctions
    <3>4. QED
      BY <3>1, <3>2, <3>3
  <2>5. QED
    BY <1>1, <2>1, <2>3, <2>4, PointChange, RunFunctions
<1>9. Run!Fork(r, b, c)
  BY <1>5, <1>6, <1>7, <1>8 DEF Run!Fork, Run!Fresh, RunPhase, RunPending, RunFinished
<1>10. QED
  BY <1>9

(* A function of a context returns to its caller: Finish.                  *)
LEMMA FinishStep ==
  ASSUME IInv, Granted, NEW a \in Actors, Return(a)
  PROVE  \E r \in Callers, c \in Contexts : Run!Finish(r, c)
<1>0. PICK c \in Contexts, r \in Callers : c = Current(a) /\ r = owner[c]
  BY CallersHaveNoStack DEF Return
<1>1. status[c] = "running" /\ a \notin Callers
  BY <1>0, CallersHaveNoStack DEF Return
<1>2. /\ status' = [status EXCEPT ![c] = "done"] /\ owner' = owner
      /\ \A q \in Callers : call'[q] = call[q]
  BY <1>0, <1>1 DEF Return, contextVars
<1>3. status'[c] = "done" /\ \A d \in Contexts : d # c => status'[d] = status[d]
  BY <1>1, <1>2 DEF IInv, Types
<1>4. RunPhase' = RunPhase
  <2>1. \A q \in Callers : RootOf[q] \in Contexts
    BY OneRootPerCall
  <2>2. \A q \in Callers : status'[RootOf[q]] = "free" <=> status[RootOf[q]] = "free"
    BY <1>1, <1>3, <2>1
  <2>3. QED
    BY <1>2, <2>2 DEF RunPhase
<1>5. RunFinished' = RunFinished \cup {c}
  BY <1>1, <1>3 DEF RunFinished
<1>6. RunPending' = [RunPending EXCEPT ![r] = RunPending[r] \ {c}]
  <2>1. RunPending' = [q \in Callers |-> RunPending'[q]]
    BY DEF RunPending
  <2>2. \A q \in Callers :
           RunPending'[q] = {d \in Contexts : owner[d] = q /\ status'[d] # "done"}
    BY <1>2 DEF RunPending
  <2>3. RunPending'[r] = RunPending[r] \ {c}
    BY <1>1, <1>3, <2>2, RunFunctions
  <2>4. \A q \in Callers : q # r => RunPending'[q] = RunPending[q]
    <3> SUFFICES ASSUME NEW q \in Callers, q # r PROVE RunPending'[q] = RunPending[q]
      OBVIOUS
    <3>1. c \notin RunPending'[q] /\ c \notin RunPending[q]
      BY <1>0, <2>2, RunFunctions
    <3>2. \A d \in Contexts : d # c => (d \in RunPending'[q] <=> d \in RunPending[q])
      BY <1>3, <2>2, RunFunctions
    <3>3. RunPending'[q] \subseteq Contexts /\ RunPending[q] \subseteq Contexts
      BY <2>2, RunFunctions
    <3>4. QED
      BY <3>1, <3>2, <3>3
  <2>5. QED
    BY <1>1, <2>1, <2>3, <2>4, PointChange, RunFunctions
<1>7. c \in RunPending[r]
  BY <1>0, <1>1, RunFunctions
<1>8. Run!Finish(r, c)
  BY <1>4, <1>5, <1>6, <1>7 DEF Run!Finish, RunPhase, RunPending, RunFinished
<1>9. QED
  BY <1>8

(* The task of the root context is made: Begin.                            *)
LEMMA BeginStep ==
  ASSUME IInv, Granted, NEW r \in Callers, CreateVariable(r)
  PROVE  \E c \in Contexts : Run!Begin(r, c)
<1> DEFINE c == RootOf[r]
<1>1. /\ call[r] = "create" /\ call' = [call EXCEPT ![r] = "start"]
      /\ owner' = [owner EXCEPT ![c] = r] /\ status' = [status EXCEPT ![c] = "counted"]
  BY DEF CreateVariable
<1>2. c \in Contexts /\ \A q \in Callers : q # r => RootOf[q] \in Contexts /\ RootOf[q] # c
  BY OneRootPerCall
<1>3. \A d \in Contexts : owner[d] # r
  BY <1>1, FinitePool DEF IInv, Contextual, Actors
<1>4. status[c] = "free"
  BY <1>2, <1>3 DEF IInv, OnCallers, Contextual
<1>5. /\ status'[c] = "counted" /\ \A d \in Contexts : d # c => status'[d] = status[d]
      /\ owner'[c] = r /\ \A d \in Contexts : d # c => owner'[d] = owner[d]
      /\ call'[r] = "start" /\ \A q \in Callers : q # r => call'[q] = call[q]
  BY <1>1, <1>2 DEF IInv, Types
<1>6. RunFinished' = RunFinished
  BY <1>2, <1>4, <1>5 DEF RunFinished
<1>7. RunPhase[r] = "idle"
  BY <1>1, <1>4, RunFunctions
<1>8. RunPhase' = [RunPhase EXCEPT ![r] = "active"]
  <2>1. RunPhase' = [q \in Callers |-> RunPhase'[q]]
    BY DEF RunPhase
  <2>2. \A q \in Callers :
           RunPhase'[q] = IF call'[q] = "returned" THEN "returned"
                          ELSE IF status'[RootOf[q]] = "free" THEN "idle" ELSE "active"
    BY DEF RunPhase
  <2>3. RunPhase'[r] = "active"
    BY <1>5, <2>2
  <2>4. \A q \in Callers : q # r => RunPhase'[q] = RunPhase[q]
    BY <1>2, <1>5, <2>2, RunFunctions
  <2>5. QED
    BY <2>1, <2>3, <2>4, PointChange, RunFunctions
<1>9. RunPending' = [RunPending EXCEPT ![r] = {c}]
  <2>1. RunPending' = [q \in Callers |-> RunPending'[q]]
    BY DEF RunPending
  <2>2. \A q \in Callers :
           RunPending'[q] = {d \in Contexts : owner'[d] = q /\ status'[d] # "done"}
    BY DEF RunPending
  <2>3. RunPending'[r] = {c}
    BY <1>2, <1>3, <1>5, <2>2
  <2>4. \A q \in Callers : q # r => RunPending'[q] = RunPending[q]
    <3> SUFFICES ASSUME NEW q \in Callers, q # r PROVE RunPending'[q] = RunPending[q]
      OBVIOUS
    <3>1. c \notin RunPending'[q] /\ c \notin RunPending[q]
      BY <1>2, <1>4, <1>5, <2>2, FreeIsFresh
    <3>2. \A d \in Contexts : d # c => (d \in RunPending'[q] <=> d \in RunPending[q])
      BY <1>5, <2>2, RunFunctions
    <3>3. RunPending'[q] \subseteq Contexts /\ RunPending[q] \subseteq Contexts
      BY <2>2, RunFunctions
    <3>4. QED
      BY <3>1, <3>2, <3>3
  <2>5. QED
    BY <2>1, <2>3, <2>4, PointChange, RunFunctions
<1>10. Run!Begin(r, c)
  <2>1. c \notin RunFinished /\ \A q \in Callers : c \notin RunPending[q]
    BY <1>2, <1>4, FreeIsFresh
  <2>2. QED
    BY <1>6, <1>7, <1>8, <1>9, <2>1 DEF Run!Begin, Run!Fresh, RunPhase, RunPending, RunFinished
<1>11. QED
  BY <1>2, <1>10

(* template_task_run_and_wait returns, and nothing of its call is pending: *)
(* Return.                                                                 *)
LEMMA ReturnOfCall ==
  ASSUME IInv, Granted, NEW r \in Callers, FinishWait(r)
  PROVE  Run!Return(r)
<1>1. /\ call[r] = "finish" /\ call' = [call EXCEPT ![r] = "returned"]
      /\ UNCHANGED <<owner, status>>
  BY DEF FinishWait, contextVars
<1>2. call'[r] = "returned" /\ \A q \in Callers : q # r => call'[q] = call[q]
  BY <1>1 DEF IInv, Types
<1>3. Waited(r)
  BY <1>1 DEF Waited, IInv, Variables
<1>4. RunPending[r] = {}
  BY <1>3, ImpliesJoinIsComplete, RunFunctions DEF JoinIsComplete
<1>5. RunPhase[r] = "active"
  BY <1>1, RunFunctions DEF Granted
<1>6. RunPhase' = [RunPhase EXCEPT ![r] = "returned"]
  <2>1. RunPhase' = [q \in Callers |-> RunPhase'[q]]
    BY DEF RunPhase
  <2>2. \A q \in Callers :
           RunPhase'[q] = IF call'[q] = "returned" THEN "returned"
                          ELSE IF status[RootOf[q]] = "free" THEN "idle" ELSE "active"
    BY <1>1 DEF RunPhase
  <2>3. RunPhase'[r] = "returned"
    BY <1>2, <2>2
  <2>4. \A q \in Callers : q # r => RunPhase'[q] = RunPhase[q]
    BY <1>2, <2>2, RunFunctions
  <2>5. QED
    BY <2>1, <2>3, <2>4, PointChange, RunFunctions
<1>7. RunPending' = RunPending /\ RunFinished' = RunFinished
  BY <1>1 DEF RunPending, RunFinished
<1>8. QED
  BY <1>4, <1>5, <1>6, <1>7 DEF Run!Return, RunPhase, RunPending, RunFinished

LEMMA Simulates ==
  ASSUME EnoughThreads, IInv, Granted, [Next]_vars
  PROVE  [Run!Next]_(Run!vars)
<1>1. call \in [Callers -> CallStates] /\ status \in [Contexts -> Statuses]
  BY DEF IInv, Types
<1>2. CASE UNCHANGED <<RunPhase, RunPending, RunFinished>>
  BY <1>2 DEF Run!vars, RunPhase, RunPending, RunFinished
<1>3. ASSUME NEW a \in Actors, Instruct(a) PROVE Run!Next
  <2>1. ASSUME NEW c \in Contexts, NEW w, NEW mode, CallInline(a, c, w, mode) PROVE Run!Next
    <3>1. /\ Active(a) /\ NewContext(a, c, w, mode)
          /\ status' = [status EXCEPT ![c] = "running"] /\ call' = call
      BY <2>1 DEF CallInline, callVars
    <3>2. \E r \in Callers, b \in Contexts : Run!Fork(r, b, c)
      BY <3>1, ForkStep
    <3>3. QED
      BY <3>2 DEF Run!Next
  <2>2. ASSUME NEW c \in Contexts, NEW fork, NEW is_parallel, RunInNewTask(a, c, fork, is_parallel)
        PROVE  Run!Next
    <3>1. PICK s \in {"new", "counted"} : status' = [status EXCEPT ![c] = s]
      BY <2>2 DEF RunInNewTask
    <3>2. PICK w, mode : Active(a) /\ NewContext(a, c, w, mode) /\ call' = call
      BY <2>2 DEF RunInNewTask, callVars
    <3>3. \E r \in Callers, b \in Contexts : Run!Fork(r, b, c)
      BY <3>1, <3>2, ForkStep
    <3>4. QED
      BY <3>3 DEF Run!Next
  <2>3. QED
    BY <1>3, <2>1, <2>2 DEF Instruct, CallDirect, CallSingle, RunInline
<1>4. ASSUME NEW a \in Actors, Return(a) PROVE Run!Next
  BY <1>4, FinishStep DEF Run!Next
<1>5. ASSUME NEW r \in Callers, CreateVariable(r) PROVE Run!Next
  BY <1>5, BeginStep DEF Run!Next
<1>6. ASSUME NEW r \in Callers, FinishWait(r) PROVE Run!Next
  BY <1>6, ReturnOfCall DEF Run!Next
<1>7. ASSUME NEW a \in Actors, Increase(a) \/ StartTask(a)
      PROVE  UNCHANGED <<RunPhase, RunPending, RunFinished>>
  <2>1. owner' = owner
    BY <1>7 DEF Increase, StartTask, contextVars
  <2>2. \A r \in Callers : call'[r] = "returned" <=> call[r] = "returned"
    BY <1>7 DEF Increase, StartTask, callVars
  <2>3. /\ status[spawn[a]] \in {"new", "counted"}
        /\ \E s \in {"counted", "queued", "lost"} : status' = [status EXCEPT ![spawn[a]] = s]
    BY <1>7 DEF Increase, StartTask
  <2>4. \A c \in Contexts : /\ status'[c] = "free" <=> status[c] = "free"
                            /\ status'[c] = "done" <=> status[c] = "done"
    BY <1>1, <2>3
  <2>5. QED
    BY <2>1, <2>2, <2>4, Hidden
<1>8. ASSUME NEW t \in Threads, WorkerTakesTask(t)
      PROVE  UNCHANGED <<RunPhase, RunPending, RunFinished>>
  <2>1. UNCHANGED <<owner, call>> /\ status' = [status EXCEPT ![Head(queue)] = "running"]
    BY <1>8 DEF WorkerTakesTask, workerUnchanged, contextVars
  <2>2. status[Head(queue)] = "queued"
    <3>1. queue # <<>> /\ Head(queue) # stop_task /\ queue \in Seq(Contexts \cup {stop_task})
      BY <1>8 DEF WorkerTakesTask, DequeueTake, IInv, Types
    <3>2. Head(queue) = queue[1] /\ 1 \in 1..Len(queue)
      BY <3>1
    <3>3. QED
      BY <3>1, <3>2 DEF IInv, Queued
  <2>3. \A c \in Contexts : /\ status'[c] = "free" <=> status[c] = "free"
                            /\ status'[c] = "done" <=> status[c] = "done"
    BY <1>1, <2>1, <2>2
  <2>4. QED
    BY <2>1, <2>3, Hidden
<1>9. ASSUME NEW t \in Threads, TaskEnds(t)
      PROVE  UNCHANGED <<RunPhase, RunPending, RunFinished>>
  <2>1. UNCHANGED <<owner, status>>
    BY <1>9 DEF TaskEnds, workerUnchanged, contextVars
  <2>2. \A r \in Callers : call'[r] = "returned" <=> call[r] = "returned"
    BY <1>1, <1>9 DEF TaskEnds
  <2>3. QED
    BY <2>1, <2>2, Hidden
<1>10. ASSUME NEW t \in Threads,
              \/ WorkerTakesStop(t) \/ WorkerFindsClosed(t) \/ WorkerSleeps(t) \/ WorkerWakes(t)
       PROVE  UNCHANGED <<RunPhase, RunPending, RunFinished>>
  BY <1>10, Hidden DEF WorkerTakesStop, WorkerFindsClosed, WorkerSleeps, WorkerWakes,
     workerUnchanged, contextVars
<1>11. ASSUME NEW r \in Callers, TryWait(r) \/ Wait(r) \/ Release(r) \/ CallerWakes(r)
       PROVE  UNCHANGED <<RunPhase, RunPending, RunFinished>>
  <2>1. UNCHANGED <<owner, status>>
    BY <1>11 DEF TryWait, Wait, Release, CallerWakes, contextVars
  <2>2. call[r] # "returned" /\ \E s : s # "returned" /\ call' = [call EXCEPT ![r] = s]
    BY <1>11 DEF TryWait, Wait, Release, CallerWakes
  <2>3. \A q \in Callers : call'[q] = "returned" <=> call[q] = "returned"
    BY <1>1, <2>2
  <2>4. QED
    BY <2>1, <2>3, Hidden
<1>12. ASSUME ClosePool \/ Free \/ UNCHANGED vars
       PROVE  UNCHANGED <<RunPhase, RunPending, RunFinished>>
  BY <1>12, Hidden DEF ClosePool, Free, SendStop, JoinThreads, freeUnchanged, vars, callVars,
     contextVars
<1>13. \A r \in Callers : ~RunRootInline(r)
  BY NobodyRefused DEF Granted
<1>14. QED
  BY <1>2, <1>3, <1>4, <1>5, <1>6, <1>7, <1>8, <1>9, <1>10, <1>11, <1>12, <1>13
     DEF Next, Work, Worker, Begin, Caller, Terminated

(***************************************************************************)
(* Threads, queue, shared variables and modes together do what             *)
(* TransformRun promises to XSLTProcess: every step of the pool is a step  *)
(* of the run or none, whatever allocations of the queue fail.             *)
(***************************************************************************)
THEOREM PoolImplementsRun == ASSUME EnoughThreads PROVE Spec => RunSpec
<1>1. Init => Run!Init
  <2> SUFFICES ASSUME Init PROVE Run!Init
    OBVIOUS
  <2>1. \A r \in Callers : RootOf[r] \in Contexts /\ r # NULL
    BY OneRootPerCall, FinitePool DEF Actors
  <2>2. RunPhase = [r \in Callers |-> "idle"]
    BY <2>1 DEF Init, RunPhase
  <2>3. RunPending = [r \in Callers |-> {}]
    BY <2>1 DEF Init, RunPending
  <2>4. RunFinished = {}
    BY DEF Init, RunFinished
  <2>5. QED
    BY <2>2, <2>3, <2>4 DEF Run!Init, RunPhase, RunPending, RunFinished
<1>2. IInv /\ Granted /\ [Next]_vars => [Run!Next]_(Run!vars)
  BY Simulates
<1>3. QED
  BY <1>1, <1>2, Inductive, AlwaysGranted, PTL DEF Spec, RunSpec, Run!Spec
=============================================================================
