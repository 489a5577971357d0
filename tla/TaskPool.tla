------------------------------ MODULE TaskPool ------------------------------
(***************************************************************************)
(* The multithreaded core of a transformation: threadpool.c,               *)
(* shared_variable.c and template_task.c over unbounded_queue.c.           *)
(*                                                                         *)
(* A caller is one call of template_task_run_and_wait, the heart of        *)
(* XSLTProcess.  It creates a shared variable, queues a task for the root  *)
(* template context and sleeps until the variable, which counts the tasks  *)
(* of the call, is back at zero.  A task applies templates, and each       *)
(* instruction it meets makes a new context that runs either inside the    *)
(* task or in a task of its own (template_task_run).  The C stack of a     *)
(* thread is the sequence of the contexts it is working on.  Which         *)
(* instructions a template holds is left open: a context does anything the *)
(* instructions can make it do, as long as there is a free context left.   *)
(***************************************************************************)
EXTENDS UnboundedQueue, FiniteSets

CONSTANTS
  Callers,        \* the calls of template_task_run_and_wait, one thread each
  Contexts,       \* the template_context objects; their number bounds a run
  RootOf,         \* the context each call starts with
  stop_task,      \* the task that tells a worker to leave
  NULL,
  MaxLost         \* bound: how many mallocs of enqueue may fail

Actors == Threads \cup Callers

ASSUME FinitePool ==
  /\ IsFiniteSet(Threads) /\ IsFiniteSet(Callers) /\ IsFiniteSet(Contexts)
  /\ Threads \cap Callers = {}
  /\ NULL \notin Actors \cup Contexts
  /\ stop_task \notin Contexts \cup {NULL}
  /\ MaxLost \in Nat

ASSUME OneRootPerCall ==
  /\ RootOf \in [Callers -> Contexts]
  /\ \A r, s \in Callers : RootOf[r] = RootOf[s] => r = s

VARIABLES
  \* struct threadpool_
  num_of_blocked, \* the calls that wait
  job,            \* the context of the task each worker is in
  exited,         \* the workers that left worker_thr_routine
  \* threadpool_free
  pool,           \* "open", "stopping", "freed"
  stops,          \* the stop tasks sent so far
  lost,           \* the values dropped by enqueue
  \* template_task_run_and_wait
  call,           \* where each caller is
  variable,       \* its shared variable: "none", "live", "released"
  value,          \* shared_variable_.value
  \* template_context
  status,         \* how far each context is
  owner,          \* the call a context works for (not in the code)
  workers,        \* the shared variable it was given, or NULL
  task_mode,
  \* the threads
  stack,          \* the contexts each thread works on, innermost last
  spawn           \* the context a thread is making a task for

poolVars == <<num_of_blocked, exited, pool, stops>>
callVars == <<call, variable>>
contextVars == <<owner, workers, task_mode>>
vars == <<queueVars, poolVars, job, lost, callVars, value, status, contextVars,
          stack, spawn>>

TaskModes == {"DEFAULT", "DENY", "SINGLE"}
\* The value of the fork attribute of an instruction.
ForkAttributes == {"absent", "yes", "no", "deny", "other"}

Statuses == {"free",      \* not allocated yet
             "new",       \* its task is allocated and not counted yet
             "counted",   \* counted in value and not queued yet
             "queued",    \* its task is in the queue
             "lost",      \* its task was dropped by a failed enqueue
             "running",   \* on the stack of a thread
             "done"}      \* its function has returned

CallStates == {"idle", "create", "start", "wait", "asleep", "release", "finish",
               "inline", "returned"}

Init ==
  /\ QueueInit
  /\ num_of_blocked = 0
  /\ job = [t \in Threads |-> NULL]
  /\ exited = {}
  /\ pool = "open"
  /\ stops = 0
  /\ lost = 0
  /\ call = [r \in Callers |-> "idle"]
  /\ variable = [r \in Callers |-> "none"]
  /\ value = [r \in Callers |-> 0]
  /\ status = [c \in Contexts |-> "free"]
  /\ owner = [c \in Contexts |-> NULL]
  /\ workers = [c \in Contexts |-> NULL]
  /\ task_mode = [c \in Contexts |-> "DEFAULT"]
  /\ stack = [a \in Actors |-> <<>>]
  /\ spawn = [a \in Actors |-> NULL]
-----------------------------------------------------------------------------
(* template_task_run, called for an instruction by a context.              *)

\* The thread is inside the function of a context, and between two calls.
Active(a) == stack[a] # <<>> /\ spawn[a] = NULL

Current(a) == stack[a][Len(stack[a])]

Push(a, c) == stack' = [stack EXCEPT ![a] = Append(@, c)]

\* The three tests that end in function(context) on the caller's stack.
RunsInline(mode, fork, is_parallel_instruction) ==
  \/ Threads = {}
  \/ mode = "SINGLE"
  \/ mode = "DENY" /\ fork # "yes"
  \/ mode = "DEFAULT" /\ fork \in {"no", "deny"}
  \/ mode = "DEFAULT" /\ fork = "absent" /\ ~is_parallel_instruction

\* The mode the new context goes on with.
ModeAfter(mode, fork) ==
  IF Threads = {} THEN mode
  ELSE IF mode = "DENY" /\ fork = "yes" THEN "DEFAULT"
  ELSE IF mode = "DEFAULT" /\ fork = "deny" THEN "DENY"
  ELSE mode

\* A new template_context for the call that the current context works for.
NewContext(a, c, w, mode) ==
  /\ status[c] = "free"
  /\ \A r \in Callers : c # RootOf[r]
  /\ owner' = [owner EXCEPT ![c] = owner[Current(a)]]
  /\ workers' = [workers EXCEPT ![c] = w]
  /\ task_mode' = [task_mode EXCEPT ![c] = mode]

\* The function of a new context is called from the function of the current
\* one: it is the end of the loop over a text or a last node, an instruction
\* that never forks, or a template_task_run that runs the context in place.
CallInline(a, c, w, mode) ==
  /\ Active(a)
  /\ NewContext(a, c, w, mode)
  /\ status' = [status EXCEPT ![c] = "running"]
  /\ Push(a, c)
  /\ UNCHANGED <<queueVars, poolVars, job, lost, callVars, value, spawn>>

\* instruction_if, _choose, _copy ... and the nodes that are not parallel:
\* the context inherits the variable and the mode.
CallDirect(a, c) ==
  CallInline(a, c, workers[Current(a)], task_mode[Current(a)])

\* Mutant of CallSingle: task_mode is left at its zero value.
CallSingle_default(a, c) == CallInline(a, c, NULL, "DEFAULT")

\* The content of with-param, of a variable, of an attribute...: a context
\* without a variable whose instructions never fork.
CallSingle(a, c) == CallInline(a, c, NULL, "SINGLE")

RunInline(a, c, fork, is_parallel_instruction) ==
  LET mode == task_mode[Current(a)] IN
  /\ Active(a)
  /\ RunsInline(mode, fork, is_parallel_instruction)
  /\ CallInline(a, c, workers[Current(a)], ModeAfter(mode, fork))

\* Mutant of RunInNewTask: the new context is not given the variable.
RunInNewTask_orphan(a, c, fork, is_parallel_instruction) ==
  LET mode == task_mode[Current(a)] IN
  /\ Active(a)
  /\ ~RunsInline(mode, fork, is_parallel_instruction)
  /\ NewContext(a, c, NULL, ModeAfter(mode, fork))
  /\ status' = [status EXCEPT ![c] = "counted"]
  /\ spawn' = [spawn EXCEPT ![a] = c]
  /\ UNCHANGED <<queueVars, poolVars, job, lost, callVars, value, stack>>

\* "running in new task": the task is allocated.
RunInNewTask(a, c, fork, is_parallel_instruction) ==
  LET mode == task_mode[Current(a)]
      w == workers[Current(a)]
  IN
  /\ Active(a)
  /\ ~RunsInline(mode, fork, is_parallel_instruction)
  /\ NewContext(a, c, w, ModeAfter(mode, fork))
  /\ status' = [status EXCEPT ![c] = IF w = NULL THEN "counted" ELSE "new"]
  /\ spawn' = [spawn EXCEPT ![a] = c]
  /\ UNCHANGED <<queueVars, poolVars, job, lost, callVars, value, stack>>

\* shared_variable_increase, which precedes the enqueue.
Increase(a) ==
  /\ spawn[a] # NULL
  /\ status[spawn[a]] = "new"
  /\ value' = [value EXCEPT ![workers[spawn[a]]] = @ + 1]
  /\ status' = [status EXCEPT ![spawn[a]] = "counted"]
  /\ UNCHANGED <<queueVars, poolVars, job, lost, callVars, contextVars, stack, spawn>>

\* threadpool_start, from template_task_run or template_task_run_and_wait.
StartTask(a) ==
  /\ spawn[a] # NULL
  /\ status[spawn[a]] = "counted"
  /\ \/ /\ Enqueue(spawn[a])
        /\ status' = [status EXCEPT ![spawn[a]] = "queued"]
        /\ UNCHANGED lost
     \/ /\ lost < MaxLost
        /\ EnqueueFails
        /\ status' = [status EXCEPT ![spawn[a]] = "lost"]
        /\ lost' = lost + 1
  /\ spawn' = [spawn EXCEPT ![a] = NULL]
  /\ call' = [r \in Callers |-> IF r = a /\ call[r] = "start" THEN "wait" ELSE call[r]]
  /\ UNCHANGED <<poolVars, job, variable, value, contextVars, stack>>

\* The function of the current context returns to whoever called it; a call
\* that went inline returns with its root context.
Return(a) ==
  /\ Active(a)
  /\ status' = [status EXCEPT ![Current(a)] = "done"]
  /\ stack' = [stack EXCEPT ![a] = SubSeq(@, 1, Len(@) - 1)]
  /\ call' = [r \in Callers |-> IF r = a /\ Len(stack[r]) = 1 THEN "returned" ELSE call[r]]
  /\ UNCHANGED <<queueVars, poolVars, job, lost, variable, value, contextVars, spawn>>
-----------------------------------------------------------------------------
(* worker_thr_routine and template_task_function.                          *)

\* A worker that is at the top of its loop, in unbounded_queue_dequeue.
InLoop(t) == t \notin exited /\ job[t] = NULL

workerUnchanged == <<num_of_blocked, pool, stops, lost, variable, contextVars, spawn>>

WorkerTakesTask(t) ==
  /\ InLoop(t)
  /\ DequeueTake(t)
  /\ Head(queue) # stop_task
  /\ job' = [job EXCEPT ![t] = Head(queue)]
  /\ status' = [status EXCEPT ![Head(queue)] = "running"]
  /\ Push(t, Head(queue))
  /\ UNCHANGED <<workerUnchanged, exited, call, value>>

WorkerTakesStop(t) ==
  /\ InLoop(t)
  /\ DequeueTake(t)
  /\ Head(queue) = stop_task
  /\ exited' = exited \cup {t}
  /\ UNCHANGED <<workerUnchanged, job, call, value, status, stack>>

WorkerFindsClosed(t) ==
  /\ InLoop(t)
  /\ DequeueClosed(t)
  /\ exited' = exited \cup {t}
  /\ UNCHANGED <<workerUnchanged, job, call, value, status, stack>>

WorkerSleeps(t) ==
  /\ InLoop(t)
  /\ DequeueSleep(t)
  /\ UNCHANGED <<workerUnchanged, exited, job, call, value, status, stack>>

WorkerWakes(t) ==
  /\ InLoop(t)
  /\ SpuriousWake(t)
  /\ UNCHANGED <<workerUnchanged, exited, job, call, value, status, stack>>

\* Mutant of TaskEnds: zero is not broadcast.
TaskEnds_silent(t) ==
  /\ t \in Threads
  /\ job[t] # NULL
  /\ stack[t] = <<>>
  /\ LET w == workers[job[t]] IN
       value' = IF w = NULL THEN value ELSE [value EXCEPT ![w] = @ - 1]
  /\ job' = [job EXCEPT ![t] = NULL]
  /\ UNCHANGED <<queueVars, workerUnchanged, exited, status, stack, call>>

\* The function of the task has returned: shared_variable_decrease, with its
\* broadcast when the variable is down to zero.
TaskEnds(t) ==
  /\ t \in Threads
  /\ job[t] # NULL
  /\ stack[t] = <<>>
  /\ LET w == workers[job[t]] IN
       IF w = NULL
       THEN UNCHANGED <<value, call>>
       ELSE /\ value' = [value EXCEPT ![w] = @ - 1]
            /\ call' = [call EXCEPT ![w] = IF value'[w] = 0 /\ @ = "asleep"
                                           THEN "wait" ELSE @]
  /\ job' = [job EXCEPT ![t] = NULL]
  /\ UNCHANGED <<queueVars, workerUnchanged, exited, status, stack>>
-----------------------------------------------------------------------------
(* template_task_run_and_wait, on the thread of the caller.                *)

callerUnchanged == <<queueVars, exited, pool, stops, job, lost>>

\* The pool is there and thread_pool_try_wait grants the wait.
TryWait(r) ==
  /\ call[r] = "idle" /\ pool = "open"
  /\ Threads # {}
  /\ num_of_blocked < Cardinality(Threads)
  /\ num_of_blocked' = num_of_blocked + 1
  /\ call' = [call EXCEPT ![r] = "create"]
  /\ UNCHANGED <<callerUnchanged, variable, value, status, contextVars, stack, spawn>>

\* There is no pool, or as many calls wait already as there are threads: the
\* root context runs on the caller's own stack, without a variable.
RunRootInline(r) ==
  /\ call[r] = "idle" /\ pool = "open"
  /\ num_of_blocked >= Cardinality(Threads)
  /\ owner' = [owner EXCEPT ![RootOf[r]] = r]
  /\ status' = [status EXCEPT ![RootOf[r]] = "running"]
  /\ Push(r, RootOf[r])
  /\ call' = [call EXCEPT ![r] = "inline"]
  /\ UNCHANGED <<callerUnchanged, num_of_blocked, variable, value, workers, task_mode, spawn>>

\* Mutant of CreateVariable: the variable starts at zero.
CreateVariable_zero(r) ==
  /\ call[r] = "create"
  /\ variable' = [variable EXCEPT ![r] = "live"]
  /\ owner' = [owner EXCEPT ![RootOf[r]] = r]
  /\ workers' = [workers EXCEPT ![RootOf[r]] = r]
  /\ status' = [status EXCEPT ![RootOf[r]] = "counted"]
  /\ spawn' = [spawn EXCEPT ![r] = RootOf[r]]
  /\ call' = [call EXCEPT ![r] = "start"]
  /\ UNCHANGED <<callerUnchanged, num_of_blocked, value, task_mode, stack>>

\* shared_variable_create, and the task of the root context.
CreateVariable(r) ==
  /\ call[r] = "create"
  /\ variable' = [variable EXCEPT ![r] = "live"]
  /\ value' = [value EXCEPT ![r] = 1]
  /\ owner' = [owner EXCEPT ![RootOf[r]] = r]
  /\ workers' = [workers EXCEPT ![RootOf[r]] = r]
  /\ status' = [status EXCEPT ![RootOf[r]] = "counted"]
  /\ spawn' = [spawn EXCEPT ![r] = RootOf[r]]
  /\ call' = [call EXCEPT ![r] = "start"]
  /\ UNCHANGED <<callerUnchanged, num_of_blocked, task_mode, stack>>

\* Mutant of Wait: it stops one task too early.
Wait_early(r) ==
  /\ call[r] = "wait"
  /\ call' = [call EXCEPT ![r] = IF value[r] <= 1 THEN "release" ELSE "asleep"]
  /\ UNCHANGED <<callerUnchanged, num_of_blocked, variable, value, status, contextVars, stack, spawn>>

\* shared_variable_wait: one turn of its loop, under the mutex.
Wait(r) ==
  /\ call[r] = "wait"
  /\ call' = [call EXCEPT ![r] = IF value[r] = 0 THEN "release" ELSE "asleep"]
  /\ UNCHANGED <<callerUnchanged, num_of_blocked, variable, value, status, contextVars, stack, spawn>>

\* Mutant of CallerWakes: the test is an if, a woken call does not repeat it.
CallerWakes_trusts(r) ==
  /\ call[r] = "asleep"
  /\ call' = [call EXCEPT ![r] = "release"]
  /\ UNCHANGED <<callerUnchanged, num_of_blocked, variable, value, status, contextVars, stack, spawn>>

\* pthread_cond_wait may return without a broadcast.
CallerWakes(r) ==
  /\ call[r] = "asleep"
  /\ call' = [call EXCEPT ![r] = "wait"]
  /\ UNCHANGED <<callerUnchanged, num_of_blocked, variable, value, status, contextVars, stack, spawn>>

\* shared_variable_release.
Release(r) ==
  /\ call[r] = "release"
  /\ variable' = [variable EXCEPT ![r] = "released"]
  /\ call' = [call EXCEPT ![r] = "finish"]
  /\ UNCHANGED <<callerUnchanged, num_of_blocked, value, status, contextVars, stack, spawn>>

\* Mutant of FinishWait: the place is not given back.
FinishWait_kept(r) ==
  /\ call[r] = "finish"
  /\ call' = [call EXCEPT ![r] = "returned"]
  /\ UNCHANGED <<callerUnchanged, num_of_blocked, variable, value, status, contextVars, stack, spawn>>

\* thread_pool_finish_wait.
FinishWait(r) ==
  /\ call[r] = "finish"
  /\ num_of_blocked' = IF num_of_blocked > 0 THEN num_of_blocked - 1 ELSE 0
  /\ call' = [call EXCEPT ![r] = "returned"]
  /\ UNCHANGED <<callerUnchanged, variable, value, status, contextVars, stack, spawn>>
-----------------------------------------------------------------------------
(* threadpool_free, from XSLTEnd: no call is in progress any more.         *)

freeUnchanged == <<num_of_blocked, exited, job, callVars, value, status, contextVars,
                   stack, spawn>>

ClosePool ==
  /\ pool = "open" /\ Threads # {}
  /\ \A r \in Callers : call[r] \in {"idle", "returned"}
  /\ CloseQueue
  /\ pool' = "stopping"
  /\ UNCHANGED <<freeUnchanged, stops, lost>>

\* One stop task for each worker.
SendStop ==
  /\ pool = "stopping"
  /\ stops < Cardinality(Threads)
  /\ stops' = stops + 1
  /\ \/ Enqueue(stop_task) /\ UNCHANGED lost
     \/ EnqueueFails /\ lost < MaxLost /\ lost' = lost + 1
  /\ UNCHANGED <<freeUnchanged, pool>>

\* Every pthread_join returns; the queue is released.
JoinThreads ==
  /\ pool = "stopping"
  /\ stops = Cardinality(Threads)
  /\ exited = Threads
  /\ pool' = "freed"
  /\ UNCHANGED <<freeUnchanged, queueVars, stops, lost>>
-----------------------------------------------------------------------------
Instruct(a) ==
  \E c \in Contexts :
    \/ CallDirect(a, c)
    \/ CallSingle(a, c)
    \/ \E fork \in ForkAttributes, is_parallel \in BOOLEAN :
         \/ RunInline(a, c, fork, is_parallel)
         \/ RunInNewTask(a, c, fork, is_parallel)

\* A thread works on its contexts.
Work(a) == Instruct(a) \/ Increase(a) \/ StartTask(a) \/ Return(a)

Worker(t) ==
  \/ WorkerTakesTask(t) \/ WorkerTakesStop(t) \/ WorkerFindsClosed(t)
  \/ WorkerSleeps(t) \/ TaskEnds(t)

Begin(r) == TryWait(r) \/ RunRootInline(r)

Caller(r) ==
  CreateVariable(r) \/ Wait(r) \/ Release(r) \/ FinishWait(r)

Free == SendStop \/ JoinThreads

\* Nothing is left to do: the pool is freed.
Terminated ==
  /\ pool = "freed"
  /\ \A a \in Callers : stack[a] = <<>>
  /\ UNCHANGED vars

Next ==
  \/ \E a \in Actors : Work(a)
  \/ \E t \in Threads : Worker(t) \/ WorkerWakes(t)
  \/ \E r \in Callers : Begin(r) \/ Caller(r) \/ CallerWakes(r)
  \/ ClosePool \/ Free
  \/ Terminated

\* The scheduler runs every thread that can take a step, and the functions of
\* the contexts come to their end.  Nobody has to call, to end the library or
\* to wake a sleeper without reason.
Fairness ==
  /\ \A a \in Actors : WF_vars(Work(a))
  /\ \A t \in Threads : WF_vars(Worker(t))
  /\ \A r \in Callers : WF_vars(Caller(r))
  /\ WF_vars(Free)

Spec == Init /\ [][Next]_vars

FairSpec == Spec /\ Fairness
-----------------------------------------------------------------------------
(* Properties.                                                             *)

OrNull(S) == S \cup {NULL}

(***************************************************************************)
(* The type invariant.  That value is a natural number says that           *)
(* shared_variable_decrease never takes the unsigned counter below zero.   *)
(***************************************************************************)
TypeOK ==
  /\ queue \in Seq(Contexts \cup {stop_task})
  /\ is_closed \in BOOLEAN
  /\ reader \in [Threads -> ReaderStates]
  /\ num_of_blocked \in Nat
  /\ job \in [Threads -> OrNull(Contexts)]
  /\ exited \in SUBSET Threads
  /\ pool \in {"open", "stopping", "freed"}
  /\ stops \in Nat
  /\ lost \in 0..MaxLost
  /\ call \in [Callers -> CallStates]
  /\ variable \in [Callers -> {"none", "live", "released"}]
  /\ value \in [Callers -> Nat]
  /\ status \in [Contexts -> Statuses]
  /\ owner \in [Contexts -> OrNull(Callers)]
  /\ workers \in [Contexts -> OrNull(Callers)]
  /\ task_mode \in [Contexts -> TaskModes]
  /\ stack \in [Actors -> Seq(Contexts)]
  /\ spawn \in [Actors -> OrNull(Contexts)]

\* The context holds one unit of its shared variable: its task is counted
\* and template_task_function has not given the unit back.
Holds(c) ==
  \/ status[c] \in {"counted", "queued", "lost"}
  \/ \E t \in Threads : job[t] = c

Holders(r) == {c \in Contexts : workers[c] = r /\ Holds(c)}

(***************************************************************************)
(* The counter of a call is the number of its tasks that are on their way  *)
(* to the queue, in it, or taken by a worker and not yet given back        *)
(* (shared_variable_increase before threadpool_start, _decrease last in    *)
(* template_task_function).                                                *)
(***************************************************************************)
CounterCountsTasks ==
  \A r \in Callers : value[r] = Cardinality(Holders(r))

\* The call has seen its counter at zero.
Waited(r) == variable[r] # "none" /\ call[r] \in {"release", "finish", "returned"}

(***************************************************************************)
(* The join is complete: once shared_variable_wait has returned, every     *)
(* context ever made for the call, at whatever depth and on whatever       *)
(* thread, has returned, so XSLTProcess reads a finished document.         *)
(***************************************************************************)
JoinIsComplete ==
  \A r \in Callers : Waited(r) =>
    \A c \in Contexts : owner[c] = r => status[c] = "done"

(***************************************************************************)
(* No use after free: while a task still has to count itself in or out,    *)
(* the shared variable it was given has not been released.                 *)
(***************************************************************************)
NoUseAfterRelease ==
  \A c \in Contexts :
    workers[c] # NULL /\ (status[c] = "new" \/ Holds(c)) => variable[workers[c]] = "live"

(***************************************************************************)
(* num_of_blocked counts the calls between a granted thread_pool_try_wait  *)
(* and thread_pool_finish_wait, and there are never more of them than pool *)
(* threads.                                                                *)
(***************************************************************************)
BlockedIsExact ==
  /\ num_of_blocked = Cardinality({r \in Callers :
       call[r] \in {"create", "start", "wait", "asleep", "release", "finish"}})
  /\ num_of_blocked <= Cardinality(Threads)

(***************************************************************************)
(* No lost wake-up in shared_variable_wait: a call does not sleep on a     *)
(* counter that is already down.                                           *)
(***************************************************************************)
NoSleepOnZero == \A r \in Callers : call[r] = "asleep" => value[r] # 0

(***************************************************************************)
(* A task is taken by one worker at most, and never a second time: no two  *)
(* threads are in the same context, and a queued context is in the queue   *)
(* once.                                                                   *)
(***************************************************************************)
EachTaskRunsOnce ==
  /\ \A t, u \in Threads : job[t] = job[u] /\ job[t] # NULL => t = u
  /\ \A i, j \in 1..Len(queue) : queue[i] = queue[j] /\ queue[i] # stop_task => i = j
  /\ \A i \in 1..Len(queue) : queue[i] # stop_task => status[queue[i]] = "queued"

(***************************************************************************)
(* threadpool_free drops nothing: when the queue is released no task that  *)
(* was started is still in it.  It holds when no call goes inline, that is *)
(* with at most as many calls at a time as pool threads.                   *)
(***************************************************************************)
NothingDropped ==
  pool = "freed" => \A c \in Contexts : status[c] \in {"free", "done"}

(***************************************************************************)
(* A context that was given no variable, the content of a with-param, say, *)
(* is never put into a task while its call waits on a counter: nobody      *)
(* would wait for it.  task_mode SINGLE and its inheritance see to that.   *)
(***************************************************************************)
UncountedStaysOnThread ==
  \A c \in Contexts :
    owner[c] # NULL /\ variable[owner[c]] # "none" /\ workers[c] = NULL
      => /\ status[c] \in {"running", "done"}
         /\ \A t \in Threads : job[t] # c

(***************************************************************************)
(* The pool implements the abstract run: contexts are pending from their   *)
(* creation to their return, and the call returns when none is pending.    *)
(* It holds with at most as many calls at a time as pool threads.          *)
(***************************************************************************)
Run == INSTANCE TransformRun WITH
  phase <- [r \in Callers |->
              IF call[r] = "returned" THEN "returned"
              ELSE IF status[RootOf[r]] = "free" THEN "idle" ELSE "active"],
  pending <- [r \in Callers |-> {c \in Contexts : owner[c] = r /\ status[c] # "done"}],
  finished <- {c \in Contexts : status[c] = "done"}

RunSpec == Run!Spec

(***************************************************************************)
(* Every call of template_task_run_and_wait comes back, given that the     *)
(* threads are scheduled and no malloc of enqueue fails.                   *)
(***************************************************************************)
CallReturns == \A r \in Callers : call[r] # "idle" ~> call[r] = "returned"

(***************************************************************************)
(* threadpool_free comes back: whatever the workers do when the queue is   *)
(* closed, each of them leaves and can be joined.                          *)
(***************************************************************************)
FreeReturns == pool = "stopping" ~> pool = "freed"
=============================================================================
