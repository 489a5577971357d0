---------------------------- MODULE SharedCaches ----------------------------
(***************************************************************************)
(* What the threads of one run share while they evaluate XPath: the        *)
(* dictionary of compiled expressions (xpath_find_expr), the dictionary of *)
(* URLs with memcached and Perl behind it (xf_urlcode), and the processor  *)
(* lock, which guards the Perl interpreter and the sort tables.            *)
(*                                                                         *)
(* concurrent_dictionary_find takes no lock and concurrent_dictionary_add  *)
(* takes the dictionary's own: find and add are two steps, and what a      *)
(* thread makes between them others may make too.  A dictionary keeps the  *)
(* first value added under a key.                                          *)
(*                                                                         *)
(* xpath_compile gives NULL for a malformed expression.  NULL is added     *)
(* like any tree, and a find cannot tell it from an absent key.            *)
(***************************************************************************)
EXTENDS Naturals

CONSTANTS
  Threads,
  Exprs, Urls,   \* the keys of the two dictionaries
  Malformed,     \* the expressions xpath_compile gives NULL for
  Answers,       \* what Perl may answer, not always the same for a key
  Clients,       \* the threads that are registered with the external cache
  MaxCalls,      \* bound: the evaluations and sorts of a thread
  NULL

\* Keys longer than sixteen bits can count would be cut: they are left out.
ASSUME Evaluation ==
  /\ Exprs \cap Urls = {}
  /\ Malformed \subseteq Exprs
  /\ Clients \subseteq Threads
  /\ NULL \notin Threads \cup Answers
  /\ MaxCalls \in Nat

VARIABLES
  table,     \* both dictionaries
  store,     \* what memcached holds for each URL
  lock,      \* the thread that holds the processor lock
  at,        \* where each thread is
  key,       \* what it evaluates
  got,       \* what it has for the key
  seen,      \* what the dictionary held when the evaluation began
  sorting,   \* the thread is in xpath_sort_selection and holds the lock
  calls,     \* the evaluations and sorts begun by each thread
  compiles   \* how often each thread has compiled each expression

vars == <<table, store, lock, at, key, got, seen, sorting, calls, compiles>>

Steps == {"idle", "find", "compile", "ask", "lock", "perl", "set", "add", "done"}

Init ==
  /\ table = [k \in Exprs \cup Urls |-> NULL]
  /\ store = [u \in Urls |-> NULL]
  /\ lock = NULL
  /\ at = [t \in Threads |-> "idle"]
  /\ key = [t \in Threads |-> NULL]
  /\ got = [t \in Threads |-> NULL]
  /\ seen = [t \in Threads |-> NULL]
  /\ sorting = [t \in Threads |-> FALSE]
  /\ calls = [t \in Threads |-> 0]
  /\ compiles = [t \in Threads |-> [e \in Exprs |-> 0]]

Goto(t, step) == at' = [at EXCEPT ![t] = step]

\* xpath_find_expr or xf_urlcode is called, outside a sort or for a sort key.
Begin(t, k) ==
  /\ at[t] = "idle" /\ calls[t] < MaxCalls
  /\ Goto(t, "find")
  /\ key' = [key EXCEPT ![t] = k]
  /\ seen' = [seen EXCEPT ![t] = table[k]]
  /\ calls' = [calls EXCEPT ![t] = @ + 1]
  /\ UNCHANGED <<table, store, lock, got, sorting, compiles>>

\* Mutant of Find: what the dictionary holds is not used.
Find_blind(t) ==
  /\ at[t] = "find"
  /\ Goto(t, IF key[t] \in Exprs THEN "compile" ELSE "ask")
  /\ UNCHANGED <<table, store, lock, key, got, seen, sorting, calls, compiles>>

\* concurrent_dictionary_find.
Find(t) ==
  /\ at[t] = "find"
  /\ got' = [got EXCEPT ![t] = table[key[t]]]
  /\ Goto(t, IF table[key[t]] # NULL THEN "done"
             ELSE IF key[t] \in Exprs THEN "compile" ELSE "ask")
  /\ UNCHANGED <<table, store, lock, key, seen, sorting, calls, compiles>>

\* xpath_compile: the tree the thread makes is its own; there is none for a
\* malformed expression.
Compile(t) ==
  /\ at[t] = "compile"
  /\ got' = [got EXCEPT ![t] = IF key[t] \in Malformed THEN NULL ELSE t]
  /\ compiles' = [compiles EXCEPT ![t][key[t]] = @ + 1]
  /\ Goto(t, "add")
  /\ UNCHANGED <<table, store, lock, key, seen, sorting, calls>>

\* external_cache_get: a thread the cache does not know, a key it does not hold
\* and a failure of memcached all end in NULL.
Ask(t) ==
  /\ at[t] = "ask"
  /\ \/ /\ t \in Clients /\ store[key[t]] # NULL
        /\ got' = [got EXCEPT ![t] = store[key[t]]]
        /\ Goto(t, "add")
     \/ Goto(t, "lock") /\ UNCHANGED got
  /\ UNCHANGED <<table, store, lock, key, seen, sorting, calls, compiles>>

\* call_perl_function takes the processor lock, which is recursive.
LockPerl(t) ==
  /\ at[t] = "lock"
  /\ lock \in {NULL, t}
  /\ lock' = t
  /\ Goto(t, "perl")
  /\ UNCHANGED <<table, store, key, got, seen, sorting, calls, compiles>>

\* Mutants of PerlAnswers: the lock is given up although the sort around the
\* call still needs it; it is not given up.
PerlAnswers_plain(t) ==
  /\ at[t] = "perl"
  /\ \E v \in Answers : got' = [got EXCEPT ![t] = v]
  /\ lock' = NULL
  /\ Goto(t, "set")
  /\ UNCHANGED <<table, store, key, seen, sorting, calls, compiles>>

PerlAnswers_locked(t) ==
  /\ at[t] = "perl"
  /\ \E v \in Answers : got' = [got EXCEPT ![t] = v]
  /\ Goto(t, "set")
  /\ UNCHANGED <<table, store, lock, key, seen, sorting, calls, compiles>>

\* The interpreter answers and the lock is given up once.
PerlAnswers(t) ==
  /\ at[t] = "perl"
  /\ \E v \in Answers : got' = [got EXCEPT ![t] = v]
  /\ lock' = IF sorting[t] THEN t ELSE NULL
  /\ Goto(t, "set")
  /\ UNCHANGED <<table, store, key, seen, sorting, calls, compiles>>

\* external_cache_set, which may fail.
SetStore(t) ==
  /\ at[t] = "set"
  /\ \/ UNCHANGED store
     \/ t \in Clients /\ store' = [store EXCEPT ![key[t]] = got[t]]
  /\ Goto(t, "add")
  /\ UNCHANGED <<table, lock, key, got, seen, sorting, calls, compiles>>

\* Mutant of Add: the dictionary keeps the last value.
Add_replaces(t) ==
  /\ at[t] = "add"
  /\ table' = [table EXCEPT ![key[t]] = got[t]]
  /\ Goto(t, "done")
  /\ UNCHANGED <<store, lock, key, got, seen, sorting, calls, compiles>>

\* concurrent_dictionary_add: a key that is there keeps its value, and the
\* thread goes on with its own.  A NULL that is added reads as an absent key.
Add(t) ==
  /\ at[t] = "add"
  /\ table' = [table EXCEPT ![key[t]] = IF @ = NULL THEN got[t] ELSE @]
  /\ Goto(t, "done")
  /\ UNCHANGED <<store, lock, key, got, seen, sorting, calls, compiles>>

\* The value is used: the expression is evaluated, the URL written.
Return(t) ==
  /\ at[t] = "done"
  /\ Goto(t, "idle")
  /\ key' = [key EXCEPT ![t] = NULL]
  /\ got' = [got EXCEPT ![t] = NULL]
  /\ seen' = [seen EXCEPT ![t] = NULL]
  /\ UNCHANGED <<table, store, lock, sorting, calls, compiles>>

\* xpath_sort_selection holds the lock while it evaluates its keys and while it
\* sorts the tables of the processor.
BeginSort(t) ==
  /\ at[t] = "idle" /\ ~sorting[t] /\ calls[t] < MaxCalls
  /\ lock = NULL
  /\ lock' = t
  /\ sorting' = [sorting EXCEPT ![t] = TRUE]
  /\ calls' = [calls EXCEPT ![t] = @ + 1]
  /\ UNCHANGED <<table, store, at, key, got, seen, compiles>>

EndSort(t) ==
  /\ at[t] = "idle" /\ sorting[t]
  /\ lock' = NULL
  /\ sorting' = [sorting EXCEPT ![t] = FALSE]
  /\ UNCHANGED <<table, store, at, key, got, seen, calls, compiles>>

\* memcached forgets a key, or another process has set it.
StoreChanges(u) ==
  /\ \E v \in Answers \cup {NULL} : store' = [store EXCEPT ![u] = v]
  /\ UNCHANGED <<table, lock, at, key, got, seen, sorting, calls, compiles>>

Evaluate(t) ==
  \/ Find(t) \/ Compile(t) \/ Ask(t) \/ LockPerl(t) \/ PerlAnswers(t)
  \/ SetStore(t) \/ Add(t) \/ Return(t) \/ EndSort(t)

Next ==
  \/ \E t \in Threads :
       Evaluate(t) \/ BeginSort(t) \/ \E k \in Exprs \cup Urls : Begin(t, k)
  \/ \E u \in Urls : StoreChanges(u)

\* The threads are scheduled, Perl answers, and a sort comes to its end.
Spec == Init /\ [][Next]_vars /\ \A t \in Threads : WF_vars(Evaluate(t))
-----------------------------------------------------------------------------
(***************************************************************************)
(* The type invariant; whoever adds to a dictionary has something to add,  *)
(* unless the expression is malformed.                                     *)
(***************************************************************************)
TypeOK ==
  /\ \A e \in Exprs : table[e] \in Threads \cup {NULL}
  /\ \A u \in Urls : table[u] \in Answers \cup {NULL}
  /\ store \in [Urls -> Answers \cup {NULL}]
  /\ lock \in Threads \cup {NULL}
  /\ at \in [Threads -> Steps]
  /\ key \in [Threads -> Exprs \cup Urls \cup {NULL}]
  /\ \A t \in Threads : at[t] \in {"set", "add", "done"} =>
       (got[t] = NULL <=> key[t] \in Malformed)
  /\ sorting \in [Threads -> BOOLEAN]
  /\ calls \in [Threads -> 0..MaxCalls]
  /\ compiles \in [Threads -> [Exprs -> 0..MaxCalls]]

(***************************************************************************)
(* A URL settles: while threads race for a key they may use different      *)
(* answers, but once one is in the dictionary every later evaluation uses  *)
(* that one, whoever else still adds his own and whatever memcached does.  *)
(***************************************************************************)
AnswerSettles ==
  \A t \in Threads : at[t] = "done" /\ seen[t] # NULL => got[t] = seen[t]

(***************************************************************************)
(* Perl and the sort tables are only used under the processor lock, also   *)
(* when a sort key calls Perl and the lock is taken twice by one thread.   *)
(***************************************************************************)
LockIsHeld ==
  \A t \in Threads : at[t] = "perl" \/ sorting[t] => lock = t

(***************************************************************************)
(* A thread compiles a well-formed expression once: whatever the race      *)
(* between find and add, the memory of the stylesheet takes at most one    *)
(* copy for each thread (xpath.c:41-46).  A malformed one is found absent  *)
(* each time: every evaluation compiles it, and copies its text, again.    *)
(***************************************************************************)
CompiledOncePerThread ==
  \A t \in Threads, e \in Exprs \ Malformed : compiles[t][e] <= 1

(***************************************************************************)
(* Every evaluation comes to its end, so the lock is never kept.           *)
(***************************************************************************)
EvaluationReturns == \A t \in Threads : at[t] # "idle" ~> at[t] = "idle"
=============================================================================
