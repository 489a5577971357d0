------------------------- MODULE SharedCachesProofs -------------------------
(***************************************************************************)
(* Proofs about SharedCaches, for any number of threads, keys, answers and *)
(* evaluations.                                                            *)
(*                                                                         *)
(* AnswerSettles speaks of the end of an evaluation only.  What makes it   *)
(* inductive is Settled: while an evaluation that began with a value in    *)
(* the dictionary goes on, that value stays there, and the thread is at    *)
(* the find or past it, never on the way to an answer of its own.          *)
(***************************************************************************)
EXTENDS SharedCaches, TLAPS

Keys == Exprs \cup Urls
Values == Threads \cup Answers \cup {NULL}

Types ==
  /\ table \in [Keys -> Values]
  /\ store \in [Urls -> Values]
  /\ at \in [Threads -> Steps]
  /\ key \in [Threads -> Keys \cup {NULL}]
  /\ got \in [Threads -> Values]
  /\ seen \in [Threads -> Values]
  /\ sorting \in [Threads -> BOOLEAN]

Keyed ==
  \A t \in Threads :
    /\ at[t] # "idle" => key[t] \in Keys
    /\ at[t] \in {"ask", "lock", "perl", "set"} => key[t] \in Urls

Settled ==
  \A t \in Threads :
    at[t] # "idle" /\ seen[t] # NULL =>
      at[t] \in {"find", "done"} /\ table[key[t]] = seen[t]

\* Where the dictionary and the answers stand.
CacheInv == Types /\ Keyed /\ Settled /\ AnswerSettles

(***************************************************************************)
(* A step of thread t that leaves dictionary, keys and history alone       *)
(* and moves t on its way to an answer of its own.                         *)
(***************************************************************************)
LEMMA OwnWay ==
  ASSUME CacheInv, NEW t \in Threads,
         at[t] \in {"compile", "ask", "lock", "perl", "set"},
         NEW step \in {"lock", "perl", "set", "add"},
         step # "add" => at[t] # "compile",
         at' = [at EXCEPT ![t] = step],
         got' \in [Threads -> Values],
         \A u \in Threads : u # t => got'[u] = got[u],
         UNCHANGED <<table, key, seen>>,
         store' \in [Urls -> Values],
         sorting' \in [Threads -> BOOLEAN]
  PROVE  CacheInv'
PROOF
  <1>1. /\ at'[t] = step
        /\ \A u \in Threads : u # t => at'[u] = at[u]
    BY DEF CacheInv, Types
  <1>2. Types'
    BY DEF CacheInv, Types, Steps
  <1>3. Keyed'
    BY <1>1 DEF CacheInv, Keyed
  <1>4. seen[t] = NULL
    BY DEF CacheInv, Settled
  <1>5. Settled'
    BY <1>1, <1>4 DEF CacheInv, Settled
  <1>6. AnswerSettles'
    BY <1>1, <1>4 DEF CacheInv, AnswerSettles
  <1> QED BY <1>2, <1>3, <1>5, <1>6 DEF CacheInv

(***************************************************************************)
(* The facts about dictionary, keys and answers that every step preserves. *)
(***************************************************************************)
THEOREM CacheInductive == Spec => []CacheInv
PROOF
  <1>1. Init => CacheInv
    BY DEF Init, CacheInv, Types, Keyed, Settled, AnswerSettles, Keys, Values, Steps
  <1>2. CacheInv /\ [Next]_vars => CacheInv'
    <2> SUFFICES ASSUME CacheInv, [Next]_vars PROVE CacheInv'
      OBVIOUS
    <2>1. ASSUME UNCHANGED vars PROVE CacheInv'
      BY <2>1 DEF CacheInv, Types, Keyed, Settled, AnswerSettles, vars
    <2>2. ASSUME NEW t \in Threads, NEW k \in Keys, Begin(t, k) PROVE CacheInv'
      <3>1. /\ at' = [at EXCEPT ![t] = "find"]
            /\ key' = [key EXCEPT ![t] = k]
            /\ seen' = [seen EXCEPT ![t] = table[k]]
            /\ UNCHANGED <<table, store, got, sorting>>
        BY <2>2 DEF Begin, Goto
      <3>2. table[k] \in Values
        BY DEF CacheInv, Types
      <3>3. Types'
        BY <3>1, <3>2 DEF CacheInv, Types, Steps
      <3>4. /\ at'[t] = "find" /\ key'[t] = k /\ seen'[t] = table[k]
            /\ \A u \in Threads : u # t =>
                 at'[u] = at[u] /\ key'[u] = key[u] /\ seen'[u] = seen[u]
        BY <3>1 DEF CacheInv, Types
      <3>5. Keyed'
        BY <3>4 DEF CacheInv, Keyed
      <3>6. Settled'
        BY <3>1, <3>4 DEF CacheInv, Settled
      <3>7. AnswerSettles'
        BY <3>1, <3>4 DEF CacheInv, AnswerSettles
      <3> QED BY <3>3, <3>5, <3>6, <3>7 DEF CacheInv
    <2>3. ASSUME NEW t \in Threads, Find(t) PROVE CacheInv'
      <3>1. /\ at[t] = "find"
            /\ got' = [got EXCEPT ![t] = table[key[t]]]
            /\ at' = [at EXCEPT ![t] = IF table[key[t]] # NULL THEN "done"
                        ELSE IF key[t] \in Exprs THEN "compile" ELSE "ask"]
            /\ UNCHANGED <<table, store, key, seen, sorting>>
        BY <2>3 DEF Find, Goto
      <3>2. key[t] \in Keys /\ table[key[t]] \in Values
        BY <3>1 DEF CacheInv, Keyed, Types
      <3>3. /\ at'[t] \in {"done", "compile", "ask"}
            /\ table[key[t]] # NULL => at'[t] = "done"
            /\ at'[t] = "ask" => key[t] \notin Exprs
            /\ got'[t] = table[key[t]]
            /\ \A u \in Threads : u # t => at'[u] = at[u] /\ got'[u] = got[u]
        BY <3>1 DEF CacheInv, Types
      <3>4. Types'
        BY <3>1, <3>2 DEF CacheInv, Types, Steps
      <3>5. Keyed'
        BY <3>1, <3>2, <3>3 DEF CacheInv, Keyed, Keys
      <3>6. seen[t] # NULL => table[key[t]] = seen[t]
        BY <3>1 DEF CacheInv, Settled
      <3>7. Settled'
        BY <3>1, <3>3, <3>6 DEF CacheInv, Settled
      <3>8. AnswerSettles'
        BY <3>1, <3>3, <3>6 DEF CacheInv, AnswerSettles
      <3> QED BY <3>4, <3>5, <3>7, <3>8 DEF CacheInv
    <2>4. ASSUME NEW t \in Threads, Compile(t) PROVE CacheInv'
      <3>1. got' \in [Threads -> Values] /\ \A u \in Threads : u # t => got'[u] = got[u]
        BY <2>4 DEF Compile, CacheInv, Types, Values
      <3> QED BY <2>4, <3>1, OwnWay DEF Compile, Goto, CacheInv, Types
    <2>5. ASSUME NEW t \in Threads, Ask(t) PROVE CacheInv'
      <3>1. CASE Goto(t, "lock") /\ UNCHANGED got
        BY <2>5, <3>1, OwnWay DEF Ask, Goto, CacheInv, Types
      <3>2. CASE got' = [got EXCEPT ![t] = store[key[t]]] /\ Goto(t, "add")
        <4>1. /\ got' \in [Threads -> Values]
              /\ \A u \in Threads : u # t => got'[u] = got[u]
          <5>1. key[t] \in Urls
            BY <2>5 DEF Ask, CacheInv, Keyed
          <5> QED BY <3>2, <5>1 DEF CacheInv, Types
        <4> QED BY <2>5, <3>2, <4>1, OwnWay DEF Ask, Goto, CacheInv, Types
      <3> QED BY <2>5, <3>1, <3>2 DEF Ask
    <2>6. ASSUME NEW t \in Threads, LockPerl(t) PROVE CacheInv'
      BY <2>6, OwnWay DEF LockPerl, Goto, CacheInv, Types
    <2>7. ASSUME NEW t \in Threads, PerlAnswers(t) PROVE CacheInv'
      <3>1. got' \in [Threads -> Values] /\ \A u \in Threads : u # t => got'[u] = got[u]
        BY <2>7 DEF PerlAnswers, CacheInv, Types, Values
      <3> QED BY <2>7, <3>1, OwnWay DEF PerlAnswers, Goto, CacheInv, Types
    <2>8. ASSUME NEW t \in Threads, SetStore(t) PROVE CacheInv'
      <3>1. got[t] \in Values /\ store' \in [Urls -> Values]
        BY <2>8 DEF SetStore, CacheInv, Types
      <3> QED BY <2>8, <3>1, OwnWay DEF SetStore, Goto, CacheInv, Types
    <2>9. ASSUME NEW t \in Threads, Add(t) PROVE CacheInv'
      <3>1. /\ at[t] = "add"
            /\ table' = [table EXCEPT ![key[t]] = IF @ = NULL THEN got[t] ELSE @]
            /\ at' = [at EXCEPT ![t] = "done"]
            /\ UNCHANGED <<store, key, got, seen, sorting>>
        BY <2>9 DEF Add, Goto
      <3>2. key[t] \in Keys /\ seen[t] = NULL
        BY <3>1 DEF CacheInv, Keyed, Settled
      <3>3. \A k \in Keys : table[k] # NULL => table'[k] = table[k]
        BY <3>1 DEF CacheInv, Types
      <3>4. Types'
        BY <3>1, <3>2 DEF CacheInv, Types, Steps, Values
      <3>5. at'[t] = "done" /\ \A u \in Threads : u # t => at'[u] = at[u]
        BY <3>1 DEF CacheInv, Types
      <3>6. Keyed'
        BY <3>1, <3>2, <3>5 DEF CacheInv, Keyed
      <3>7. Settled'
        BY <3>1, <3>2, <3>3, <3>5 DEF CacheInv, Settled, Keyed
      <3>8. AnswerSettles'
        BY <3>1, <3>2, <3>5 DEF CacheInv, AnswerSettles
      <3> QED BY <3>4, <3>6, <3>7, <3>8 DEF CacheInv
    <2>10. ASSUME NEW t \in Threads, Return(t) PROVE CacheInv'
      <3>1. /\ at' = [at EXCEPT ![t] = "idle"]
            /\ key' = [key EXCEPT ![t] = NULL]
            /\ got' = [got EXCEPT ![t] = NULL]
            /\ seen' = [seen EXCEPT ![t] = NULL]
            /\ UNCHANGED <<table, store, sorting>>
        BY <2>10 DEF Return, Goto
      <3>2. Types'
        BY <3>1 DEF CacheInv, Types, Steps, Values
      <3>3. /\ at'[t] = "idle" /\ seen'[t] = NULL
            /\ \A u \in Threads : u # t =>
                 at'[u] = at[u] /\ key'[u] = key[u] /\ seen'[u] = seen[u] /\ got'[u] = got[u]
        BY <3>1 DEF CacheInv, Types
      <3> QED BY <3>1, <3>2, <3>3 DEF CacheInv, Keyed, Settled, AnswerSettles
    <2>11. ASSUME NEW t \in Threads, BeginSort(t) \/ EndSort(t) PROVE CacheInv'
      BY <2>11 DEF BeginSort, EndSort, CacheInv, Types, Keyed, Settled, AnswerSettles
    <2>12. ASSUME NEW u \in Urls, StoreChanges(u) PROVE CacheInv'
      BY <2>12 DEF StoreChanges, CacheInv, Types, Keyed, Settled, AnswerSettles, Values
    <2> QED
      BY <2>1, <2>2, <2>3, <2>4, <2>5, <2>6, <2>7, <2>8, <2>9, <2>10, <2>11, <2>12
      DEF Next, Evaluate, Keys
  <1> QED BY <1>1, <1>2, PTL DEF Spec

(***************************************************************************)
(* Once an answer is in the dictionary every later evaluation uses it.     *)
(***************************************************************************)
THEOREM AnswersSettle == Spec => []AnswerSettles
  BY CacheInductive, PTL DEF CacheInv

\* Where the lock stands; Stepping is the part of the types it needs.
Stepping == at \in [Threads -> Steps] /\ sorting \in [Threads -> BOOLEAN]

LockInv == Stepping /\ LockIsHeld

(***************************************************************************)
(* Perl and the sort tables are never used by two threads at a time:       *)
(* LockIsHeld names one holder for both, and it is inductive as it stands. *)
(***************************************************************************)
THEOREM LockAlwaysHeld == Spec => []LockIsHeld
PROOF
  <1>1. Init => LockInv
    BY DEF Init, LockInv, Stepping, LockIsHeld, Steps
  <1>2. LockInv /\ [Next]_vars => LockInv'
    <2> SUFFICES ASSUME LockInv, [Next]_vars PROVE LockInv'
      OBVIOUS
    <2> USE DEF LockInv, Stepping, LockIsHeld, Steps, Goto
    <2>1. ASSUME UNCHANGED vars PROVE LockInv'
      BY <2>1 DEF vars
    <2>2. ASSUME NEW t \in Threads, NEW k \in Exprs \cup Urls, Begin(t, k) PROVE LockInv'
      BY <2>2 DEF Begin
    <2>3. ASSUME NEW t \in Threads, Find(t) PROVE LockInv'
      BY <2>3 DEF Find
    <2>4. ASSUME NEW t \in Threads, Compile(t) \/ Ask(t) \/ SetStore(t) PROVE LockInv'
      BY <2>4 DEF Compile, Ask, SetStore
    <2>5. ASSUME NEW t \in Threads, LockPerl(t) PROVE LockInv'
      BY <2>5, Evaluation DEF LockPerl
    <2>6. ASSUME NEW t \in Threads, PerlAnswers(t) PROVE LockInv'
      BY <2>6, Evaluation DEF PerlAnswers
    <2>7. ASSUME NEW t \in Threads, Add(t) \/ Return(t) PROVE LockInv'
      BY <2>7 DEF Add, Return
    <2>8. ASSUME NEW t \in Threads, BeginSort(t) PROVE LockInv'
      BY <2>8, Evaluation DEF BeginSort
    <2>9. ASSUME NEW t \in Threads, EndSort(t) PROVE LockInv'
      BY <2>9, Evaluation DEF EndSort
    <2>10. ASSUME NEW u \in Urls, StoreChanges(u) PROVE LockInv'
      BY <2>10 DEF StoreChanges
    <2> QED
      BY <2>1, <2>2, <2>3, <2>4, <2>5, <2>6, <2>7, <2>8, <2>9, <2>10 DEF Next, Evaluate
  <1> QED BY <1>1, <1>2, PTL DEF Spec, LockInv
-----------------------------------------------------------------------------
\* A thread that has compiled a well-formed expression finds it in the dictionary, or
\* is about to add it there; whoever adds has something to add, unless the expression
\* is malformed.
WellFormed == Exprs \ Malformed

Once ==
  /\ compiles \in [Threads -> [Exprs -> Nat]]
  /\ \A t \in Threads, e \in WellFormed :
       /\ compiles[t][e] \in {0, 1}
       /\ compiles[t][e] = 1 => table[e] # NULL \/ (at[t] = "add" /\ key[t] = e)
  /\ \A t \in Threads : at[t] = "compile" =>
       key[t] \in Exprs /\ (key[t] \in WellFormed => compiles[t][key[t]] = 0)
  /\ \A t \in Threads : at[t] \in {"set", "add"} /\ key[t] \notin Malformed => got[t] # NULL

(***************************************************************************)
(* A step of thread t that compiles nothing, leaves the dictionary alone   *)
(* and is neither an Add nor on its way to xpath_compile.                  *)
(***************************************************************************)
LEMMA OtherSteps ==
  ASSUME CacheInv, Once, NEW t \in Threads, NEW step \in Steps \ {"compile"},
         at[t] # "add", at' = [at EXCEPT ![t] = step],
         \A u \in Threads : u # t => got'[u] = got[u] /\ key'[u] = key[u],
         step \in {"set", "add"} /\ key'[t] \notin Malformed => got'[t] # NULL,
         UNCHANGED <<table, compiles>>
  PROVE  Once'
PROOF
  <1>1. at'[t] = step /\ \A u \in Threads : u # t => at'[u] = at[u]
    BY DEF CacheInv, Types
  <1> QED BY <1>1 DEF Once

(***************************************************************************)
(* Every step keeps the account of what was compiled (xpath.c:37).         *)
(***************************************************************************)
LEMMA OnceStep == CacheInv /\ Once /\ [Next]_vars => Once'
PROOF
  <1> SUFFICES ASSUME CacheInv, Once, [Next]_vars PROVE Once'
    OBVIOUS
  <1>1. CASE UNCHANGED vars
    BY <1>1 DEF Once, vars
  <1>2. ASSUME NEW t \in Threads, NEW k \in Keys, Begin(t, k) PROVE Once'
    <2>1. \A u \in Threads : u # t => got'[u] = got[u] /\ key'[u] = key[u]
      BY <1>2 DEF Begin, CacheInv, Types
    <2> QED BY <1>2, <2>1, OtherSteps DEF Begin, Goto, Steps
  <1>3. ASSUME NEW t \in Threads, Find(t) PROVE Once'
    <2>1. \A u \in Threads : u # t => got'[u] = got[u] /\ key'[u] = key[u]
      BY <1>3 DEF Find, CacheInv, Types
    <2>2. CASE table[key[t]] = NULL /\ key[t] \in Exprs
      <3>1. /\ at[t] = "find" /\ at' = [at EXCEPT ![t] = "compile"]
            /\ UNCHANGED <<table, key, compiles>>
        BY <1>3, <2>2 DEF Find, Goto
      <3>2. key[t] \in WellFormed => compiles[t][key[t]] = 0
        BY <2>2, <3>1 DEF Once
      <3>3. at'[t] = "compile" /\ \A u \in Threads : u # t => at'[u] = at[u]
        BY <3>1 DEF CacheInv, Types
      <3> QED BY <2>1, <2>2, <3>1, <3>2, <3>3 DEF Once
    <2>3. CASE ~(table[key[t]] = NULL /\ key[t] \in Exprs)
      <3>1. PICK step \in {"done", "ask"} : at' = [at EXCEPT ![t] = step]
        BY <1>3, <2>3 DEF Find, Goto
      <3> QED BY <1>3, <2>1, <3>1, OtherSteps DEF Find, Steps
    <2> QED BY <2>2, <2>3
  <1>4. ASSUME NEW t \in Threads, Compile(t) PROVE Once'
    <2>1. /\ at[t] = "compile" /\ at' = [at EXCEPT ![t] = "add"]
          /\ got' = [got EXCEPT ![t] = IF key[t] \in Malformed THEN NULL ELSE t]
          /\ compiles' = [compiles EXCEPT ![t][key[t]] = @ + 1]
          /\ UNCHANGED <<table, key>>
      BY <1>4 DEF Compile, Goto
    <2>2. key[t] \in Exprs /\ (key[t] \in WellFormed => compiles[t][key[t]] = 0)
      BY <2>1 DEF Once
    <2>3. /\ compiles' \in [Threads -> [Exprs -> Nat]]
          /\ key[t] \in WellFormed => compiles'[t][key[t]] = 1
          /\ \A u \in Threads, e \in Exprs :
                u # t \/ e # key[t] => compiles'[u][e] = compiles[u][e]
      BY <2>1, <2>2 DEF Once
    <2>5. /\ at'[t] = "add" /\ (key[t] \notin Malformed => got'[t] # NULL)
          /\ \A u \in Threads : u # t => at'[u] = at[u] /\ got'[u] = got[u]
      BY <2>1, Evaluation DEF CacheInv, Types
    <2>6. \A u \in Threads, e \in WellFormed :
             /\ compiles'[u][e] \in {0, 1}
             /\ compiles'[u][e] = 1 => table'[e] # NULL \/ (at'[u] = "add" /\ key'[u] = e)
      BY <2>1, <2>3, <2>5 DEF Once, WellFormed
    <2>7. \A u \in Threads : at'[u] = "compile" =>
             key'[u] \in Exprs /\ (key'[u] \in WellFormed => compiles'[u][key'[u]] = 0)
      BY <2>1, <2>3, <2>5 DEF Once, WellFormed
    <2>8. \A u \in Threads :
             at'[u] \in {"set", "add"} /\ key'[u] \notin Malformed => got'[u] # NULL
      BY <2>1, <2>5 DEF Once
    <2> QED BY <2>3, <2>6, <2>7, <2>8 DEF Once
  <1>5. ASSUME NEW t \in Threads, Ask(t) PROVE Once'
    <2>1. \A u \in Threads : u # t => got'[u] = got[u] /\ key'[u] = key[u]
      BY <1>5 DEF Ask, CacheInv, Types
    <2>2. PICK step \in {"add", "lock"} :
             at' = [at EXCEPT ![t] = step] /\ (step = "add" => got'[t] # NULL)
      BY <1>5 DEF Ask, Goto, CacheInv, Types
    <2> QED BY <1>5, <2>1, <2>2, OtherSteps DEF Ask, Steps
  <1>6. ASSUME NEW t \in Threads, LockPerl(t) PROVE Once'
    BY <1>6, OtherSteps DEF LockPerl, Goto, Steps
  <1>7. ASSUME NEW t \in Threads, PerlAnswers(t) PROVE Once'
    <2>1. got'[t] # NULL /\ \A u \in Threads : u # t => got'[u] = got[u] /\ key'[u] = key[u]
      BY <1>7, Evaluation DEF PerlAnswers, CacheInv, Types
    <2> QED BY <1>7, <2>1, OtherSteps DEF PerlAnswers, Goto, Steps
  <1>8. ASSUME NEW t \in Threads, SetStore(t) PROVE Once'
    <2>1. key[t] \notin Malformed => got[t] # NULL
      BY <1>8 DEF SetStore, Once
    <2> QED BY <1>8, <2>1, OtherSteps DEF SetStore, Goto, Steps
  <1>9. ASSUME NEW t \in Threads, Add(t) PROVE Once'
    <2>1. /\ at[t] = "add" /\ at' = [at EXCEPT ![t] = "done"]
          /\ table' = [table EXCEPT ![key[t]] = IF @ = NULL THEN got[t] ELSE @]
          /\ UNCHANGED <<key, got, compiles>>
      BY <1>9 DEF Add, Goto
    <2>2. key[t] \in Keys /\ (key[t] \notin Malformed => got[t] # NULL)
      BY <2>1 DEF Once, CacheInv, Keyed
    <2>3. /\ key[t] \notin Malformed => table'[key[t]] # NULL
          /\ \A k \in Keys : table[k] # NULL => table'[k] # NULL
      BY <2>1, <2>2 DEF CacheInv, Types
    <2>4. at'[t] = "done" /\ \A u \in Threads : u # t => at'[u] = at[u]
      BY <2>1 DEF CacheInv, Types
    <2>5. \A u \in Threads, e \in WellFormed :
             compiles'[u][e] = 1 => table'[e] # NULL \/ (at'[u] = "add" /\ key'[u] = e)
      BY <2>1, <2>3, <2>4 DEF Once, Keys, WellFormed
    <2> QED BY <2>1, <2>4, <2>5 DEF Once
  <1>10. ASSUME NEW t \in Threads, Return(t) PROVE Once'
    <2>1. \A u \in Threads : u # t => got'[u] = got[u] /\ key'[u] = key[u]
      BY <1>10 DEF Return, CacheInv, Types
    <2> QED BY <1>10, <2>1, OtherSteps DEF Return, Goto, Steps
  <1>11. ASSUME NEW t \in Threads, EndSort(t) \/ BeginSort(t) PROVE Once'
    BY <1>11 DEF EndSort, BeginSort, Once
  <1>12. ASSUME NEW u \in Urls, StoreChanges(u) PROVE Once'
    BY <1>12 DEF StoreChanges, Once
  <1> QED
    BY <1>1, <1>2, <1>3, <1>4, <1>5, <1>6, <1>7, <1>8, <1>9, <1>10, <1>11, <1>12
       DEF Next, Evaluate, Keys

(***************************************************************************)
(* However many threads race between find and add of one well-formed       *)
(* expression, none of them compiles it a second time (xpath.c:41-46).     *)
(***************************************************************************)
THEOREM NeverCompiledTwice == Spec => []CompiledOncePerThread
PROOF
  <1>1. Init => Once
    BY DEF Init, Once, WellFormed
  <1>2. Once => CompiledOncePerThread
    <2> SUFFICES ASSUME Once, NEW t \in Threads, NEW e \in WellFormed
                 PROVE  compiles[t][e] <= 1
      BY DEF CompiledOncePerThread, WellFormed
    <2> QED BY DEF Once
  <1> QED BY <1>1, <1>2, OnceStep, CacheInductive, PTL DEF Spec
=============================================================================
