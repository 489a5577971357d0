----------------------------- MODULE Processors -----------------------------
(***************************************************************************)
(* The life of the library's objects and of the memory behind them:        *)
(* transform.c over allocator.c.                                           *)
(*                                                                         *)
(* Every allocation goes through one global pointer, current_allocator,    *)
(* that each entry point of the library sets before it allocates.  An      *)
(* allocator has an entry for each thread it was told of; the entry's mode *)
(* may send the thread's requests on to the allocator of the stylesheet or *)
(* to the global one, where what is cached beyond the present run is kept. *)
(* XSLTProcess wires the allocator of its output document to those two,    *)
(* and to the pool's threads, and takes the pool out of the global context *)
(* while it prepares the run on its own thread.                            *)
(***************************************************************************)
EXTENDS FiniteSets

CONSTANTS
  Apps,       \* the threads of the application; the first one calls XSLTInit
  MainApp,
  Workers,    \* the threads of the pool
  Procs,      \* the processors, TRANSFORM_CONTEXT, and their allocators
  Docs,       \* the documents with an allocator of their own
  PoolFirst,  \* the application creates the pool before its first run
  NULL

ASSUME Objects ==
  /\ MainApp \in Apps
  /\ Apps \cap Workers = {} /\ Procs \cap Docs = {}
  /\ "global" \notin Procs \cup Docs
  /\ NULL \notin Apps \cup Workers \cup Procs \cup Docs \cup {"global"}
  /\ PoolFirst \in BOOLEAN

Threads == Apps \cup Workers
Allocators == {"global"} \cup Procs \cup Docs
Modes == {"SELF", "STYLESHEET", "GLOBAL"}

VARIABLES
  current,          \* current_allocator
  alive,            \* the allocators created and not released
  entries,          \* the threads each allocator has an entry for
  mode,             \* the mode of each entry
  custom,           \* for a document of XSLTProcess: the stylesheet's allocator
  pool,             \* the pool exists
  pool_on,          \* gctx->pool is not NULL
  has_pool_memory,  \* the flag of each processor
  processors,       \* the processors XSLTNewProcessor has returned
  phase,            \* where each application thread is
  pctx,             \* the processor it is in
  out,              \* the document it makes
  saved,            \* the local variable pool of XSLTProcess
  busy,             \* the application thread each worker works for, or NULL
  section,          \* the mode a thread has asked for, "SELF" outside
  activated,        \* whether memory_allocator_activate_mode changed the mode
  cached            \* where the entries of each cache lie: urldict, expressions

memoryVars == <<current, alive, entries, mode, custom>>
poolVars == <<pool, pool_on, has_pool_memory>>
callVars == <<processors, phase, pctx, out, saved>>
threadVars == <<busy, section, activated>>
vars == <<memoryVars, poolVars, callVars, threadVars, cached>>

Phases == {"out",      \* in no call
           "build",    \* XSLTNewProcessor, past the parser
           "begun",    \* XSLTProcess, its document's allocator is set up
           "prepare",  \* variables and keys, the pool is turned off
           "turned",   \* the pool is turned on
           "wait",     \* the tasks run in the pool
           "inline"}   \* there is no pool: they run on this thread

\* XSLTInit.
Init ==
  /\ current = "global"
  /\ alive = {"global"}
  /\ entries = [m \in Allocators |-> IF m = "global" THEN {MainApp} ELSE {}]
  /\ mode = [m \in Allocators |-> [t \in Threads |-> "SELF"]]
  /\ custom = [d \in Docs |-> NULL]
  /\ pool = FALSE
  /\ pool_on = FALSE
  /\ has_pool_memory = [p \in Procs |-> FALSE]
  /\ processors = {}
  /\ phase = [a \in Apps |-> "out"]
  /\ pctx = [a \in Apps |-> NULL]
  /\ out = [a \in Apps |-> NULL]
  /\ saved = [a \in Apps |-> FALSE]
  /\ busy = [w \in Workers |-> NULL]
  /\ section = [t \in Threads |-> "SELF"]
  /\ activated = [t \in Threads |-> FALSE]
  /\ cached = [m \in {"global"} \cup Procs |-> {}]
-----------------------------------------------------------------------------
(* allocator.c.                                                            *)

\* memory_allocator_create, an entry for thread a, and set_current.
NewAllocator(m, a) ==
  /\ m \notin alive
  /\ alive' = alive \cup {m}
  /\ entries' = [entries EXCEPT ![m] = {a}]
  /\ mode' = [mode EXCEPT ![m] = [t \in Threads |-> "SELF"]]
  /\ current' = m

\* Where memory_allocator_new of thread t takes its memory from; NULL when it
\* returns NULL because of an unknown thread.
Target(t) ==
  LET m == current
      by == IF mode[m][t] = "SELF" \/ m \notin Docs \/ custom[m] = NULL THEN m
            ELSE IF mode[m][t] = "STYLESHEET" THEN custom[m] ELSE "global"
  IN IF t \in entries[m] /\ t \in entries[by] THEN by ELSE NULL

\* The thread is in code of the library that may allocate at any time.
Working(t) ==
  IF t \in Apps THEN phase[t] \in {"build", "prepare", "inline"} ELSE busy[t] # NULL

\* The application thread a thread works for.
For(t) == IF t \in Apps THEN t ELSE busy[t]

\* memory_allocator_activate_mode(m): xpath_find_expr turns to the memory of
\* the stylesheet for a new expression, xf_urlcode to the global one.
EnterSection(t, m) ==
  /\ Working(t) /\ section[t] = "SELF"
  /\ phase[For(t)] = "build" => m = "STYLESHEET"
  /\ section' = [section EXCEPT ![t] = m]
  /\ LET change == t \in entries[current] /\ mode[current][t] # m IN
       /\ activated' = [activated EXCEPT ![t] = change]
       /\ mode' = IF change THEN [mode EXCEPT ![current][t] = m] ELSE mode
  /\ UNCHANGED <<current, alive, entries, custom, poolVars, callVars, busy, cached>>

\* The cache the thread adds to: that of its processor, or the URLs.
CacheOf(t) == IF section[t] = "STYLESHEET" THEN pctx[For(t)] ELSE "global"

\* concurrent_dictionary_add, and the mode SELF again.
ExitSection(t) ==
  /\ section[t] # "SELF"
  /\ cached' = [cached EXCEPT ![CacheOf(t)] = @ \cup {Target(t)}]
  /\ section' = [section EXCEPT ![t] = "SELF"]
  /\ activated' = [activated EXCEPT ![t] = FALSE]
  /\ mode' = IF activated[t] /\ t \in entries[current]
             THEN [mode EXCEPT ![current][t] = "SELF"] ELSE mode
  /\ UNCHANGED <<current, alive, entries, custom, poolVars, callVars, busy>>
-----------------------------------------------------------------------------
(* The documents and the settings.  The application is in one call of the  *)
(* library per thread; it does not free or use again what a call still     *)
(* works on.                                                               *)

Idle(a) == phase[a] = "out" /\ "global" \in alive

Used == {pctx[a] : a \in Apps} \cup {out[a] : a \in Apps}

\* XMLCreateDocument; XMLParse and XMLParseFile of a document without errors.
CreateDocument(a, d) ==
  /\ Idle(a)
  /\ NewAllocator(d, a)
  /\ UNCHANGED <<custom, poolVars, callVars, threadVars, cached>>

\* xml_parse_string and xml_parse_file of anything else: the allocator made for
\* the document is released and stays the current one.
ParseFails(a, d) ==
  /\ Idle(a)
  /\ d \notin alive
  /\ current' = d
  /\ UNCHANGED <<alive, entries, mode, custom, poolVars, callVars, threadVars, cached>>

\* XMLFreeDocument.
FreeDocument(a, d) ==
  /\ phase[a] = "out"
  /\ d \in alive \ Used
  /\ alive' = alive \ {d}
  /\ entries' = [entries EXCEPT ![d] = {}]
  /\ custom' = [custom EXCEPT ![d] = NULL]
  /\ UNCHANGED <<current, mode, poolVars, callVars, threadVars, cached>>

\* The settings of a processor and of the global context, which are kept in
\* the memory of m: XSLTSet..., XSLTAdd..., XSLTDefineGroupRights,
\* XSLTEnableTaskGraph, XSLTEnableExternalCache.
Configure(a, m) ==
  /\ Idle(a)
  /\ m \in {"global"} \cup (processors \ Used)
  /\ current' = m
  /\ UNCHANGED <<alive, entries, mode, custom, poolVars, callVars, threadVars, cached>>
-----------------------------------------------------------------------------
(* The pool and the processors.                                            *)

\* XSLTCreateThreadPool, once; a size of zero or a failure makes no pool.
CreateThreadPool(a) ==
  /\ Idle(a) /\ ~pool
  /\ PoolFirst => /\ \A p \in Procs : ~has_pool_memory[p]
                  /\ \A b \in Apps : phase[b] \in {"out", "build"}
  /\ current' = "global"
  /\ \E made \in BOOLEAN :
       /\ pool' = made /\ pool_on' = made
       /\ entries' = IF made THEN [entries EXCEPT !["global"] = @ \cup Workers] ELSE entries
  /\ UNCHANGED <<alive, mode, custom, has_pool_memory, callVars, threadVars, cached>>

\* XSLTNewProcessor: its own allocator, and the stylesheet is parsed.
NewProcessor(a, p) ==
  /\ Idle(a)
  /\ NewAllocator(p, a)
  /\ phase' = [phase EXCEPT ![a] = "build"]
  /\ pctx' = [pctx EXCEPT ![a] = p]
  /\ UNCHANGED <<custom, poolVars, processors, out, saved, threadVars, cached>>

\* The stylesheet cannot be read: NULL is returned, the allocator is left over.
NewProcessorFails(a, p) ==
  /\ Idle(a)
  /\ NewAllocator(p, a)
  /\ UNCHANGED <<custom, poolVars, callVars, threadVars, cached>>

\* The templates are compiled, XSLTNewProcessor returns.
ProcessorBuilt(a) ==
  /\ phase[a] = "build" /\ section[a] = "SELF"
  /\ processors' = processors \cup {pctx[a]}
  /\ phase' = [phase EXCEPT ![a] = "out"]
  /\ pctx' = [pctx EXCEPT ![a] = NULL]
  /\ UNCHANGED <<memoryVars, poolVars, out, saved, threadVars, cached>>

\* XSLTFreeProcessor, with its dictionary of expressions.
FreeProcessor(a, p) ==
  /\ phase[a] = "out"
  /\ p \in processors \ Used
  /\ current' = p
  /\ alive' = alive \ {p}
  /\ entries' = [entries EXCEPT ![p] = {}]
  /\ processors' = processors \ {p}
  /\ has_pool_memory' = [has_pool_memory EXCEPT ![p] = FALSE]
  /\ cached' = [cached EXCEPT ![p] = {}]
  /\ UNCHANGED <<mode, custom, pool, pool_on, phase, pctx, out, saved, threadVars>>

\* XSLTEnd; TaskPool models how the pool is stopped.
End(a) ==
  /\ \A b \in Apps : Idle(b)
  /\ processors = {}
  /\ pool' = FALSE /\ pool_on' = FALSE
  /\ alive' = alive \ {"global"}
  /\ entries' = [entries EXCEPT !["global"] = {}]
  /\ cached' = [cached EXCEPT !["global"] = {}]
  /\ UNCHANGED <<current, mode, custom, has_pool_memory, callVars, threadVars>>
-----------------------------------------------------------------------------
(* XSLTProcess.                                                            *)

\* Mutant of ProcessBegin: the allocator of the stylesheet is not set.
ProcessBegin_plain(a, p, d) ==
  /\ Idle(a)
  /\ p \in processors \ Used
  /\ NewAllocator(d, a)
  /\ phase' = [phase EXCEPT ![a] = "begun"]
  /\ pctx' = [pctx EXCEPT ![a] = p]
  /\ out' = [out EXCEPT ![a] = d]
  /\ UNCHANGED <<custom, poolVars, processors, saved, threadVars, cached>>

\* The allocator of the output document d and its two custom allocators.
ProcessBegin(a, p, d) ==
  /\ Idle(a)
  /\ p \in processors \ Used
  /\ NewAllocator(d, a)
  /\ custom' = [custom EXCEPT ![d] = p]
  /\ phase' = [phase EXCEPT ![a] = "begun"]
  /\ pctx' = [pctx EXCEPT ![a] = p]
  /\ out' = [out EXCEPT ![a] = d]
  /\ UNCHANGED <<poolVars, processors, saved, threadVars, cached>>

\* "temporary turn off pool".
TurnOff(a) ==
  /\ phase[a] = "begun"
  /\ saved' = [saved EXCEPT ![a] = pool_on]
  /\ pool_on' = FALSE
  /\ phase' = [phase EXCEPT ![a] = "prepare"]
  /\ UNCHANGED <<memoryVars, pool, has_pool_memory, processors, pctx, out, threadVars, cached>>

\* The allocators that threadpool_set_allocator gives entries for the workers;
\* without a pool it gives none.
SetAllocator(on, given) ==
  entries' = [m \in Allocators |-> IF on /\ m \in given THEN entries[m] \cup Workers
                                                        ELSE entries[m]]

\* Mutants of TurnOn: the pool stays off; the new document, the processor of
\* the call is not given to the workers.
TurnOn_off(a) ==
  /\ phase[a] = "prepare" /\ section[a] = "SELF"
  /\ pool_on' = FALSE
  /\ SetAllocator(FALSE, {})
  /\ has_pool_memory' = [has_pool_memory EXCEPT ![pctx[a]] = TRUE]
  /\ phase' = [phase EXCEPT ![a] = "turned"]
  /\ UNCHANGED <<current, alive, mode, custom, pool, processors, pctx, out, saved,
                 threadVars, cached>>

TurnOn_document(a) ==
  /\ phase[a] = "prepare" /\ section[a] = "SELF"
  /\ pool_on' = saved[a]
  /\ SetAllocator(saved[a], {out[a]})
  /\ has_pool_memory' = [has_pool_memory EXCEPT ![pctx[a]] = TRUE]
  /\ phase' = [phase EXCEPT ![a] = "turned"]
  /\ UNCHANGED <<current, alive, mode, custom, pool, processors, pctx, out, saved,
                 threadVars, cached>>

\* "turn on pool".  The flag of the processor is set even when there is no pool.
TurnOn(a) ==
  /\ phase[a] = "prepare" /\ section[a] = "SELF"
  /\ pool_on' = saved[a]
  /\ SetAllocator(saved[a], {out[a]} \cup
                            (IF has_pool_memory[pctx[a]] THEN {} ELSE {pctx[a]}))
  /\ has_pool_memory' = [has_pool_memory EXCEPT ![pctx[a]] = TRUE]
  /\ phase' = [phase EXCEPT ![a] = "turned"]
  /\ UNCHANGED <<current, alive, mode, custom, pool, processors, pctx, out, saved,
                 threadVars, cached>>

\* template_task_run_and_wait, for a pool that refuses nobody: see TaskPool.
StartRun(a) ==
  /\ phase[a] = "turned"
  /\ phase' = [phase EXCEPT ![a] = IF pool_on THEN "wait" ELSE "inline"]
  /\ UNCHANGED <<memoryVars, poolVars, processors, pctx, out, saved, threadVars, cached>>

\* A worker takes a task of the call, and is done with it.
WorkerStarts(w, a) ==
  /\ busy[w] = NULL
  /\ phase[a] = "wait"
  /\ busy' = [busy EXCEPT ![w] = a]
  /\ UNCHANGED <<memoryVars, poolVars, callVars, section, activated, cached>>

WorkerStops(w) ==
  /\ busy[w] # NULL /\ section[w] = "SELF"
  /\ busy' = [busy EXCEPT ![w] = NULL]
  /\ UNCHANGED <<memoryVars, poolVars, callVars, section, activated, cached>>

\* XSLTProcess returns when all its tasks have (TaskPool, JoinIsComplete).
ProcessEnd(a) ==
  /\ phase[a] \in {"wait", "inline"} /\ section[a] = "SELF"
  /\ \A w \in Workers : busy[w] # a
  /\ phase' = [phase EXCEPT ![a] = "out"]
  /\ pctx' = [pctx EXCEPT ![a] = NULL]
  /\ out' = [out EXCEPT ![a] = NULL]
  /\ saved' = [saved EXCEPT ![a] = FALSE]
  /\ UNCHANGED <<memoryVars, poolVars, processors, threadVars, cached>>
-----------------------------------------------------------------------------
Next ==
  \/ \E a \in Apps :
       \/ CreateThreadPool(a) \/ ProcessorBuilt(a) \/ End(a)
       \/ TurnOff(a) \/ TurnOn(a) \/ StartRun(a) \/ ProcessEnd(a)
       \/ \E d \in Docs : CreateDocument(a, d) \/ ParseFails(a, d) \/ FreeDocument(a, d)
       \/ \E m \in {"global"} \cup Procs : Configure(a, m)
       \/ \E p \in Procs :
            \/ NewProcessor(a, p) \/ NewProcessorFails(a, p) \/ FreeProcessor(a, p)
            \/ \E d \in Docs : ProcessBegin(a, p, d)
  \/ \E w \in Workers : WorkerStops(w) \/ \E a \in Apps : WorkerStarts(w, a)
  \/ \E t \in Threads : ExitSection(t) \/ \E m \in {"STYLESHEET", "GLOBAL"} : EnterSection(t, m)

Spec == Init /\ [][Next]_vars
-----------------------------------------------------------------------------
(***************************************************************************)
(* The type invariant.  A mode other than SELF is only ever set in the     *)
(* entry of a thread that is between the two calls of                      *)
(* memory_allocator_activate_mode.                                         *)
(***************************************************************************)
TypeOK ==
  /\ current \in Allocators
  /\ alive \subseteq Allocators
  /\ entries \in [Allocators -> SUBSET Threads]
  /\ mode \in [Allocators -> [Threads -> Modes]]
  /\ \A m \in Allocators, t \in Threads : mode[m][t] # "SELF" => mode[m][t] = section[t]
  /\ custom \in [Docs -> Procs \cup {NULL}]
  /\ pool \in BOOLEAN /\ pool_on \in BOOLEAN
  /\ has_pool_memory \in [Procs -> BOOLEAN]
  /\ processors \subseteq Procs \cap alive
  /\ phase \in [Apps -> Phases]
  /\ pctx \in [Apps -> Procs \cup {NULL}]
  /\ out \in [Apps -> Docs \cup {NULL}]
  /\ saved \in [Apps -> BOOLEAN]
  /\ busy \in [Workers -> Apps \cup {NULL}]
  /\ section \in [Threads -> Modes]
  /\ activated \in [Threads -> BOOLEAN]
  /\ cached \in [{"global"} \cup Procs -> SUBSET (Allocators \cup {NULL})]

\* The memory a thread means to allocate from.
Intended(t) ==
  CASE section[t] = "GLOBAL" -> "global"
    [] section[t] = "STYLESHEET" \/ phase[For(t)] = "build" -> pctx[For(t)]
    [] OTHER -> out[For(t)]

(***************************************************************************)
(* One call at a time, pool created first: whatever a thread of the call   *)
(* allocates comes from the memory it is meant to come from, and that      *)
(* memory has not been released.  It takes the current allocator, the      *)
(* entries of the thread in two allocators, its mode and the custom        *)
(* allocators to agree, each set by a different function.                  *)
(***************************************************************************)
RightPlace ==
  \A t \in Threads : Working(t) => Target(t) = Intended(t) /\ Target(t) \in alive

(***************************************************************************)
(* What is cached outlives the run that made it: compiled expressions lie  *)
(* in memory that lives as long as their processor, URLs in memory that    *)
(* lives as long as the library, though both were made in the middle of a  *)
(* run whose document may be freed next.                                   *)
(***************************************************************************)
CachesOutliveDocuments ==
  /\ cached["global"] \subseteq alive
  /\ \A p \in processors : cached[p] \subseteq alive

(***************************************************************************)
(* "temporary turn off pool", "turn on pool": a pool that was created is   *)
(* in use again whenever no call is between the two.                       *)
(***************************************************************************)
PoolOffIsTemporary ==
  pool => pool_on \/ \E a \in Apps : phase[a] = "prepare"

(***************************************************************************)
(* memory_allocator_find_entry finds an entry for every thread that works  *)
(* in the library: its error "unknown thread", upon which                  *)
(* memory_allocator_new returns NULL to callers that do not look, is not   *)
(* met in a run.                                                           *)
(***************************************************************************)
NoUnknownThread == \A t \in Threads : Working(t) => Target(t) # NULL
=============================================================================
