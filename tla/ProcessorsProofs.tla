-------------------------- MODULE ProcessorsProofs --------------------------
(***************************************************************************)
(* Proofs about Processors, for any number of workers, processors and      *)
(* documents, where one thread of the application calls the library and    *)
(* creates the pool before its first run.  With two threads the properties *)
(* fail, as the run Overlap shows of the last one.                         *)
(*                                                                         *)
(* RightPlace speaks of one moment; what makes it inductive is what each   *)
(* stage of a call has prepared for the next one, spread over the current  *)
(* allocator, the entries of three allocators and the modes of the         *)
(* threads: Stages, Modal, Entered and Pooled below.                       *)
(***************************************************************************)
EXTENDS Processors, TLAPS

\* The hypotheses of the theorems of this module.
OneCall == Apps = {MainApp} /\ PoolFirst = TRUE

Stage == phase[MainApp]

InProcess == Stage \in {"begun", "prepare", "turned", "wait", "inline"}

\* What the call of the application has set up at each of its stages.
Stages ==
  /\ Stage = "out" => pctx[MainApp] = NULL
  /\ Stage \in {"out", "build"} => out[MainApp] = NULL
  /\ Stage # "out" => "global" \in alive
  /\ Stage = "build" => pctx[MainApp] \in Procs \cap alive /\ current = pctx[MainApp]
  /\ InProcess => /\ pctx[MainApp] \in processors
                  /\ out[MainApp] \in Docs \cap alive
                  /\ current = out[MainApp]
                  /\ custom[out[MainApp]] = pctx[MainApp]

\* A thread is between the two calls of memory_allocator_activate_mode while it
\* works, and its mode differs in the entry of the current allocator only.
Modal ==
  /\ \A m \in Allocators, t \in Threads : mode[m][t] # "SELF" => m = current
  /\ \A t \in Threads : section[t] # "SELF" =>
       Working(t) /\ activated[t] /\ mode[current][t] = section[t]
  /\ Stage = "build" => section[MainApp] # "GLOBAL"

\* The thread that created an allocator has an entry in it.
Entered == \A m \in alive : MainApp \in entries[m]

\* The workers have an entry in whatever a run in the pool may allocate from.
Pooled ==
  /\ \A p \in Procs : has_pool_memory[p] => p \in processors
  /\ pool => /\ Workers \subseteq entries["global"]
             /\ \A p \in Procs : has_pool_memory[p] => Workers \subseteq entries[p]
             /\ Stage \in {"turned", "wait", "inline"} =>
                  Workers \subseteq entries[pctx[MainApp]] \cap entries[out[MainApp]]

\* Who works for the call, and whether the pool is on.
Switched ==
  /\ \A w \in Workers : busy[w] # NULL => busy[w] = MainApp /\ Stage = "wait"
  /\ pool_on <=> pool /\ Stage # "prepare"
  /\ Stage = "prepare" => (saved[MainApp] <=> pool)
  /\ Stage = "wait" => pool

\* What is cached was taken from the memory of the cache.
CachedAtHome ==
  /\ \A m \in {"global"} \cup Procs : cached[m] \subseteq {m}
  /\ cached["global"] # {} => "global" \in alive

IInv == /\ TypeOK /\ Stages /\ Modal /\ Entered /\ Pooled /\ Switched /\ CachedAtHome

-----------------------------------------------------------------------------
(***************************************************************************)
(* memory_allocator_new of a thread at work: the current allocator knows   *)
(* the thread, and the one its mode sends it to knows it too.              *)
(***************************************************************************)
LEMMA Allocates ==
  ASSUME OneCall, IInv, NEW t \in Threads, Working(t)
  PROVE  /\ Target(t) = Intended(t)
         /\ Target(t) \in alive
         /\ section[t] # "SELF" => Target(t) = CacheOf(t)
PROOF
  <1> USE DEF OneCall
  <1>1. For(t) = MainApp /\ (t \in Apps => t = MainApp) /\ (t \notin Apps => t \in Workers)
    BY Objects DEF For, Working, IInv, Switched, Threads
  <1>2. CASE Stage = "build"
    <2>1. t = MainApp
      BY <1>1, <1>2 DEF Working, IInv, Switched, Stage
    <2>2. current \in Procs \cap alive /\ current \notin Docs /\ t \in entries[current]
      BY <1>2, <2>1, Objects DEF IInv, Stages, Entered
    <2>3. Target(t) = current
      BY <2>2 DEF Target
    <2>4. section[t] \in {"SELF", "STYLESHEET"}
      BY <1>2, <2>1 DEF IInv, Modal, TypeOK, Modes
    <2>5. Intended(t) = current /\ pctx[MainApp] = current
      BY <1>1, <1>2, <2>4 DEF Intended, IInv, Stages, Stage
    <2> QED BY <1>1, <2>2, <2>3, <2>4, <2>5 DEF CacheOf
  <1>3. CASE Stage # "build"
    <2>1. Stage \in {"prepare", "wait", "inline"}
      BY <1>1, <1>3 DEF Working, IInv, Switched, Stage
    <2> DEFINE p == pctx[MainApp]
               d == out[MainApp]
    <2>2. /\ p \in processors /\ p \in alive /\ p \in Procs /\ d \in Docs /\ d \in alive
          /\ "global" \in alive /\ current = d /\ custom[d] = p /\ p # NULL
      BY <2>1, Objects DEF IInv, Stages, InProcess, TypeOK
    <2>3. t \in entries[d] /\ t \in entries[p] /\ t \in entries["global"]
      <3>1. CASE t = MainApp
        BY <2>2, <3>1 DEF IInv, Entered
      <3>2. CASE t \in Workers
        <4>1. Stage = "wait" /\ pool
          BY <1>1, <3>2, Objects DEF Working, IInv, Switched
        <4> QED BY <3>2, <4>1 DEF IInv, Pooled
      <3> QED BY <1>1, <3>1, <3>2
    <2>4. mode[d][t] = section[t] /\ section[t] \in Modes
      BY <2>2 DEF IInv, TypeOK, Modal, Allocators, Modes
    <2>5. CASE section[t] = "SELF"
      BY <1>1, <1>3, <2>2, <2>3, <2>4, <2>5 DEF Target, Intended, Stage
    <2>6. CASE section[t] = "STYLESHEET"
      BY <1>1, <2>2, <2>3, <2>4, <2>6 DEF Target, Intended, CacheOf
    <2>7. CASE section[t] = "GLOBAL"
      BY <1>1, <1>3, <2>2, <2>3, <2>4, <2>7 DEF Target, Intended, CacheOf, Stage
    <2> QED BY <2>4, <2>5, <2>6, <2>7 DEF Modes
  <1> QED BY <1>2, <1>3

(***************************************************************************)
(* Between two calls of the library no thread works and no mode is set, so *)
(* that the current allocator may change.                                  *)
(***************************************************************************)
LEMMA Quiet ==
  ASSUME OneCall, IInv, Stage = "out"
  PROVE  /\ \A t \in Threads : section[t] = "SELF"
         /\ \A m \in Allocators, t \in Threads : mode[m][t] = "SELF"
         /\ \A w \in Workers : busy[w] = NULL
         /\ Used = {NULL}
PROOF
  <1>1. \A w \in Workers : busy[w] = NULL
    BY DEF IInv, Switched
  <1>2. \A t \in Threads : ~Working(t)
    BY <1>1 DEF Working, OneCall, Stage, Threads
  <1>3. \A t \in Threads : section[t] = "SELF"
    BY <1>2 DEF IInv, Modal
  <1>4. \A m \in Allocators, t \in Threads : mode[m][t] = "SELF"
    BY <1>3 DEF IInv, TypeOK
  <1>5. Used = {NULL}
    BY DEF Used, OneCall, IInv, Stages
  <1> QED BY <1>1, <1>3, <1>4, <1>5

(***************************************************************************)
(* memory_allocator_create and the entry of the caller: the modes of the   *)
(* new allocator are as those of all the others.                           *)
(***************************************************************************)
LEMMA Created ==
  ASSUME OneCall, IInv, Stage = "out", NEW m \in Procs \cup Docs, NewAllocator(m, MainApp)
  PROVE  /\ m \in Allocators /\ m \notin alive /\ m \notin processors
         /\ current' = m /\ alive' = alive \cup {m} /\ mode' = mode
         /\ entries' \in [Allocators -> SUBSET Threads]
         /\ entries'[m] = {MainApp}
         /\ \A n \in Allocators : n # m => entries'[n] = entries[n]
         /\ entries'["global"] = entries["global"]
         /\ \A p \in Procs : has_pool_memory[p] => entries'[p] = entries[p]
PROOF
  <1>1. \A t \in Threads : mode[m][t] = "SELF"
    BY Quiet DEF Allocators
  <1>2. mode' = mode
    BY <1>1 DEF NewAllocator, IInv, TypeOK, Allocators
  <1>3. MainApp \in Threads
    BY Objects DEF Threads
  <1>4. /\ m \in Allocators /\ m \notin alive /\ m \notin processors
        /\ current' = m /\ alive' = alive \cup {m}
        /\ entries' \in [Allocators -> SUBSET Threads]
        /\ entries'[m] = {MainApp}
        /\ \A n \in Allocators : n # m => entries'[n] = entries[n]
    BY <1>3 DEF NewAllocator, IInv, TypeOK, Allocators
  <1>5. m # "global" /\ "global" \in Allocators
    BY Objects DEF Allocators
  <1>6. \A p \in Procs : has_pool_memory[p] => p # m /\ p \in Allocators
    BY <1>4 DEF IInv, Pooled, Allocators
  <1> QED BY <1>2, <1>4, <1>5, <1>6

(***************************************************************************)
(* Between two calls of the library, each step of the application that     *)
(* begins a call or is a whole one.                                        *)
(***************************************************************************)
OutsideStep ==
  \/ CreateThreadPool(MainApp) \/ End(MainApp)
  \/ \E d \in Docs : \/ CreateDocument(MainApp, d) \/ ParseFails(MainApp, d)
                     \/ FreeDocument(MainApp, d)
  \/ \E m \in {"global"} \cup Procs : Configure(MainApp, m)
  \/ \E p \in Procs :
       \/ NewProcessor(MainApp, p) \/ NewProcessorFails(MainApp, p) \/ FreeProcessor(MainApp, p)
       \/ \E d \in Docs : ProcessBegin(MainApp, p, d)

LEMMA OutsideSteps ==
  ASSUME OneCall, IInv, OutsideStep
  PROVE  IInv'
PROOF
  <1> USE DEF OneCall
  <1>1. Stage = "out" /\ UNCHANGED <<saved, threadVars>>
    BY DEF OutsideStep, Stage, Idle, CreateThreadPool, End, CreateDocument, ParseFails,
           FreeDocument, Configure, NewProcessor, NewProcessorFails, FreeProcessor,
           ProcessBegin, callVars
  <1>2. /\ \A t \in Threads : section[t] = "SELF"
        /\ \A m \in Allocators, t \in Threads : mode[m][t] = "SELF"
        /\ \A w \in Workers : busy[w] = NULL
        /\ Used = {NULL}
    BY <1>1, Quiet
  <1>3. ASSUME NEW d \in Docs, CreateDocument(MainApp, d) PROVE IInv'
    <2> USE DEF CreateDocument, memoryVars, poolVars, callVars, threadVars
    <2>0. /\ d \in Allocators /\ d \notin alive /\ d \notin processors
          /\ current' = d /\ alive' = alive \cup {d} /\ mode' = mode
          /\ entries' \in [Allocators -> SUBSET Threads]
          /\ entries'[d] = {MainApp}
          /\ \A n \in Allocators : n # d => entries'[n] = entries[n]
          /\ entries'["global"] = entries["global"]
          /\ \A q \in Procs : has_pool_memory[q] => entries'[q] = entries[q]
      BY <1>1, <1>3, Created
    <2>1. TypeOK'
      BY <1>1, <1>2, <2>0, <1>3, Objects DEF IInv, TypeOK, Phases, Modes, Allocators, Threads
    <2>2. Stages'
      BY <1>1, <1>2, <2>0, <1>3, Objects DEF IInv, Stages, InProcess, Stage, TypeOK
    <2>3. Modal'
      BY <1>1, <1>2, <2>0, <1>3, Objects DEF IInv, Modal, Stage, TypeOK, Working
    <2>4. Entered'
      BY <1>1, <1>2, <2>0, <1>3, Objects DEF IInv, Entered, TypeOK
    <2>5. Pooled'
      BY <1>1, <1>3, <2>0 DEF IInv, Pooled, Stage
    <2>6. Switched'
      BY <1>1, <1>2, <2>0, <1>3, Objects DEF IInv, Switched, Stage, TypeOK
    <2>7. CachedAtHome'
      BY <1>1, <1>2, <2>0, <1>3, Objects DEF IInv, CachedAtHome, TypeOK
    <2> QED BY <2>1, <2>2, <2>3, <2>4, <2>5, <2>6, <2>7 DEF IInv
  <1>4. ASSUME NEW d \in Docs, ParseFails(MainApp, d) PROVE IInv'
    <2> USE DEF ParseFails, memoryVars, poolVars, callVars, threadVars
    <2>1. TypeOK'
      BY <1>1, <1>2, <1>4, Objects DEF IInv, TypeOK, Phases, Modes, Allocators, Threads
    <2>2. Stages'
      BY <1>1, <1>2, <1>4, Objects DEF IInv, Stages, InProcess, Stage, TypeOK
    <2>3. Modal'
      BY <1>1, <1>2, <1>4, Objects DEF IInv, Modal, Stage, TypeOK, Working
    <2>4. Entered'
      BY <1>1, <1>2, <1>4, Objects DEF IInv, Entered, TypeOK
    <2>5. Pooled'
      BY <1>1, <1>2, <1>4, Objects DEF IInv, Pooled, Stage, Stages, InProcess, TypeOK, Allocators
    <2>6. Switched'
      BY <1>1, <1>2, <1>4, Objects DEF IInv, Switched, Stage, TypeOK
    <2>7. CachedAtHome'
      BY <1>1, <1>2, <1>4, Objects DEF IInv, CachedAtHome, TypeOK
    <2> QED BY <2>1, <2>2, <2>3, <2>4, <2>5, <2>6, <2>7 DEF IInv
  <1>5. ASSUME NEW d \in Docs, FreeDocument(MainApp, d) PROVE IInv'
    <2> USE DEF FreeDocument, memoryVars, poolVars, callVars, threadVars
    <2>1. TypeOK'
      BY <1>1, <1>2, <1>5, Objects DEF IInv, TypeOK, Phases, Modes, Allocators, Threads
    <2>2. Stages'
      BY <1>1, <1>2, <1>5, Objects DEF IInv, Stages, InProcess, Stage, TypeOK
    <2>3. Modal'
      BY <1>1, <1>2, <1>5, Objects DEF IInv, Modal, Stage, TypeOK, Working
    <2>4. Entered'
      BY <1>1, <1>2, <1>5, Objects DEF IInv, Entered, TypeOK
    <2>5. Pooled'
      BY <1>1, <1>2, <1>5, Objects DEF IInv, Pooled, Stage, Stages, InProcess, TypeOK, Allocators
    <2>6. Switched'
      BY <1>1, <1>2, <1>5, Objects DEF IInv, Switched, Stage, TypeOK
    <2>7. CachedAtHome'
      BY <1>1, <1>2, <1>5, Objects DEF IInv, CachedAtHome, TypeOK
    <2> QED BY <2>1, <2>2, <2>3, <2>4, <2>5, <2>6, <2>7 DEF IInv
  <1>6. ASSUME NEW m \in {"global"} \cup Procs, Configure(MainApp, m) PROVE IInv'
    <2> USE DEF Configure, memoryVars, poolVars, callVars, threadVars
    <2>1. TypeOK'
      BY <1>1, <1>2, <1>6, Objects DEF IInv, TypeOK, Phases, Modes, Allocators, Threads
    <2>2. Stages'
      BY <1>1, <1>2, <1>6, Objects DEF IInv, Stages, InProcess, Stage, TypeOK
    <2>3. Modal'
      BY <1>1, <1>2, <1>6, Objects DEF IInv, Modal, Stage, TypeOK, Working
    <2>4. Entered'
      BY <1>1, <1>2, <1>6, Objects DEF IInv, Entered, TypeOK
    <2>5. Pooled'
      BY <1>1, <1>2, <1>6, Objects DEF IInv, Pooled, Stage, Stages, InProcess, TypeOK, Allocators
    <2>6. Switched'
      BY <1>1, <1>2, <1>6, Objects DEF IInv, Switched, Stage, TypeOK
    <2>7. CachedAtHome'
      BY <1>1, <1>2, <1>6, Objects DEF IInv, CachedAtHome, TypeOK
    <2> QED BY <2>1, <2>2, <2>3, <2>4, <2>5, <2>6, <2>7 DEF IInv
  <1>7. ASSUME CreateThreadPool(MainApp) PROVE IInv'
    <2> USE DEF CreateThreadPool, memoryVars, poolVars, callVars, threadVars
    <2>1. TypeOK'
      BY <1>1, <1>2, <1>7, Objects DEF IInv, TypeOK, Phases, Modes, Allocators, Threads
    <2>2. Stages'
      BY <1>1, <1>2, <1>7, Objects DEF IInv, Stages, InProcess, Stage, TypeOK
    <2>3. Modal'
      BY <1>1, <1>2, <1>7, Objects DEF IInv, Modal, Stage, TypeOK, Working
    <2>4. Entered'
      BY <1>1, <1>2, <1>7, Objects DEF IInv, Entered, TypeOK
    <2>5. Pooled'
      BY <1>1, <1>2, <1>7, Objects DEF IInv, Pooled, Stage, Stages, InProcess, TypeOK, Allocators
    <2>6. Switched'
      BY <1>1, <1>2, <1>7, Objects DEF IInv, Switched, Stage, TypeOK
    <2>7. CachedAtHome'
      BY <1>1, <1>2, <1>7, Objects DEF IInv, CachedAtHome, TypeOK
    <2> QED BY <2>1, <2>2, <2>3, <2>4, <2>5, <2>6, <2>7 DEF IInv
  <1>8. ASSUME NEW p \in Procs, NewProcessor(MainApp, p) PROVE IInv'
    <2> USE DEF NewProcessor, memoryVars, poolVars, callVars, threadVars
    <2>0. /\ p \in Allocators /\ p \notin alive /\ p \notin processors
          /\ current' = p /\ alive' = alive \cup {p} /\ mode' = mode
          /\ entries' \in [Allocators -> SUBSET Threads]
          /\ entries'[p] = {MainApp}
          /\ \A n \in Allocators : n # p => entries'[n] = entries[n]
          /\ entries'["global"] = entries["global"]
          /\ \A q \in Procs : has_pool_memory[q] => entries'[q] = entries[q]
      BY <1>1, <1>8, Created
    <2>1. TypeOK'
      BY <1>1, <1>2, <2>0, <1>8, Objects DEF IInv, TypeOK, Phases, Modes, Allocators, Threads
    <2>2. Stages'
      <3>1. /\ pctx'[MainApp] = p /\ Stage' = "build" /\ "global" \in alive
            /\ out'[MainApp] = NULL
        BY <1>1, <1>8, Objects DEF IInv, TypeOK, Stages, Stage, Idle
      <3> QED BY <2>0, <3>1 DEF Stages, InProcess
    <2>3. Modal'
      BY <1>1, <1>2, <2>0, <1>8, Objects DEF IInv, Modal, Stage, TypeOK, Working
    <2>4. Entered'
      BY <1>1, <1>2, <2>0, <1>8, Objects DEF IInv, Entered, TypeOK
    <2>5. Pooled'
      <3>1. Stage' = "build"
        BY <1>8, Objects DEF IInv, TypeOK, Stage
      <3> QED BY <1>8, <2>0, <3>1 DEF IInv, Pooled
    <2>6. Switched'
      BY <1>1, <1>2, <2>0, <1>8, Objects DEF IInv, Switched, Stage, TypeOK
    <2>7. CachedAtHome'
      BY <1>1, <1>2, <2>0, <1>8, Objects DEF IInv, CachedAtHome, TypeOK
    <2> QED BY <2>1, <2>2, <2>3, <2>4, <2>5, <2>6, <2>7 DEF IInv
  <1>9. ASSUME NEW p \in Procs, NewProcessorFails(MainApp, p) PROVE IInv'
    <2> USE DEF NewProcessorFails, memoryVars, poolVars, callVars, threadVars
    <2>0. /\ p \in Allocators /\ p \notin alive /\ p \notin processors
          /\ current' = p /\ alive' = alive \cup {p} /\ mode' = mode
          /\ entries' \in [Allocators -> SUBSET Threads]
          /\ entries'[p] = {MainApp}
          /\ \A n \in Allocators : n # p => entries'[n] = entries[n]
          /\ entries'["global"] = entries["global"]
          /\ \A q \in Procs : has_pool_memory[q] => entries'[q] = entries[q]
      BY <1>1, <1>9, Created
    <2>1. TypeOK'
      BY <1>1, <1>2, <2>0, <1>9, Objects DEF IInv, TypeOK, Phases, Modes, Allocators, Threads
    <2>2. Stages'
      BY <1>1, <1>2, <2>0, <1>9, Objects DEF IInv, Stages, InProcess, Stage, TypeOK
    <2>3. Modal'
      BY <1>1, <1>2, <2>0, <1>9, Objects DEF IInv, Modal, Stage, TypeOK, Working
    <2>4. Entered'
      BY <1>1, <1>2, <2>0, <1>9, Objects DEF IInv, Entered, TypeOK
    <2>5. Pooled'
      BY <1>1, <1>9, <2>0 DEF IInv, Pooled, Stage
    <2>6. Switched'
      BY <1>1, <1>2, <2>0, <1>9, Objects DEF IInv, Switched, Stage, TypeOK
    <2>7. CachedAtHome'
      BY <1>1, <1>2, <2>0, <1>9, Objects DEF IInv, CachedAtHome, TypeOK
    <2> QED BY <2>1, <2>2, <2>3, <2>4, <2>5, <2>6, <2>7 DEF IInv
  <1>10. ASSUME NEW p \in Procs, FreeProcessor(MainApp, p) PROVE IInv'
    <2> USE DEF FreeProcessor, memoryVars, poolVars, callVars, threadVars
    <2>1. TypeOK'
      <3>1. /\ entries' \in [Allocators -> SUBSET Threads]
            /\ has_pool_memory' \in [Procs -> BOOLEAN]
            /\ cached' \in [{"global"} \cup Procs -> SUBSET (Allocators \cup {NULL})]
        BY <1>10 DEF IInv, TypeOK, Allocators
      <3>2. current' \in Allocators /\ alive' \subseteq Allocators /\ processors' \subseteq Procs \cap alive'
        BY <1>10 DEF IInv, TypeOK, Allocators
      <3> QED BY <1>1, <1>10, <3>1, <3>2 DEF IInv, TypeOK
    <2>2. Stages'
      BY <1>1, <1>2, <1>10, Objects DEF IInv, Stages, InProcess, Stage, TypeOK
    <2>3. Modal'
      BY <1>1, <1>2, <1>10, Objects DEF IInv, Modal, Stage, TypeOK, Working
    <2>4. Entered'
      BY <1>1, <1>2, <1>10, Objects DEF IInv, Entered, TypeOK
    <2>5. Pooled'
      BY <1>1, <1>2, <1>10, Objects DEF IInv, Pooled, Stage, Stages, InProcess, TypeOK, Allocators
    <2>6. Switched'
      BY <1>1, <1>2, <1>10, Objects DEF IInv, Switched, Stage, TypeOK
    <2>7. CachedAtHome'
      BY <1>1, <1>2, <1>10, Objects DEF IInv, CachedAtHome, TypeOK
    <2> QED BY <2>1, <2>2, <2>3, <2>4, <2>5, <2>6, <2>7 DEF IInv
  <1>11. ASSUME End(MainApp) PROVE IInv'
    <2> USE DEF End, memoryVars, poolVars, callVars, threadVars
    <2>1. TypeOK'
      <3>1. /\ entries' \in [Allocators -> SUBSET Threads]
            /\ cached' \in [{"global"} \cup Procs -> SUBSET (Allocators \cup {NULL})]
        BY <1>11 DEF IInv, TypeOK, Allocators
      <3>2. alive' \subseteq Allocators /\ processors' \subseteq Procs \cap alive'
        BY <1>11 DEF IInv, TypeOK
      <3> QED BY <1>1, <1>11, <3>1, <3>2 DEF IInv, TypeOK
    <2>2. Stages'
      BY <1>1, <1>2, <1>11, Objects DEF IInv, Stages, InProcess, Stage, TypeOK
    <2>3. Modal'
      BY <1>1, <1>2, <1>11, Objects DEF IInv, Modal, Stage, TypeOK, Working
    <2>4. Entered'
      BY <1>1, <1>2, <1>11, Objects DEF IInv, Entered, TypeOK
    <2>5. Pooled'
      BY <1>1, <1>2, <1>11, Objects DEF IInv, Pooled, Stage, Stages, InProcess, TypeOK, Allocators
    <2>6. Switched'
      BY <1>1, <1>2, <1>11, Objects DEF IInv, Switched, Stage, TypeOK
    <2>7. CachedAtHome'
      BY <1>1, <1>2, <1>11, Objects DEF IInv, CachedAtHome, TypeOK
    <2> QED BY <2>1, <2>2, <2>3, <2>4, <2>5, <2>6, <2>7 DEF IInv
  <1>12. ASSUME NEW p \in Procs, NEW d \in Docs, ProcessBegin(MainApp, p, d) PROVE IInv'
    <2> USE DEF ProcessBegin, memoryVars, poolVars, callVars, threadVars
    <2>0. /\ d \in Allocators /\ d \notin alive /\ d \notin processors
          /\ current' = d /\ alive' = alive \cup {d} /\ mode' = mode
          /\ entries' \in [Allocators -> SUBSET Threads]
          /\ entries'[d] = {MainApp}
          /\ \A n \in Allocators : n # d => entries'[n] = entries[n]
          /\ entries'["global"] = entries["global"]
          /\ \A q \in Procs : has_pool_memory[q] => entries'[q] = entries[q]
      BY <1>1, <1>12, Created
    <2>1. TypeOK'
      BY <1>1, <1>2, <2>0, <1>12, Objects DEF IInv, TypeOK, Phases, Modes, Allocators, Threads
    <2>2. Stages'
      <3>1. /\ pctx'[MainApp] = p /\ out'[MainApp] = d /\ custom'[d] = p
            /\ Stage' = "begun" /\ "global" \in alive /\ p \in processors
        BY <1>12, Objects DEF IInv, TypeOK, Stage, Idle
      <3> QED BY <1>12, <2>0, <3>1 DEF Stages, InProcess
    <2>3. Modal'
      BY <1>1, <1>2, <2>0, <1>12, Objects DEF IInv, Modal, Stage, TypeOK, Working
    <2>4. Entered'
      BY <1>1, <1>2, <2>0, <1>12, Objects DEF IInv, Entered, TypeOK
    <2>5. Pooled'
      <3>1. Stage' = "begun"
        BY <1>12, Objects DEF IInv, TypeOK, Stage
      <3> QED BY <1>12, <2>0, <3>1 DEF IInv, Pooled
    <2>6. Switched'
      BY <1>1, <1>2, <2>0, <1>12, Objects DEF IInv, Switched, Stage, TypeOK
    <2>7. CachedAtHome'
      BY <1>1, <1>2, <2>0, <1>12, Objects DEF IInv, CachedAtHome, TypeOK
    <2> QED BY <2>1, <2>2, <2>3, <2>4, <2>5, <2>6, <2>7 DEF IInv
  <1> QED BY <1>3, <1>4, <1>5, <1>6, <1>7, <1>8, <1>9, <1>10, <1>11, <1>12 DEF OutsideStep

(***************************************************************************)
(* The steps of XSLTNewProcessor and XSLTProcess between their first and   *)
(* their last.                                                             *)
(***************************************************************************)
InsideStep ==
  \/ ProcessorBuilt(MainApp) \/ TurnOff(MainApp) \/ TurnOn(MainApp) \/ StartRun(MainApp)
  \/ ProcessEnd(MainApp)

LEMMA InsideSteps ==
  ASSUME OneCall, IInv, InsideStep
  PROVE  IInv'
PROOF
  <1> USE DEF OneCall
  <1>1. MainApp \in Apps /\ MainApp \in Threads /\ MainApp \notin Workers
    BY Objects DEF Threads
  <1>2. ASSUME ProcessorBuilt(MainApp) PROVE IInv'
    <2> USE DEF ProcessorBuilt, memoryVars, poolVars, callVars, threadVars
    <2>1. TypeOK'
      <3>1. pctx[MainApp] \in Procs \cap alive
        BY <1>2 DEF IInv, Stages, Stage
      <3>2. /\ phase' \in [Apps -> Phases] /\ pctx' \in [Apps -> Procs \cup {NULL}]
            /\ processors' \subseteq Procs \cap alive'
        BY <1>2, <3>1 DEF IInv, TypeOK, Phases
      <3> QED BY <1>2, <3>2 DEF IInv, TypeOK
    <2>2. Stages'
      <3>1. Stage' = "out" /\ pctx'[MainApp] = NULL /\ out'[MainApp] = NULL
        BY <1>1, <1>2 DEF IInv, Stages, Stage, TypeOK, InProcess
      <3> QED BY <3>1 DEF Stages, InProcess
    <2>3. Modal'
      BY <1>1, <1>2, Objects DEF IInv, Modal, Stage, TypeOK, Working
    <2>4. Entered'
      BY <1>1, <1>2, Objects DEF IInv, Entered, TypeOK
    <2>5. Pooled'
      BY <1>1, <1>2, Objects DEF IInv, Pooled, Stage, Stages, InProcess, TypeOK, Allocators
    <2>6. Switched'
      BY <1>1, <1>2, Objects DEF IInv, Switched, Stage, TypeOK
    <2>7. CachedAtHome'
      BY <1>1, <1>2, Objects DEF IInv, CachedAtHome, TypeOK
    <2> QED BY <2>1, <2>2, <2>3, <2>4, <2>5, <2>6, <2>7 DEF IInv
  <1>3. ASSUME TurnOff(MainApp) PROVE IInv'
    <2> USE DEF TurnOff, memoryVars, poolVars, callVars, threadVars
    <2>1. TypeOK'
      BY <1>1, <1>3, Objects DEF IInv, TypeOK, Phases, Modes, Allocators, Threads
    <2>2. Stages'
      BY <1>1, <1>3, Objects DEF IInv, Stages, InProcess, Stage, TypeOK
    <2>3. Modal'
      BY <1>1, <1>3, Objects DEF IInv, Modal, Stage, TypeOK, Working
    <2>4. Entered'
      BY <1>1, <1>3, Objects DEF IInv, Entered, TypeOK
    <2>5. Pooled'
      BY <1>1, <1>3, Objects DEF IInv, Pooled, Stage, Stages, InProcess, TypeOK, Allocators
    <2>6. Switched'
      BY <1>1, <1>3, Objects DEF IInv, Switched, Stage, TypeOK
    <2>7. CachedAtHome'
      BY <1>1, <1>3, Objects DEF IInv, CachedAtHome, TypeOK
    <2> QED BY <2>1, <2>2, <2>3, <2>4, <2>5, <2>6, <2>7 DEF IInv
  <1>4. ASSUME TurnOn(MainApp) PROVE IInv'
    <2> USE DEF TurnOn, SetAllocator, memoryVars, poolVars, callVars, threadVars
    <2>1. TypeOK'
      BY <1>1, <1>4, Objects DEF IInv, TypeOK, Phases, Modes, Allocators, Threads
    <2>2. Stages'
      BY <1>1, <1>4, Objects DEF IInv, Stages, InProcess, Stage, TypeOK
    <2>3. Modal'
      BY <1>1, <1>4, Objects DEF IInv, Modal, Stage, TypeOK, Working
    <2>4. Entered'
      BY <1>1, <1>4, Objects DEF IInv, Entered, TypeOK
    <2>5. Pooled'
      <3> DEFINE q == pctx[MainApp]
                 d == out[MainApp]
      <3>1. /\ Stage = "prepare" /\ Stage' = "turned" /\ q \in processors /\ q \in Procs /\ d \in Docs
            /\ pool' = pool /\ pctx' = pctx /\ out' = out /\ processors' = processors
        BY <1>1, <1>4 DEF IInv, Stages, InProcess, Stage, TypeOK
      <3>2. /\ has_pool_memory'[q] = TRUE
            /\ \A r \in Procs : r # q => has_pool_memory'[r] = has_pool_memory[r]
        BY <1>4, <3>1 DEF IInv, TypeOK
      <3>3. \A m \in Allocators : entries[m] \subseteq entries'[m]
        BY <1>4
      <3>4. ASSUME pool PROVE Workers \subseteq entries'[q] \cap entries'[d]
        <4>1. saved[MainApp]
          BY <3>1, <3>4 DEF IInv, Switched
        <4>2. q \in Allocators /\ d \in Allocators
          BY <3>1 DEF Allocators
        <4>3. has_pool_memory[q] => Workers \subseteq entries[q]
          BY <3>1, <3>4 DEF IInv, Pooled
        <4> QED BY <1>4, <4>1, <4>2, <4>3
      <3>5. \A r \in Procs : has_pool_memory'[r] => r \in processors
        BY <3>1, <3>2 DEF IInv, Pooled
      <3>6. ASSUME pool
            PROVE  /\ Workers \subseteq entries'["global"]
                   /\ \A r \in Procs : has_pool_memory'[r] => Workers \subseteq entries'[r]
        BY <3>2, <3>3, <3>4, <3>6 DEF IInv, Pooled, Allocators
      <3> QED BY <3>1, <3>4, <3>5, <3>6 DEF Pooled
    <2>6. Switched'
      BY <1>1, <1>4, Objects DEF IInv, Switched, Stage, TypeOK
    <2>7. CachedAtHome'
      BY <1>1, <1>4, Objects DEF IInv, CachedAtHome, TypeOK
    <2> QED BY <2>1, <2>2, <2>3, <2>4, <2>5, <2>6, <2>7 DEF IInv
  <1>5. ASSUME StartRun(MainApp) PROVE IInv'
    <2> USE DEF StartRun, memoryVars, poolVars, callVars, threadVars
    <2>1. TypeOK'
      BY <1>1, <1>5, Objects DEF IInv, TypeOK, Phases, Modes, Allocators, Threads
    <2>2. Stages'
      BY <1>1, <1>5, Objects DEF IInv, Stages, InProcess, Stage, TypeOK
    <2>3. Modal'
      BY <1>1, <1>5, Objects DEF IInv, Modal, Stage, TypeOK, Working
    <2>4. Entered'
      BY <1>1, <1>5, Objects DEF IInv, Entered, TypeOK
    <2>5. Pooled'
      BY <1>1, <1>5, Objects DEF IInv, Pooled, Stage, Stages, InProcess, TypeOK, Allocators
    <2>6. Switched'
      BY <1>1, <1>5, Objects DEF IInv, Switched, Stage, TypeOK
    <2>7. CachedAtHome'
      BY <1>1, <1>5, Objects DEF IInv, CachedAtHome, TypeOK
    <2> QED BY <2>1, <2>2, <2>3, <2>4, <2>5, <2>6, <2>7 DEF IInv
  <1>6. ASSUME ProcessEnd(MainApp) PROVE IInv'
    <2> USE DEF ProcessEnd, memoryVars, poolVars, callVars, threadVars
    <2>1. TypeOK'
      BY <1>1, <1>6, Objects DEF IInv, TypeOK, Phases, Modes, Allocators, Threads
    <2>2. Stages'
      BY <1>1, <1>6, Objects DEF IInv, Stages, InProcess, Stage, TypeOK
    <2>3. Modal'
      BY <1>1, <1>6, Objects DEF IInv, Modal, Stage, TypeOK, Working
    <2>4. Entered'
      BY <1>1, <1>6, Objects DEF IInv, Entered, TypeOK
    <2>5. Pooled'
      BY <1>1, <1>6, Objects DEF IInv, Pooled, Stage, Stages, InProcess, TypeOK, Allocators
    <2>6. Switched'
      BY <1>1, <1>6, Objects DEF IInv, Switched, Stage, TypeOK
    <2>7. CachedAtHome'
      BY <1>1, <1>6, Objects DEF IInv, CachedAtHome, TypeOK
    <2> QED BY <2>1, <2>2, <2>3, <2>4, <2>5, <2>6, <2>7 DEF IInv
  <1> QED BY <1>2, <1>3, <1>4, <1>5, <1>6 DEF InsideStep

(***************************************************************************)
(* The steps of the threads that work for a call: the workers, and both    *)
(* calls of memory_allocator_activate_mode.                                *)
(***************************************************************************)
ThreadStep ==
  \/ \E w \in Workers : WorkerStops(w) \/ WorkerStarts(w, MainApp)
  \/ \E t \in Threads :
       ExitSection(t) \/ \E m \in {"STYLESHEET", "GLOBAL"} : EnterSection(t, m)

LEMMA ThreadSteps ==
  ASSUME OneCall, IInv, ThreadStep
  PROVE  IInv'
PROOF
  <1> USE DEF OneCall
  <1>1. MainApp \in Apps /\ MainApp \in Threads /\ MainApp \notin Workers /\ MainApp # NULL
    BY Objects DEF Threads
  <1>2. ASSUME NEW w \in Workers, WorkerStops(w) PROVE IInv'
    <2> USE DEF WorkerStops, memoryVars, poolVars, callVars, threadVars
    <2>1. TypeOK'
      BY <1>1, <1>2, Objects DEF IInv, TypeOK, Phases, Modes, Allocators, Threads
    <2>2. Stages'
      BY <1>1, <1>2, Objects DEF IInv, Stages, InProcess, Stage, TypeOK
    <2>3. Modal'
      BY <1>1, <1>2, Objects DEF IInv, Modal, Stage, TypeOK, Working
    <2>4. Entered'
      BY <1>1, <1>2, Objects DEF IInv, Entered, TypeOK
    <2>5. Pooled'
      BY <1>1, <1>2, Objects DEF IInv, Pooled, Stage, Stages, InProcess, TypeOK, Allocators
    <2>6. Switched'
      BY <1>1, <1>2, Objects DEF IInv, Switched, Stage, TypeOK
    <2>7. CachedAtHome'
      BY <1>1, <1>2, Objects DEF IInv, CachedAtHome, TypeOK
    <2> QED BY <2>1, <2>2, <2>3, <2>4, <2>5, <2>6, <2>7 DEF IInv
  <1>3. ASSUME NEW w \in Workers, WorkerStarts(w, MainApp) PROVE IInv'
    <2> USE DEF WorkerStarts, memoryVars, poolVars, callVars, threadVars
    <2>1. TypeOK'
      BY <1>1, <1>3, Objects DEF IInv, TypeOK, Phases, Modes, Allocators, Threads
    <2>2. Stages'
      BY <1>1, <1>3, Objects DEF IInv, Stages, InProcess, Stage, TypeOK
    <2>3. Modal'
      BY <1>1, <1>3, Objects DEF IInv, Modal, Stage, TypeOK, Working
    <2>4. Entered'
      BY <1>1, <1>3, Objects DEF IInv, Entered, TypeOK
    <2>5. Pooled'
      BY <1>1, <1>3, Objects DEF IInv, Pooled, Stage, Stages, InProcess, TypeOK, Allocators
    <2>6. Switched'
      BY <1>1, <1>3, Objects DEF IInv, Switched, Stage, TypeOK
    <2>7. CachedAtHome'
      BY <1>1, <1>3, Objects DEF IInv, CachedAtHome, TypeOK
    <2> QED BY <2>1, <2>2, <2>3, <2>4, <2>5, <2>6, <2>7 DEF IInv
  <1>4. ASSUME NEW t \in Threads, NEW m \in {"STYLESHEET", "GLOBAL"}, EnterSection(t, m) PROVE IInv'
    <2> USE DEF EnterSection, memoryVars, poolVars, callVars, threadVars
    <2>1. TypeOK'
      <3>1. current \in Allocators
        BY DEF IInv, TypeOK
      <3>2. section' \in [Threads -> Modes] /\ section'[t] = m
            /\ \A u \in Threads : u # t => section'[u] = section[u]
        BY <1>4 DEF IInv, TypeOK, Modes
      <3>3. activated' \in [Threads -> BOOLEAN]
        BY <1>4 DEF IInv, TypeOK
      <3>4. mode' \in [Allocators -> [Threads -> Modes]]
        BY <1>4, <3>1 DEF IInv, TypeOK, Modes
      <3>5. \A n \in Allocators, u \in Threads : mode'[n][u] # "SELF" => mode'[n][u] = section'[u]
        <4>1. \A n \in Allocators : mode[n][t] = "SELF"
          BY <1>4 DEF IInv, TypeOK
        <4>2. \A n \in Allocators, u \in Threads :
                 mode'[n][u] = mode[n][u] \/ (u = t /\ mode'[n][u] = m)
          BY <1>4, <3>1 DEF IInv, TypeOK
        <4> QED BY <3>2, <4>1, <4>2 DEF IInv, TypeOK
      <3> QED BY <1>4, <3>2, <3>3, <3>4, <3>5 DEF IInv, TypeOK
    <2>2. Stages'
      BY <1>1, <1>4, Objects DEF IInv, Stages, InProcess, Stage, TypeOK
    <2>3. Modal'
      <3>1. t \in entries[current] /\ mode[current][t] = "SELF" /\ current \in Allocators
        <4>1. current \in alive /\ current \in Allocators
          BY <1>1, <1>4 DEF IInv, TypeOK, Stages, InProcess, Switched, Working, Stage, Threads
        <4>2. CASE t = MainApp
          BY <1>4, <4>1, <4>2 DEF IInv, Entered, TypeOK
        <4>3. CASE t \in Workers
          <5>1. Stage = "wait" /\ pool /\ current = out[MainApp]
            BY <1>1, <1>4, <4>3, Objects DEF IInv, Switched, Working, Stages, InProcess
          <5> QED BY <1>4, <4>1, <4>3, <5>1 DEF IInv, Pooled, TypeOK
        <4> QED BY <4>2, <4>3 DEF Threads
      <3>2. activated' = [activated EXCEPT ![t] = TRUE] /\ mode' = [mode EXCEPT ![current][t] = m]
        BY <1>4, <3>1
      <3>3. \A n \in Allocators, u \in Threads :
               mode'[n][u] = IF n = current /\ u = t THEN m ELSE mode[n][u]
        BY <3>1, <3>2 DEF IInv, TypeOK
      <3>4. /\ section'[t] = m /\ activated'[t]
            /\ \A u \in Threads : u # t => section'[u] = section[u] /\ activated'[u] = activated[u]
        BY <1>4, <3>2 DEF IInv, TypeOK
      <3>5. \A u \in Threads : Working(u)' <=> Working(u)
        BY <1>4 DEF Working
      <3>6. \A n \in Allocators, u \in Threads : mode'[n][u] # "SELF" => n = current
        BY <3>3 DEF IInv, Modal
      <3>7. \A u \in Threads : section'[u] # "SELF" =>
               Working(u)' /\ activated'[u] /\ mode'[current][u] = section'[u]
        BY <1>4, <3>1, <3>3, <3>4, <3>5 DEF IInv, Modal
      <3>8. Stage' = "build" => section'[MainApp] # "GLOBAL"
        BY <1>4, <3>4 DEF IInv, Modal, Stage, For, OneCall
      <3> QED BY <1>4, <3>6, <3>7, <3>8 DEF Modal
    <2>4. Entered'
      BY <1>1, <1>4, Objects DEF IInv, Entered, TypeOK
    <2>5. Pooled'
      BY <1>1, <1>4, Objects DEF IInv, Pooled, Stage, Stages, InProcess, TypeOK, Allocators
    <2>6. Switched'
      BY <1>1, <1>4, Objects DEF IInv, Switched, Stage, TypeOK
    <2>7. CachedAtHome'
      BY <1>1, <1>4, Objects DEF IInv, CachedAtHome, TypeOK
    <2> QED BY <2>1, <2>2, <2>3, <2>4, <2>5, <2>6, <2>7 DEF IInv
  <1>5. ASSUME NEW t \in Threads, ExitSection(t) PROVE IInv'
    <2> USE DEF ExitSection, memoryVars, poolVars, callVars, threadVars
    <2>0. /\ Working(t) /\ activated[t] /\ section[t] \in Modes
          /\ Target(t) = CacheOf(t) /\ Target(t) \in alive /\ CacheOf(t) \in {"global"} \cup Procs
      <3>1. Working(t) /\ activated[t] /\ section[t] \in Modes
        BY <1>5 DEF IInv, Modal, TypeOK
      <3>2. For(t) = MainApp
        BY <1>1, <3>1 DEF For, Working, IInv, Switched, Threads
      <3>3. pctx[MainApp] \in Procs
        BY <1>1, <3>1 DEF Working, IInv, Switched, Stages, InProcess, Stage, TypeOK, Threads
      <3> QED BY <1>5, <3>1, <3>2, <3>3, Allocates DEF CacheOf
    <2>00. /\ cached' \in [{"global"} \cup Procs -> SUBSET (Allocators \cup {NULL})]
           /\ cached'[CacheOf(t)] = cached[CacheOf(t)] \cup {CacheOf(t)}
           /\ \A m \in {"global"} \cup Procs : m # CacheOf(t) => cached'[m] = cached[m]
      BY <1>5, <2>0 DEF IInv, TypeOK, Allocators
    <2>1. TypeOK'
      <3>1. /\ section' \in [Threads -> Modes] /\ section'[t] = "SELF"
            /\ \A u \in Threads : u # t => section'[u] = section[u]
            /\ activated' \in [Threads -> BOOLEAN]
        BY <1>5 DEF IInv, TypeOK, Modes
      <3>2. mode' \in [Allocators -> [Threads -> Modes]]
        BY <1>5 DEF IInv, TypeOK, Modes
      <3>3. ASSUME NEW n \in Allocators, NEW u \in Threads, mode'[n][u] # "SELF"
            PROVE  mode'[n][u] = section'[u]
        <4>1. t \in entries[current] /\ current \in Allocators /\ mode' = [mode EXCEPT ![current][t] = "SELF"]
          <5>1. CASE t = MainApp
            BY <1>1, <1>5, <2>0, <5>1 DEF IInv, Entered, Stages, InProcess, Working, Stage, TypeOK
          <5>2. CASE t \in Workers
            <6>1. Stage = "wait" /\ pool /\ current = out[MainApp]
              BY <1>1, <2>0, <5>2, Objects DEF IInv, Switched, Working, Stages, InProcess
            <6> QED BY <1>5, <2>0, <5>2, <6>1 DEF IInv, Pooled, TypeOK
          <5> QED BY <5>1, <5>2 DEF Threads
        <4>2. mode'[n][u] = IF n = current /\ u = t THEN "SELF" ELSE mode[n][u]
          BY <4>1 DEF IInv, TypeOK
        <4>3. mode'[n][u] = mode[n][u] /\ n = current /\ u # t
          BY <3>3, <4>2 DEF IInv, Modal
        <4> QED BY <3>1, <3>3, <4>3 DEF IInv, TypeOK
      <3> QED BY <1>5, <2>00, <3>1, <3>2, <3>3 DEF IInv, TypeOK
    <2>2. Stages'
      BY <1>1, <1>5, Objects DEF IInv, Stages, InProcess, Stage, TypeOK
    <2>3. Modal'
      BY <1>1, <1>5, Objects DEF IInv, Modal, Stage, TypeOK, Working
    <2>4. Entered'
      BY <1>1, <1>5, Objects DEF IInv, Entered, TypeOK
    <2>5. Pooled'
      BY <1>1, <1>5, Objects DEF IInv, Pooled, Stage, Stages, InProcess, TypeOK, Allocators
    <2>6. Switched'
      BY <1>1, <1>5, Objects DEF IInv, Switched, Stage, TypeOK
    <2>7. CachedAtHome'
      BY <1>5, <2>0, <2>00 DEF IInv, CachedAtHome
    <2> QED BY <2>1, <2>2, <2>3, <2>4, <2>5, <2>6, <2>7 DEF IInv
  <1> QED BY <1>2, <1>3, <1>4, <1>5 DEF ThreadStep

(***************************************************************************)
(* The invariant of one call at a time, the pool created first.            *)
(***************************************************************************)
LEMMA Inductive == ASSUME OneCall PROVE Spec => []IInv
PROOF
  <1>1. Init => IInv
    <2> SUFFICES ASSUME Init PROVE IInv
      OBVIOUS
    <2>1. MainApp \in Apps /\ MainApp \in Threads
      BY Objects DEF Threads
    <2>2. TypeOK
      BY <2>1, Objects DEF Init, TypeOK, Allocators, Threads, Modes, Phases
    <2>3. Stages /\ Modal /\ Entered /\ CachedAtHome
      BY <2>1, Objects DEF Init, Stages, InProcess, Modal, Entered, CachedAtHome, Stage, Working,
         Allocators, Threads
    <2>4. Pooled /\ Switched
      BY <2>1 DEF Init, Pooled, Switched, Stage
    <2> QED BY <2>2, <2>3, <2>4 DEF IInv
  <1>2. IInv /\ [Next]_vars => IInv'
    <2> SUFFICES ASSUME IInv, [Next]_vars PROVE IInv'
      OBVIOUS
    <2>1. CASE UNCHANGED vars
      BY <2>1 DEF vars, memoryVars, poolVars, callVars, threadVars, IInv, TypeOK, Stages,
         InProcess, Modal, Entered, Pooled, Switched, CachedAtHome, Stage, Working
    <2>2. CASE Next
      <3>1. OutsideStep \/ InsideStep \/ ThreadStep
        BY <2>2 DEF Next, OutsideStep, InsideStep, ThreadStep, OneCall
      <3> QED BY <3>1, OutsideSteps, InsideSteps, ThreadSteps
    <2> QED BY <2>1, <2>2
  <1> QED BY <1>1, <1>2, PTL DEF Spec

(***************************************************************************)
(* Whatever a thread of a call allocates, it gets the memory it means, and *)
(* that memory has not been released: current_allocator, the entries, the  *)
(* modes and the custom allocators agree throughout XSLTNewProcessor and   *)
(* XSLTProcess.                                                            *)
(***************************************************************************)
THEOREM MemoryIsRight == ASSUME OneCall PROVE Spec => []RightPlace
PROOF
  <1>1. IInv => RightPlace
    BY Allocates DEF RightPlace
  <1> QED BY <1>1, Inductive, PTL

(***************************************************************************)
(* Compiled expressions live as long as their processor and cached URLs as *)
(* long as the library: nothing that concurrent_dictionary_add keeps lies  *)
(* in the memory of a document.                                            *)
(***************************************************************************)
THEOREM CachesLive == ASSUME OneCall PROVE Spec => []CachesOutliveDocuments
PROOF
  <1>1. IInv => CachesOutliveDocuments
    <2> SUFFICES ASSUME IInv PROVE CachesOutliveDocuments
      OBVIOUS
    <2>1. cached["global"] \subseteq alive
      BY DEF IInv, CachedAtHome
    <2>2. ASSUME NEW p \in processors PROVE cached[p] \subseteq alive
      <3>1. p \in Procs /\ p \in alive
        BY <2>2 DEF IInv, TypeOK
      <3>2. cached[p] \subseteq {p}
        BY <3>1 DEF IInv, CachedAtHome
      <3> QED BY <3>1, <3>2
    <2> QED BY <2>1, <2>2 DEF CachesOutliveDocuments
  <1> QED BY <1>1, Inductive, PTL

(***************************************************************************)
(* XSLTProcess gives back the pool that it took out of the global context, *)
(* whenever the pool was created.                                          *)
(***************************************************************************)
THEOREM PoolComesBack == ASSUME Apps = {MainApp} PROVE Spec => []PoolOffIsTemporary
PROOF
  <1> DEFINE Typed == /\ phase \in [Apps -> Phases] /\ saved \in [Apps -> BOOLEAN]
                      /\ pool \in BOOLEAN /\ pool_on \in BOOLEAN
             Off == /\ pool_on <=> pool /\ Stage # "prepare"
                    /\ Stage = "prepare" => (saved[MainApp] <=> pool)
  <1>1. Init => Typed /\ Off
    BY Objects DEF Init, Stage, Phases
  <1>2. Typed /\ Off /\ [Next]_vars => (Typed /\ Off)'
    <2> SUFFICES ASSUME Typed, Off, [Next]_vars PROVE (Typed /\ Off)'
      OBVIOUS
    <2> USE DEF Stage, memoryVars, poolVars, callVars, threadVars
    <2>1. CASE UNCHANGED <<poolVars, callVars>>
      BY <2>1
    <2>2. ASSUME CreateThreadPool(MainApp) PROVE (Typed /\ Off)'
      <3>1. Typed'
        BY <2>2, Objects DEF CreateThreadPool, Idle
      <3>2. Off'
        BY <2>2, Objects DEF CreateThreadPool, Idle
      <3> QED BY <3>1, <3>2
    <2>3. ASSUME End(MainApp) PROVE (Typed /\ Off)'
      <3>1. Typed'
        BY <2>3, Objects DEF End, Idle
      <3>2. Off'
        BY <2>3, Objects DEF End, Idle
      <3> QED BY <3>1, <3>2
    <2>4. ASSUME NEW p \in Procs,
                 \/ NewProcessor(MainApp, p) \/ NewProcessorFails(MainApp, p)
                 \/ FreeProcessor(MainApp, p)
                 \/ \E d \in Docs : ProcessBegin(MainApp, p, d)
          PROVE  (Typed /\ Off)'
      BY <2>4, Objects DEF NewProcessor, NewProcessorFails, FreeProcessor, ProcessBegin, Idle, Phases
    <2>5. ASSUME ProcessorBuilt(MainApp) PROVE (Typed /\ Off)'
      <3>1. Typed'
        BY <2>5, Objects DEF ProcessorBuilt, Phases
      <3>2. Off'
        BY <2>5, Objects DEF ProcessorBuilt, Phases
      <3> QED BY <3>1, <3>2
    <2>6. ASSUME StartRun(MainApp) PROVE (Typed /\ Off)'
      <3>1. Typed'
        BY <2>6, Objects DEF StartRun, Phases
      <3>2. Off'
        BY <2>6, Objects DEF StartRun, Phases
      <3> QED BY <3>1, <3>2
    <2>7. ASSUME ProcessEnd(MainApp) PROVE (Typed /\ Off)'
      <3>1. Typed'
        BY <2>7, Objects DEF ProcessEnd, Phases
      <3>2. Off'
        BY <2>7, Objects DEF ProcessEnd, Phases
      <3> QED BY <3>1, <3>2
    <2>8. ASSUME TurnOff(MainApp) PROVE (Typed /\ Off)'
      <3>1. Typed'
        BY <2>8, Objects DEF TurnOff, Phases
      <3>2. Off'
        BY <2>8, Objects DEF TurnOff, Phases
      <3> QED BY <3>1, <3>2
    <2>9. ASSUME TurnOn(MainApp) PROVE (Typed /\ Off)'
      <3>1. Typed'
        BY <2>9, Objects DEF TurnOn, Phases
      <3>2. Off'
        BY <2>9, Objects DEF TurnOn, Phases
      <3> QED BY <3>1, <3>2
    <2>10. ASSUME NEW d \in Docs,
                 CreateDocument(MainApp, d) \/ ParseFails(MainApp, d) \/ FreeDocument(MainApp, d)
          PROVE  UNCHANGED <<poolVars, callVars>>
      BY <2>10 DEF CreateDocument, ParseFails, FreeDocument
    <2>11. ASSUME NEW m \in {"global"} \cup Procs, Configure(MainApp, m)
          PROVE  UNCHANGED <<poolVars, callVars>>
      BY <2>11 DEF Configure
    <2>12. ASSUME NEW w \in Workers, WorkerStops(w) \/ \E a \in Apps : WorkerStarts(w, a)
          PROVE  UNCHANGED <<poolVars, callVars>>
      BY <2>12 DEF WorkerStops, WorkerStarts
    <2>13. ASSUME NEW t \in Threads,
                 ExitSection(t) \/ \E m \in {"STYLESHEET", "GLOBAL"} : EnterSection(t, m)
          PROVE  UNCHANGED <<poolVars, callVars>>
      BY <2>13 DEF ExitSection, EnterSection
    <2>14. UNCHANGED vars => UNCHANGED <<poolVars, callVars>>
      BY DEF vars
    <2> QED BY <2>1, <2>2, <2>3, <2>4, <2>5, <2>6, <2>7, <2>8, <2>9, <2>10, <2>11, <2>12,
               <2>13, <2>14 DEF Next
  <1>3. Typed /\ Off => PoolOffIsTemporary
    BY Objects DEF PoolOffIsTemporary, Stage
  <1> QED BY <1>1, <1>2, <1>3, PTL DEF Spec

(***************************************************************************)
(* "unknown thread" of memory_allocator_find_entry is not met.             *)
(***************************************************************************)
THEOREM EveryThreadKnown == ASSUME OneCall PROVE Spec => []NoUnknownThread
PROOF
  <1>1. IInv => NoUnknownThread
    <2>1. IInv => NULL \notin alive
      BY Objects DEF IInv, TypeOK, Allocators
    <2> QED BY <2>1, Allocates DEF NoUnknownThread
  <1> QED BY <1>1, Inductive, PTL
=============================================================================
