# turboxsl: a TLA+ model

turboxsl is a multithreaded XML + XSLT transformation library in C. These
modules model the program's own code (`src/src/*.c`); the logging library under
`src/src/zlog` and the digest code `md5.c` are third party and left aside. Paths
below are relative to the repository.

## 1. The system

### Parts, their state and their operations

| part | source | state | operations | what makes it correct |
|---|---|---|---|---|
| unbounded queue | `unbounded_queue.c` | linked list, `is_closed`, mutex and condition variable | create, close, release, enqueue, dequeue | FIFO, each value taken once, no reader asleep on a non-empty list |
| shared variable | `shared_variable.c` | an unsigned counter with mutex and condition variable | create, increase, decrease, wait, release | counts the unfinished tasks of a call; no lost wake-up; not used after release |
| thread pool | `threadpool.c` | queue, threads, `num_of_blocked`, the stop task | init, start, try_wait, finish_wait, set_allocator, free | every started task runs once; free joins every worker; `num_of_blocked` is exact |
| template task | `template_task.c` | `template_context` (`workers`, `task_mode`) | run, run_and_wait | a call that waits returns after all its contexts |
| instructions | `instructions.c`, `xsl_elements.c` | the tables of parallel instructions | one function per XSL element | result in document order, whatever the interleaving |
| transform driver | `transform.c`, `ltr_xsl.h` | global context (pool, cache, dictionary, parameters), processor | XSLTInit/End, XSLTNewProcessor/FreeProcessor, XSLTProcess, XSLTCreateThreadPool... | processors share the pool and the caches safely |
| allocator | `allocator.c` | per-thread blocks and mode, one current allocator | create, add_entry, activate_mode, new, set_current, release | each thread finds its own entry; a block handed out is disjoint from all others |
| external cache | `external_cache.c` | one memcached client per thread | create, add_client, set, get | a thread that uses the cache has a client |
| concurrent dictionary | `concurrent_dictionary.c` | hash table under one lock | find, add | a found value is the one added for the key |
| XPath | `xpath.c`, `functions.c`, `rvalue.c` | compiled expressions, sort tables of the processor | compile, evaluate on each axis, sort, functions | axes and comparisons of XPath 1.0, document order |
| templates | `templates.c` | the list of match and name templates | add, select, precompile | the selected template matches and has the best priority |
| variables | `variables.c` | global and local variable lists | add, find, copy | a variable is seen in its scope only |
| nodes, parser | `nodes.c`, `parse.c`, `strings.c` | the document tree | add child, parse, renumber | a well-formed tree in document order |
| stylesheet loading | `transform.c:209-358`, `templates.c:497-514` | the tree of the stylesheet, keys, output settings | preprocess, import, precompile, flags | the tree holds what the files say, each place once |
| dictionary | `xmldict.c` | an array of entries, one chain per bucket | add, replace, find | a key is found with its value |
| localisation, rights | `localization.c`, `group_rights.c` | tables of catalogues and of groups, the catalogue of the run | define, set, find | texts of the catalogue that was set; the rights of the user's groups |
| strings | `strings.c` | buffer, `allocated`, length | create, add, append | nothing is written outside the buffer |
| task graph | `template_task_graph.c` | a list of edges, the current vertex per thread | add, save | a record of which instruction forked which |
| output | `output.c` | none | one writer per node type | what is written can be read again |
| support, tool | `utils.c`, `logger.c`, `thread_lock.c`, `xsltproc/` | none | | |

### How they interact

A program creates one global context (`XSLTInit`), any number of processors
(`XSLTNewProcessor`) and, if it wants, one thread pool that all processors share.
`XSLTProcess` prepares a document, makes a root `template_context` and hands it
to `template_task_run_and_wait`. That function queues a task for a pool thread
and sleeps on a shared variable. While a task applies templates, every
instruction it meets makes new contexts; `template_task_run` runs each of them
in place or puts it into a task of its own, which it counts in the shared
variable first. The task that brings the counter back to zero wakes the caller.
Pool threads block in `unbounded_queue_dequeue`. `XSLTEnd` stops them with one
stop task each.

### What is hard

Interleaving of callers and workers over one queue and one counter per call;
sleeping and spurious wake-ups on two kinds of condition variables; calls that
are refused their wait and run inline while they still fork; the inheritance of
the task mode along contexts; shutdown with readers asleep and tasks queued;
mallocs that fail in `enqueue`; the pool pointer, the current allocator and the
caches that overlapping calls share. The sequential parts are hard in another
way: one list of templates, variables or nodes is read by rules (weights, reversed
copies, copies of copies) that only agree with the language after a long row of legal
steps, and trees grow while they are walked. `PROJECT.json` lists the hazards with their
lines and the properties that address them.

## 2. Modules

Every action names the function it models in the comment above it, and `PROJECT.json`
gives the lines. Operators whose name has an underscore and a lower-case suffix
(`Enqueue_silent`) are mutated forms of the definition below them: none of them
is used by a specification; they record which bug each property would catch.

| module | code | composed with |
|---|---|---|
| `Null` | the constant `NULL` | extended by the modules below that need it |
| `UnboundedQueue` | `unbounded_queue.c` | extended by `TaskPool` and `PoolStart` |
| `LinkedQueue` | the list of `unbounded_queue.c` in memory | implements `UnboundedQueue`; in `MCStylesheet` |
| `TaskPool` | `threadpool.c`, `shared_variable.c`, `template_task.c` | implements `TransformRun` |
| `TransformRun` | what `XSLTProcess` may rely on | the abstract specification |
| `MCTaskPool` | instances of `TaskPool` for TLC | |
| `PoolStart` | `threadpool_init` and its failure path | extends `UnboundedQueue` |
| `OutputOrder`, `MCOutputOrder` | `instructions.c`, `transform.c:24-180`, `nodes.c`, `variables.c:251-279` | takes "in place or as a task" from `TaskPool` |
| `Processors` | `transform.c` and `allocator.c`: objects and their memory | |
| `SharedCaches` | `xpath_find_expr`, `xf_urlcode`, `call_perl_function`, `xpath_sort_selection`, the two caches | |
| `AllocatorEntry` | `memory_allocator_new` in one entry | in `MCDocuments` |
| `Strings` | `strings.c` | in `MCDocuments` |
| `Documents` | `nodes.c`, `output.c`, `parse.c` | in `MCDocuments` |
| `XPathNodes` | the selections of `xpath.c` | in `MCDocuments` |
| `XPathFunctions` | `rvalue.c`, `functions.c`, the operators of `xpath.c` | in `MCDocuments` |
| `TaskGraph` | `template_task_graph.c` | in `MCDocuments` |
| `DictionaryMap` | what the users of `xmldict.c` rely on | the abstract specification |
| `Dictionary` | `xmldict.c` | implements `DictionaryMap`; in `MCStylesheet` |
| `Settings` | `localization.c`, `group_rights.c` and their XPath functions | uses tables as `DictionaryMap` has them; in `MCStylesheet` |
| `Variables` | `variables.c` and the instructions that open scopes | in `MCStylesheet` |
| `Templates` | `templates.c` | in `MCStylesheet` |
| `XPathSyntax` | `xpath_compile` | in `MCStylesheet` |
| `Sheets` | how `XSLTNewProcessor` puts a stylesheet together | in `MCStylesheet` |
| `TaskPoolProofs`, `PoolStartProofs`, `OutputOrderProofs`, `ProcessorsProofs`, `SharedCachesProofs` | theorems | extend their module and TLAPS |
| `LinkedProofs` | theorems about `Dictionary` and `LinkedQueue`, and what they implement | extends them and TLAPS |
| `DocumentsProofs` | theorems about `AllocatorEntry`, `Strings`, `TaskGraph` and `Documents` | extends them and TLAPS |
| `StylesheetProofs` | theorems about `Variables` and `Settings` | extends both and TLAPS |

`MCStylesheet` and `MCDocuments` put components side by side that share no
variable. Their product would show nothing that the parts do not, so the variable
`subject` names the component that takes the steps of a behaviour while the others
keep one fixed state.

### UnboundedQueue

`queue` is the linked list, `is_closed` the flag, `reader[t]` where thread t is in
`unbounded_queue_dequeue`: outside, asleep in `pthread_cond_wait`, or woken. What happens
under the mutex is one step. A closed queue is looked at on entry only, close wakes
nobody, and a sleeper may wake without a broadcast: all as in the code.
`EnqueueFails` is the `malloc` that fails, after which the value is gone.

### LinkedQueue

The same functions, on the list that `UnboundedQueue` takes for a sequence. `memory` holds the
entries that are allocated, by address; `head` is the dummy, `tail` the last entry.
`unbounded_queue_dequeue` returns the value of the entry behind the dummy and frees the dummy,
so that the entry stays as the next one: `tail` never points to what was freed, not even when
the queue runs empty. An address that was freed may come back. `Contents`, the values along
the links, is the refinement mapping, and `IsQueue` also says that a reader gets the oldest
value and that the entries stay one list (`EntriesAreList`). A dummy that is left when the
queue is released is not freed by the code; the release is not modelled here.

### TaskPool and TransformRun

A caller is one call of `template_task_run_and_wait`, on a thread of the
application. `call` is its program counter, `variable` and `value` its shared
variable. `stack[a]` is the C stack of a thread, as the sequence of the contexts
whose functions it is in. `status`, `workers` and `task_mode` belong to
a `template_context`; `owner` (the call it works for) exists in the model only.
`template_task_run` is split where another thread can see the difference: the
task is allocated (`RunInNewTask`), counted (`Increase`), queued (`StartTask`).
Which instructions a template holds is left open: a running context may make any other
context in any way some instruction has (`CallDirect`, `CallSingle`, `RunInline`,
`RunInNewTask` with every value of the fork attribute), as long as a free context is
left. `TransformRun` is the promise: contexts make contexts, and the call returns
when none is left. `TaskPool` is mapped to it by `Run`.

The places for waiting calls, the tasks in the queue and the counters
of several calls interact, so calls are concurrent here. In the code of today a
second concurrent `XSLTProcess` also meets the two problems of `Processors`
below; `thread_pool_try_wait` is nevertheless written for it.

### PoolStart

The thread that is in `threadpool_init`, later in `threadpool_free`, and the
workers it has made so far. `JoinUnknown` says what `pthread_join` may do with a
thread id that was never set.

### OutputOrder

`nodes` is the output document, `contexts` the template contexts, `stack` the C
stacks of the pool threads. Instructions are left open again. Every context
numbers the instructions it meets and labels what they make with the numbers on
the way from the root, so that a run on one thread makes everything in the
lexicographic order of the labels. Two invariants then say that the tree is
the sequential one at every moment: siblings stand in the order of their labels
(`SiblingsInOrder`), and each node hangs under the innermost node around it
(`UnderInnermost`). `OneWriter` and `OneScope` are the reasons why
`xml_add_child` and the variable lists need no lock. Attribute lists have none
either: `Attribute` and `CopyAttribute` look at the list, `Link` writes it, and
another thread may write in between, which loses an attribute. `AttributeIsHome`
holds all the same for those of `xsl:attribute` and `xsl:copy`: they climb past slots to the element around them.
`xsl:copy-of` of an attribute (`CopyOfAttribute`, marked `copied`) does not climb: it writes to the node
its context has, also when that is a slot. An attribute is taken to have a name its element does not have
yet, and `MaxAttributes` bounds a list.
The pool's order is left open (`TakeTask` takes any queued task), which includes
the order of the queue.

### AllocatorEntry and Strings

`AllocatorEntry` is one entry: its areas, the tail, and the blocks given out. Sizes are natural
numbers: an addition that wraps `size_t` is left out.

A string is its buffer (`size`), `allocated` and `len`, and, in the model only, the
last byte ever written (`top`), how much of the text the buffer still holds
(`kept`) and, for a string whose maker promised how much would come, what is `left` of
the promise. `allocated - 2` is unsigned in the code and wraps for the empty string:
`Modulus` is where. `make_unescaped_string` lives on that wrap, and is why the promise is
part of the model.

### Processors

`current` is `current_allocator`; `alive`, `entries`, `mode` and `custom` are the
allocators; `phase[a]` is where an application thread is in `XSLTNewProcessor` or
`XSLTProcess`; `pool_on` is `gctx->pool`, `saved` the local variable that
`XSLTProcess` keeps it in. A thread that works may at any moment enter
the section in which a cache entry is allocated (`EnterSection`, `ExitSection`).
`Target(t)` is the allocator the memory of thread t would come from.
The application is assumed to be in one call per thread, to free nothing
that a call works on, and to create its pool once. What a refused wait leaves
running after its call is the matter of `TaskPool`, not of this module.

### SharedCaches

`table` stands for both concurrent dictionaries, `store` for memcached, `lock`
for the recursive lock of the processor. `at[t]` walks through `xpath_find_expr` or
`xf_urlcode`: find, compile or ask, lock, call Perl, set, add. A thread is in
`Clients` if the external cache knows it. An expression of `Malformed` compiles to NULL, which is
added and cannot be told from absent when it is looked up again. Keys of 65536 bytes and more are left
out (`concurrent_dictionary.c:66` keeps their length in sixteen bits).

### Documents

`node` is the memory: addresses to records with `parent`, `children` (the first),
`next` and so on, as linked lists. Texts are sequences of tokens; an entity is one
token, a name may be two. `XMLCreateElement`, `XMLAddText` and the others are actions
of the application, `XMLOutput` writes, and the parser is one action for each state
of the loop of `do_parse`, with the parse context in `parser`. The root of
what was read is compared with what was written by `ReadBack`, both for the modes XML
and HTML as far as HTML can be read back, and `Linked` says that what is shown hangs together: who
comes next knows who is before, and a child's `parent` is its element, or, for the nodes of a string
behind the first, one that is in no document. Where a mark has no end (`<?`, `<!DOCTYPE`, a CDATA section, a
closing tag, the value of an attribute) `do_parse` runs past the NUL behind the text, and where a tag is closed and
none is open it reads a NULL pointer: the state `UNDEFINED`, in which the model stops (`Within` is the test that the
code lacks). What opens after the root was closed becomes the root to return when there is none, and has the rest
below or behind it, as in the code. `Stuck` is a tag the parser does not leave, and `MaxNodes` the
bound on the nodes where it adds attributes for ever. `ReadBack` is stated for the documents that are `Plain`, which
the code can read back. Strings may end in the middle of an element. Seventeen documents come from elsewhere:
comments, CDATA, a DOCTYPE, attributes with and without quotes, closing tags that are missing or too many, also that of
the root, marks without an end and tags that are not left.

### XPathNodes, XPathFunctions, XPathSyntax

`XPathSyntax` is the compiler: the descent of `do_or_expr` ... `do_var_expr` as
recursive operators over tokens. A behaviour makes an expression one operator at a
time; it is written down with as few brackets as XPath needs and compiled again. `CompiledAsWritten`: the
tree comes back. A keyword in `match()` ends in a blank that stands for a bracket as well: behind `and`, `or`, `div`
and `mod` the code takes a blank or a "(", and has read it. `Fits` and `Behind` are that test and what is
left, and `Written` puts a blank between such a word and a bracket; without it, section 6.

`XPathNodes` evaluates one step, filter, union or sort per action. A `selection` is a list of
copies as in the code, each with its `original`, so that the places where the code takes a copy
for a node of the document are there. What the axes lose is modelled as well (`HandedOut`, `lost`):
following and preceding drop descendants of the nearest sibling when it does not fit itself. `SelectsAsXPath` compares with the axes as XPath
defines them, for the paths that do not run into the differences listed in section 6
(`Plainly`), and `SortsStably` says that one `xsl:sort` is an ordered and stable
permutation.

`XPathFunctions` collects arguments of every type and applies one operator or function to them; numbers
are hundredths, `IntMax` is where an `int` ends. `AsXPath` compares each of the 32 operations with what XPath 1.0
says of it (`Given`, with a case for each): equality of values of different types, the Boolean operators and
conversions, arithmetic with quotients that hundredths hold, substring by positions, the texts before and after,
translation, rounding, counts and sums, `format-number`. It is stated for the arguments the code reads
as XPath does (`Alike`); where it does not is in section 6. Division by zero and infinite numbers are left out.

### Templates, Variables, Sheets

`Templates` reads one `xsl:template` per step into the list of patterns
(`head`), the tree of names (`direct`: paths from the last name up) and the
places for `/` and `*`, per mode. `find_template` is the choice the code makes; `Answer` is the same
choice in terms of what was written. Where it differs from XSLT's priorities is in section 6.

`Variables` is a processor over several runs: `vars` the globals, `stack` the nested
template contexts with their list of locals, with `copy_variables` reversing it. The ghost field
`bound` is what each name was bound to last. The value of a variable remembers
the run that made it, which is how a global of a released document would be seen.

`Sheets` turns the recursive walks over the tree into one list of `jobs`: a node
that is visited puts its children in front of what is still to do. The tree
(`tree`: paths to nodes) grows under the first two walks, and the children of a node are
read when the node is visited, as in the code.

### Dictionary, DictionaryMap, Settings

`Dictionary` has the array, `hash`, and one walk along a chain (`lookup`); its abstract
counterpart answers in one step. Under the refinement the value of a name is that of
its newest entry. `Settings` uses the map and adds `XSLTDefineGroupRights`,
`XSLTSetUserContext`, `XSLTSetLocalization` with the cache of catalogues (a PO file may
change between two runs; a catalogue that is cached is not read again),
and `check_rights`, `ltr:__l` and `ltr:__ln`.

### TaskGraph

Threads take tasks and start templates in place or as tasks; edges are what
`template_task_graph_add_serial` and `_parallel` append under their lock. The vertex of
a thread is set when it takes a task and stays afterwards. Some starts leave no edge: a template in mode SINGLE
(`template_task_run_single`) and whatever the application's thread starts, which has no vertex
(`StartsUnseen`, in a run that was refused its wait). So the graph has a node for each template that is not
below one of these, and `GraphIsRun` says that. The file is written in two steps, the nodes (`WriteNodes`)
and the edges (`template_task_graph_save`), without the lock: a run that was refused may still add edges then. One run is modelled.

## 3. Model checking

| run | instance | what it shows |
|---|---|---|
| `Join` | 2 pool threads, 2 calls, 3 inner contexts, no lost enqueue; 90 thousand states | The counter is the number of unfinished tasks; a call that returns leaves no context behind; no task is taken by two workers; no worker sleeps on a task; `threadpool_free` drops nothing; `TaskPool` implements `TransformRun`. |
| `InlineCall` | 1 thread, 2 calls (one is refused its wait), 3 inner contexts, 1 failed `malloc`; 57 thousand states | Even then no call sleeps on a zero and no released variable is used. What does *not* hold then is the join: see section 6. |
| `PoolLive` | 2 threads, 2 calls, 1 inner context, fair | Every call returns, and `threadpool_free` joins its workers wherever they are. |
| `StartPool` | 3 threads, `pthread_create` failing at any of them; `pthread_join` of nothing returns an error | The queue outlives its readers and `threadpool_free` comes back. |
| `StartPoolUndefined` | the same, but the join of nothing may crash | Violated: section 6. |
| `OutputOrder` | 2 threads, 3 nodes, 5 contexts, 2 instructions per context, 2 attributes per node; 2.9 million states | The output is the sequential one; attributes are where their instruction puts them; threads share neither a node nor a variable list they write. |
| `Sequential` | 1 application thread, 1 worker, 2 processors, 2 documents, pool made first; 32 thousand states | Every allocation lands in the allocator it is meant for; cached entries never lie in the memory of a document; the pool is on again after each run. |
| `LatePool` | the same, pool made at any time | Violated: section 6. |
| `Overlap` | 2 application threads | Violated: section 6. |
| `Caches` | 2 threads with 2 evaluations each, 2 expressions, one of them malformed, 1 URL, 2 answers, 1 client; 51 thousand states | Answers settle, Perl is used under the lock, a well-formed expression is compiled once per thread, every evaluation ends. |
| `Stylesheet` | `MCStylesheet`: a dictionary of 3 names in 2 buckets; 2 groups and a catalogue that changes; 2 variables over 2 runs; 12 patterns in every sequence of three templates; expressions of 2 operators; 288 stylesheets of three files; a list with 2 readers, 2 values and 4 addresses; 215 thousand states | The dictionary is a map and its array has room; rights, catalogues and placeholders are those that were set; variables are read as bound last; a template is found as the stylesheet defines it; expressions compile to what was written; a loaded stylesheet is complete, with the nearer definition first; the list in memory implements the queue, and nothing in it is lost or used after it was freed (an enqueue may fail at any time, and must when no address is left). |
| `Documents` | `MCDocuments`: entries of 0, 1, 4 bytes and requests of 0, 1, 3, 9; strings of every small size; documents of 3 edits and 17 texts; 12 nodes, 3 starts, paths of 3 steps; 22 values, 32 operators and functions; graphs of 4 templates; 460 thousand states | No block and no string is overrun; what is written is read back, and trees are well linked; selections, sorts and values are those of XPath; the graph is that of the run; the parser ends, leaves its text or is stuck in a tag. |

Why these bounds. The pool's hazards are races of two: two workers for one
task or one broadcast, two calls for one place, a task and its caller for one
variable. Three inner contexts are enough for a task that forks a task and for
an inline context that forks after its caller forked. One thread with two calls is the
smallest pool that refuses a wait. In `OutputOrder` five contexts are enough for two turns
of an `xsl:apply-templates` that run at the same time, one of them in a template of
its own.
In `AllocatorEntry` a request is smaller than, equal to and larger
than both the room left and the whole area; the lengths in `Strings` lie around each
place where a buffer grows. Three names in two buckets are a chain of two next to another
chain, and the array of the dictionary grows twice. Three templates are enough
for a pattern that comes again behind another of the same weight, in the list and in the
tree. Two runs with two variables show a value of the first run in the second. Three files are
an import inside an include and the reverse, one file taken in twice, and each
of them missing. Two operators decide every question of precedence and of sides. Three steps of
a path are a copy of a copy of a copy, the first that no longer knows its node. `Processors` has two of everything a run
can be confused with: another processor, another document. Each bound is
a constant (`MaxLost`, `MaxNodes`, `MaxAttributes`, `MaxContexts`, `MaxSteps`, `MaxBlocks`,
`MaxCalls`, `MaxUsed`, `MaxEdits`, `MaxDepth`, `MaxLocals`, `MaxRuns`, `MaxOperators`), stated in the guards.

`CHECK_DEADLOCK FALSE` stands where the system really may stop: at a bound, or when
the application calls nothing any more. `Join` and `InlineCall` do check for
deadlock: the pool reaches its end (`Terminated`) or goes on.

### Fairness

Weak fairness on what a scheduled thread does by itself: a worker in its loop, a
context that has instructions left, a caller past its first step,
`threadpool_free` once called. It is justified because each of these is a thread that
pthreads schedules, blocks on nothing that its guard does not name, and a template
comes to its end. No fairness is assumed on what nobody has to do: a new call,
the end of the library, a spurious wake-up, an enqueue that fails. In
`SharedCaches` weak fairness is enough for the mutex as well because the
number of evaluations is bounded; Perl is assumed to answer and a sort to end.
In `Documents` only the parser is fair: `do_parse` is a loop that waits for nobody, and
`ParserEnds` says how that goes on the texts of the instance: the parser comes to its end, reads what is not its own
(`UNDEFINED`), or is in a tag at a character that it does not pass (`Stuck`). The last two are in section 6;
what the property excludes is a loop anywhere else.

## 4. Proofs

The theorems hold for every value of the constants that the named assumptions admit.

**TaskPoolProofs** assumes `FinitePool` (finite disjoint sets of threads, calls,
contexts) and `OneRootPerCall`. None of the safety invariants of `TaskPool` is
inductive. `IInv` adds who is where: `Stacks` (the running contexts are those on
the stacks, each at one place), `Queued` (the queue holds queued contexts, each
once), `Jobs` (a worker with contexts on its stack is in a task, and nobody else is in
it), `Spawns` (a context on its way to the queue has one thread), `Contextual` (what a
context inherits), `OnWorkers` (the contexts on a worker's stack have the variable of its task, or
none and the mode SINGLE), `OnCallers`, `Variables` (the life of the variable along
the call) and `Counting`. The argument: a live context of a call that waits is queued with a unit of its own or sits on a worker whose task
still holds one, so the counter is at least one while anything is unfinished;
only such a context can count a new task in; so the counter cannot touch zero
early, and the variable is released after the last holder. From `IInv` follow
`TypeCorrect`, `CounterIsExact`, `JoinWaitsForAll`, `VariableOutlivesTasks`,
`TasksRunOnce`, `SingleStaysOnThread` and `BlockedCountsWaits`. That nobody sleeps on a
condition that already holds needs less: the conjuncts of `IInv` and the broadcasts are enough for
`WorkersWakeForWork` and `CallsWakeAtZero`.

Two results have a hypothesis of their own, `EnoughThreads`: no more calls than threads, which is
when `thread_pool_try_wait` refuses nobody (`NobodyRefused`). `Granted` says what this gives: no
call is inline, one that returned has released its variable, and all are over when the pool
is freed. From it follow `NothingIsDropped` and, step by step, the refinement
`PoolImplementsRun` of `RunSpec`. With more calls than threads an inline call comes back before
its tasks are done (section 6).

**PoolStartProofs** assumes `StartSizes`. `StartInv` adds `Joined`: `threadpool_free` is
past a worker only when that worker has left, by the flag or by a stop task. When the
loop over the threads ends, all have left and the queue can go (`QueueReleasedLast`).

**ProcessorsProofs** assumes, as a hypothesis of each theorem, `OneCall`: one thread of the
application calls the library and creates the pool before its first run. This is how the command line tool
uses the library; without it `PoolOffIsTemporary` and `NoUnknownThread` are false, as `Overlap` and `LatePool` show.
(`PoolComesBack` needs one application thread only.) `RightPlace` speaks of the moment of an allocation; what is
inductive is what each stage of a call has prepared for the next: `Stages` (which
allocator is current, and whose), `Modal` (a thread is in another mode than its own only in the
current allocator, and within a section), `Entered` (the calling thread has an entry in everything alive), `Pooled`
(the workers have entries where they will need them), `Switched` (who works for the call, and when
the pool is on) and `CachedAtHome` (what is cached was taken from the memory of the cache). From it follow `MemoryIsRight`, `CachesLive` and
`EveryThreadKnown`, for any number of workers, processors and documents.

**DocumentsProofs**, on the allocator, assumes `Sizes`. Its invariant adds to the types that the tail is
the last area, that no area is filled beyond its size (`Filled`), and that each block
ends below the offset of its area (`Below`), which is why the next one cannot overlap it.
`BlocksStayApart` is the conjunction that the run checks.

**LinkedProofs**, on the dictionary, assumes `DictConstants` and no more: any hash function, any size and
growth. `DictInv` says that a link leads to the last earlier entry of its bucket, with
none of the bucket in between (`Chained`, `InBucket`), that a head is the last entry
of its bucket (`Headed`), and that a walk has passed no entry with the name it looks for
(`Walked`). So the first hit is the newest entry of the name (`FoundIsNewest`), which is
the value of the abstract map: `DictionaryImplementsMap` is the refinement,
`EntriesStayInBounds` the room of the array.

On the list of the queue it assumes `LinkedConstants`, that NULL is no address. `LinkedInv` says that
there is a chain: a sequence of all allocated addresses, each once, from `head` to `tail`
along the links (`IsChain`). An enqueue appends its address to it (`ChainGrows`), a dequeue takes the
first one off (`ChainShrinks`). The mapping is computed by a walk of as many steps as there are
entries; `AlongChain`, by induction over the steps, and `ChainCounts` show that it reads exactly the
chain. `ListImplementsQueue` is the refinement, `EntriesStayList` the safety of the memory, for any
number of threads and whatever address `malloc` takes.

**DocumentsProofs**, on strings, assumes `StringsConstants`. `Sound` has two cases: a buffer for two bytes
or more grows before its last byte is reached; a smaller one never grows (the subtraction
wraps) and is never filled beyond what its maker promised. Each of the functions
preserves it, whatever the lengths, as long as `len` stays below the wrap.

On the task graph it assumes `TaskGraphConstants`, that NULL is no number. The argument for
`SavedGraphIsRun`: the edges are those of the starts that leave one, in the order of their numbers, each from the task
that made the start (`Drawing`), because number and edge are taken in one step; the vertex of a thread
in a task is yellow and has the key of the task (`Current`). The loop over the edges therefore meets each
of their contexts once: a target when its edge comes, as no edge before has to do with it, and a source
either as somebody's target, or yellow, when its own start left no edge (`VertexesAreContexts`).
That is an induction over the edges. `Nodes_` and `Stored` say that this stays true of what was written while a refused
run adds edges; for a run that waited there are none to add. It
holds for any number of threads and templates.

On documents it assumes `DocumentsConstants`, that what an application hands to the parser is told from
NULL. `Linked` is about what is shown and not inductive; `DocumentsInv` splits the memory in two.
`Own`: from the address `root` on lies what was parsed last, a family in which all links agree, but for the
parent of what stands behind a closed root. `Held`: below it lies the document under construction, a set of nodes `D` that no link leaves and in which each node
is in the list of one `holder`. The holder is needed because `parent` does not say it: the nodes of a
string but the first keep the parent they had in the string, which is outside `D`, and for that reason is
never shown. `Forwards` says that `next` and `children` lead to larger addresses, so that lists and
trees end; `Separate` that nothing leads from below `root` to what was parsed. What
the parser made or closed last need not be below the element that is open: behind a closed root it is that element
itself, or nothing is open (`In`), and `previous` has no meaning until a tag is left (`Inside`). `FamilyInserted`
shows that the parser keeps this when it adds a node behind the previous one, `FamilyLinked` that it holds when the list that was parsed goes
to its element: `D` and `holder` grow and the rest is left behind. What `Siblings` and `Descendants`
return stays among the nodes that no link leaves, by induction over their depth
(`SiblingsWithin`, `DescendantsWithin`). So `DocumentsLinked` holds for any texts, whether they are
well formed, close their root and go on, or break off, and any number of edits. (After `UNDEFINED` nothing is
said: the model ends there.)

**SharedCachesProofs** assumes `Evaluation`. `CacheInv` says that a thread that began
when the dictionary had a value for its key still finds that value there, and is never on
the way to an answer of its own (`Settled`); it needs to know which steps belong to which
keys (`Keyed`). `LockInv` ties the lock to the steps of its holder, also when
it is taken twice. `Once` says that a thread that has compiled a well-formed expression finds it in the
dictionary or is about to add it, so that it never compiles it again (`NeverCompiledTwice`). Of a malformed
expression it is false, and nothing is claimed.

**OutputOrderProofs** assumes nothing of the constants: any number of threads, nodes and
contexts. `OutputInv` adds to the two theorems what no test of the output shows.
`Writers`: contexts that are not done and write to one node lie on the stack of one
thread. `Scopes` says the same of those with one variable list, when one of them may write
to it, and `Loops` that the list an `xsl:apply-templates` hands out belongs to nobody who
does. `Nesting`: a context was made by the instruction that the one below it
on its stack is at. `Ordered`: what a context will make comes behind all that its result
has. The argument: a thread appends to the result of its innermost context; whoever else
writes to that node waits further down the same stack, inside an instruction that
encloses the one that runs, so its next label is larger (`GrownOrder`); and a new context
gets a node that nobody has, or shares one with the maker that waits for it (`MadeStack`). From this follow
`NothingIsShared` and `SiblingsStayInOrder`.

For the shape of the tree `TreeInv` relates the labels of nodes to their links: what is inside a
context was made by the instructions it is past (`Numbered`); no two nodes have one
label (`Distinct`); the result of a context is the innermost node around it (`Enclosed`);
a node hangs below the innermost node around it (`Hanging`), which is `NodesUnderInnermost`. An attribute of `xsl:attribute` or `xsl:copy`
goes where `Home` finds an element on the way up through slots, one of `xsl:copy-of` to the innermost node: a recursive function, of which existence is shown by
giving it explicitly and the value by a least counterexample (`HomeIsHome`). Two contexts may
race for one attribute list, and then it may lose an attribute; what it holds is home all
the same (`Placement`, `AttributesAreHome`).

**StylesheetProofs**, on variables, assumes `VariablesConstants`: a value is not NULL, and the
globals have names. `VariablesInv` says that every list has a name once (`Lists`), that the
list of a context has exactly the bindings of its template (`Mirrors`), and that every global is of
this run (`OfThisRun`). A name that is there once may stand anywhere: so a new pair may go to
either end, and the copy may be reversed. `ReadsAreCurrent` follows, for any depth of contexts and any
number of runs.

On settings it assumes `SettingsConstants`, the types of catalogues and calls. `RightsInv` says that
the rights of the user are those of groups that are defined, and so final; `CataloguesInv` adds
the types to `CataloguesOwnedOnce`. What is shown is computed by two recursive functions, over
the pieces of a text (`FlattenSeq`) and over the pairs of a call (`Filled`). `AllNumbers`, induction over a set of
numbers, shows that both exist and what their values hold (`FlattenHolds`, `FilledHolds`). Together they
give `SetupHolds`.

**Only model-checked**: the liveness properties, and what `Templates`, `XPathSyntax`, `XPathNodes`, `XPathFunctions`
and `Sheets` promise. Liveness is out of reach of the prover. The five modules are written with
RECURSIVE operators, as the functions of the program call each other, and the prover cannot reason about
these; that they are correct is an induction over trees. So is `ReadBack` of `Documents`: what was
written is read back because the parser's state follows the recursion of `output_node_rec`
through the text. A computation by one recursive function over numbers is in reach, as
`Settings`, `TaskGraph` and the lists of `Documents` show.

## 5. Plan

Done: the concurrent core first (`TaskPool`, `LinkedQueue`, `PoolStart`, `OutputOrder`, `Processors`,
`SharedCaches`, `AllocatorEntry`), then every sequential component from the bottom up
(`Dictionary`, `Strings`, `Documents`, `XPathSyntax`, `XPathNodes`, `XPathFunctions`, `Templates`,
`Variables`, `Settings`, `Sheets`, `TaskGraph`).

What is left, in this order:

1. `CompiledAsWritten`, `FoundAsDefined` and `SheetLoaded`, where recursion over trees can be put as recursive
   functions over their paths.
2. `TaskGraph` over two runs of a processor, once the list of edges is emptied between them.
3. The extension functions of `functions.c` that work on text (`ltr:url_encode`, `ltr:str_escape`), and `document()`.

## 6. What the checks found

- **Overlapping runs lose the pool** (`Overlap`). `XSLTProcess` saves `gctx->pool`, sets it to NULL
  and restores it later (`transform.c:661-669`). A second call in between saves
  NULL and, if it restores last, leaves the library without its pool for good. A
  run that is already forking finds NULL as well.
- **A pool that comes late is not told of the processor's memory** (`LatePool`).
  `has_pool_memory` is set although `threadpool_set_allocator` had no pool to work on
  (`transform.c:672-676`). Workers of a pool created after the first run have
  no entry in the processor's allocator: the first expression they compile ends in
  "unknown thread" and a NULL. Create the pool before the first run.
- **A failed start joins threads that do not exist** (`StartPoolUndefined`,
  `threadpool.c:91-94`): undefined behaviour where `threadpool.h:18` says that NULL is
  returned.

Met while modelling, without a statement in the repository to hold it against:

- A call that is refused its wait (`thread_pool_try_wait`) runs inline without a shared
  variable while its instructions still fork into the pool, so it may return before its
  document is finished, and `threadpool_free` may drop tasks. `JoinIsComplete` is
  therefore stated for calls that waited, and `NothingDropped` and `RunSpec` are
  checked with no more calls than pool threads.
- `current_allocator` is one variable for all threads: concurrent runs allocate from
  each other's documents. `RightPlace` is checked for one application thread.
- `XMLOutput`, `XMLCreateElement` and the `XMLAdd` functions allocate from whatever
  allocator is current, even one that was released. Write a result out before
  any other document is freed.
- Only the thread that called `XSLTInit`, and the pool's threads, have an entry in
  the global allocator.
- `XSLTEnableExternalCache` after the pool was created leaves the workers without
  clients: every URL goes to Perl.
- Tasks that add attributes to an element around them both may lose one, and
  `xsl:copy` of three attributes keeps the first and the last (`instructions.c:417`).
- `xsl:copy-of` of an attribute inside `xsl:for-each`, `xsl:call-template` or `xsl:apply-templates` adds it to the
  slot of that instruction (`transform.c:62-68`), which is never written. It takes the value away from the
  attribute it copies, and the attribute node that `@name` makes has no name (`xpath.c:893-898`).
- A malformed expression is compiled at every evaluation, and its text copied each time into memory
  that lives with the processor: `xpath_compile` returns NULL, which the dictionary holds but a lookup cannot tell
  from absent (`xpath.c:41-47,1314-1315`).
- `test/allocator_test.c:30-33` expects NULL from an allocator that is full; it grows instead.

Where the sequential code differs from the language it implements. The models do what
the code does; the properties are stated for the rest.

*Templates.* A pattern that ends in a name goes into the tree of names whatever comes
before: `a[x]/b` matches every `a/b`, and `//a` is `/a`. The deepest path of the tree hides the template
of a shorter pattern. A template with `match` and `name` cannot be called by name. A pattern
defined again keeps its old place in a tie. `select_match` takes `>` for `>=`.

*Selections.* `axis::kind()` leaves its ")" behind; `/*` loses the root for its
first step; `//` leaves out the node itself, so that `a//b` misses the children of `a`;
`.` and `..` give nothing for a text or the root; parent and ancestor stop at any element called
`root`; following and preceding are siblings, and of the nearest, when it does not fit itself, only the last
descendant that does (`xpath.c:386-389,421-425`); a second filter by position
counts across the whole selection; the last node of a union has no position of its own; a copy
of a copy has a member of the selection before as its original. `xsl:sort` inside
an `xsl:apply-templates` without `select` sorts the children of the document in place
(`instructions.c:83,124`, `xpath.c:560-567`); of several `xsl:sort` the last one is primary. A call
whose bracket is missing does not end. `match()` lets the blank behind a word operator match a "(" and reads it
(`xpath.c:1015-1029`): `a and(b or c)` is `(a and b) or c`, with the ")" left over. Before anything but
a blank or a bracket the word is no operator.

*Values.* The string of a node takes in its following siblings; NULL is less than anything; NaN
is true; `substring` overflows near `INT_MAX` and gives nothing for a start below
zero; `translate` maps a character again that it has just put, and reads behind a replacement
that is too short; `format-number` writes a comma in front and takes the logarithm of zero;
`mod` by zero. `key()` evaluates from the current node and prints the name and the
value into its expression.

*Variables.* A second `xsl:param` of a name doubles it, and the reversed copy brings the older
value to the front. A global that reads a later one finds nothing. Parameters
of the context last for one run (`transform.c:715`). `xsl:apply-templates` without
`xsl:with-param` passes the parameters of its caller on. A top-level `xsl:param` is ignored.

*Loading.* A file that takes in itself is read until memory ends. The first `xsl:output` that is
met counts, several are not merged. Absolute paths are given a prefix as well. A result that was
recognised as HTML in one run stays HTML in the next (`transform.c:692-697`).

*Parser.* It does not end, and allocates all the while, on a tag that holds anything but names,
`=` and quotes (`parse.c:227-248`; `Stuck`). A `<?`, `<!DOCTYPE`, CDATA section, closing tag or
attribute value without its end is read beyond the end of the text, until the mark happens to come (`UNDEFINED`). What
opens after the root was closed is linked behind it, has all that follows below it, and is what is returned
(`parse.c:186-187`); what stands there has no parent, or the empty
element before it. A raw `<` from a script or a CDATA section comes back as such a tag. A
DOCTYPE without internal subset, which is what `XMLOutput` writes (`output.c:154-165`),
swallows the text behind it. Text after a processing instruction, and before the first `<`
of a string, is dropped. A closing name need only be a beginning of the open one; where none is open
its name is read from NULL (`parse.c:192-208`). An
empty CDATA section leaves "]]>" as text. Of unclosed elements the innermost is returned.
Processing instructions are written without the closing "?", and "&#" is written as it is.
`XMLAddChildFromString` gives its parent to the first node only and numbers nothing.

*Strings.* `xmls_add_char` on a string for at most one byte would write behind it; no caller does.

*Task graph.* Templates in mode SINGLE (below a variable, a parameter, an attribute) and those the application's thread
starts are not on the graph. A run that was refused its wait may be saved while its tasks still add edges:
such an edge leads to the number 0 (`template_task_graph.c:300-351`). Edges lie in the memory of the run's document and the list is never emptied, so a
second run reads memory that was released.
`turboxsltproc.c` hands a processor to `XSLTCreateThreadPool` where a global context is expected.

## 7. Not modelled

Logging, character classes, recursive mutexes (`logger.c`, `utils.c`, `thread_lock.c`) and the
command line tool hold no state that steps could confuse. `md5.c` and `zlog` are third
party; so are the tables of ck, the memcached client, the reader of PO files and Perl, of which only
what the code relies on appears (a table under one lock, a store that forgets, a catalogue as
records, an answer that may change). Of the extension functions only
`check_rights`, the localisation and `key` are modelled; `document()` reads a file, the
digests and url functions compute on single bytes, and some are stubs. Of `output.c` the
document type, the encoding and the mode TEXT, of `transform.c` the recognition of HTML and
the setters that store one value are left out. `xsl:number` appends the
text "1." (`instructions.c:461-465`), which is a `Leaf` of `OutputOrder`, and `xsl:message` logs its text
(`instructions.c:448-459`). In `OutputOrder` the values are left out, and so are the
contents of `xsl:variable`, `xsl:with-param` and `xsl:attribute`: they are built
below a node of their own, on the thread of the instruction (`CallSingle` in
`TaskPool`, `UncountedStaysOnThread`). Numbers in `XPathFunctions` are
hundredths: what floating point rounds away beyond that is not seen.
