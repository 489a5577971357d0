------------------------------ MODULE TaskGraph ------------------------------
(***************************************************************************)
(* template_task_graph.c: the picture of a run.  A template that is        *)
(* started, in place or as a task, adds an edge from the task of the       *)
(* thread that starts it, unless its mode is SINGLE or that thread has no  *)
(* task; the edges of all threads go into one list under a lock, and after *)
(* the run vertexes of one key are made one.                               *)
(* Modelled for one run (the list is never emptied; see the README).       *)
(***************************************************************************)
EXTENDS Null, Naturals, Sequences, FiniteSets, SequencesExt

CONSTANTS Workers,     \* threads of the pool
          MaxContexts  \* bound on the templates that are started

VARIABLES run,      \* how the run began and where it is: "task", or "inline" when the
                    \* pool refused the wait, and "ended" when that has returned
          contexts, \* the number of template contexts so far; they are the keys
          queue,    \* tasks that wait for a thread
          running,  \* the task of each thread, or NULL
          current,  \* vertex_key: the vertex of each thread, or NULL
          starting, \* the context of each thread that is on the graph, but not yet
                    \* a task, or NULL
          edges,    \* from graph->head on: [source, target], vertexes
          met,      \* what template_task_graph_vertexes found, or NULL: the vertexes,
                    \* and how many edges and contexts there were
          saved,    \* what template_task_graph_save wrote, or NULL
          started   \* model only: who started each context, and how: "none" is a
                    \* start that leaves no edge

ASSUME TaskGraphConstants == NULL \notin Nat

graphVars == <<run, contexts, queue, running, current, starting, edges, met, saved, started>>

Vertex(context, color) == [key |-> context, color |-> color]

Idle == [w \in Workers |-> NULL]

\* template_task_run_and_wait: the thread of the application has no vertex, so the root
\* leaves no edge
TaskGraphInit == /\ run \in {"task", "inline"}
                 /\ contexts = 1
                 /\ queue = IF run = "task" THEN <<1>> ELSE <<>>
                 /\ running = Idle /\ current = Idle /\ starting = Idle
                 /\ edges = <<>>
                 /\ met = NULL /\ saved = NULL
                 /\ started = <<[by |-> NULL, how |-> "none"]>>

\* the context by starts the next one
Starts(by, how) ==
    /\ contexts < MaxContexts
    /\ contexts' = contexts + 1
    /\ started' = Append(started, [by |-> by, how |-> how])

\* in a run without a wait the application's thread starts templates, as tasks or in
\* place; without a vertex template_task_graph_add leaves no edge
StartsUnseen ==
    /\ run = "inline" /\ Starts(1, "none")
    /\ queue' \in {queue, Append(queue, contexts + 1)}
    /\ UNCHANGED <<run, running, current, starting, edges, met, saved>>

InlineEnds ==
    /\ run = "inline" /\ run' = "ended"
    /\ UNCHANGED <<contexts, queue, running, current, starting, edges, met, saved, started>>

\* a thread of the pool takes a task: template_task_graph_set_current
TakeTask(w) ==
    /\ running[w] = NULL /\ queue # <<>>
    /\ running' = [running EXCEPT ![w] = Head(queue)]
    /\ current' = [current EXCEPT ![w] = Vertex(Head(queue), "yellow")]
    /\ queue' = Tail(queue)
    /\ UNCHANGED <<run, contexts, starting, edges, met, saved, started>>

\* below a variable, a parameter or an attribute the mode is SINGLE: the template runs in
\* place and the graph is not told
template_task_run_single(w) ==
    /\ running[w] # NULL /\ starting[w] = NULL
    /\ Starts(running[w], "none")
    /\ UNCHANGED <<run, queue, running, current, starting, edges, met, saved>>

Edge(w, color) ==
    /\ running[w] # NULL /\ starting[w] = NULL
    /\ Starts(running[w], color)
    /\ edges' = Append(edges, [source |-> current[w], target |-> Vertex(contexts + 1, color)])
    /\ UNCHANGED <<run, running, current, met, saved>>

\* the template runs in place, with the vertex of the task around it
template_task_graph_add_serial(w) == Edge(w, "red") /\ UNCHANGED <<queue, starting>>

\* and one that will be a task
template_task_graph_add_parallel(w) ==
    /\ Edge(w, "green")
    /\ starting' = [starting EXCEPT ![w] = contexts + 1]
    /\ UNCHANGED queue

threadpool_start(w) ==
    /\ starting[w] # NULL
    /\ queue' = Append(queue, starting[w])
    /\ starting' = [starting EXCEPT ![w] = NULL]
    /\ UNCHANGED <<run, contexts, running, current, edges, met, saved, started>>

\* the vertex stays with the thread until its next task
TaskEnds(w) == /\ running[w] # NULL /\ starting[w] = NULL
               /\ running' = [running EXCEPT ![w] = NULL]
               /\ UNCHANGED <<run, contexts, queue, current, starting, edges, met, saved, started>>

Known(list, v) == \E i \in DOMAIN list : list[i].key = v.key

Meet_last(list, v) ==
    IF Known(list, v)
    THEN [i \in DOMAIN list |-> IF list[i].key = v.key THEN v ELSE list[i]]
    ELSE Append(list, v)

\* of the vertexes with one key the first that is met; their numbers are the places in the
\* list
Meet(list, v) == IF Known(list, v) THEN list ELSE Append(list, v)

\* the loop over the edges, source before target
template_task_graph_vertexes ==
    LET list[i \in 0..Len(edges)] ==
            IF i = 0 THEN <<>> ELSE Meet(Meet(list[i - 1], edges[i].source), edges[i].target)
    IN  list[Len(edges)]

\* the run has returned: all its tasks have ended, unless it was refused its wait
Returned == \/ run = "task" /\ queue = <<>> /\ running = Idle
            \/ run = "ended"

\* template_task_graph_save, up to the nodes it writes; it takes no lock
WriteNodes ==
    /\ met = NULL /\ Returned
    /\ met' = [nodes |-> template_task_graph_vertexes, edges |-> Len(edges),
               contexts |-> contexts]
    /\ UNCHANGED <<run, contexts, queue, running, current, starting, edges, saved, started>>

\* the number of a vertex; one that has not been met has the number 0, and of an edge that
\* has not been met the source is not replaced
Id(v) == SelectInSeq(met.nodes, LAMBDA u : u.key = v.key)
LateId(v) == SelectInSeq(met.nodes, LAMBDA u : u = v)

template_task_graph_save ==
    /\ met # NULL /\ saved = NULL
    /\ saved' = [nodes |-> met.nodes,
                 edges |-> [i \in DOMAIN edges |->
                              IF i <= met.edges
                              THEN [source |-> Id(edges[i].source), target |-> Id(edges[i].target)]
                              ELSE [source |-> LateId(edges[i].source),
                                    target |-> LateId(edges[i].target)]]]
    /\ UNCHANGED <<run, contexts, queue, running, current, starting, edges, met, started>>

TaskGraphNext ==
    \/ StartsUnseen \/ InlineEnds
    \/ \E w \in Workers : \/ TakeTask(w) \/ TaskEnds(w) \/ template_task_run_single(w)
                          \/ template_task_graph_add_serial(w)
                          \/ template_task_graph_add_parallel(w) \/ threadpool_start(w)
    \/ WriteNodes \/ template_task_graph_save

TaskGraphSpec == TaskGraphInit /\ [][TaskGraphNext]_graphVars

-----------------------------------------------------------------------------
\* The contexts whose start left an edge before the nodes were written; with the tasks
\* they were started in they are the contexts on the graph.
Recorded == {c \in 1..met.contexts : started[c].how # "none"}
OnGraph == Recorded \cup {started[c].by : c \in Recorded}
NodeOf(c) == CHOOSE i \in DOMAIN saved.nodes : saved.nodes[i].key = c

\* One node for each context on the graph, with the color of the way it was started in
\* although its own edges, added by another thread, know no color; and one edge to each
\* start that left one, from the task it was made in.
Picture ==
    /\ {saved.nodes[i].key : i \in DOMAIN saved.nodes} = OnGraph
    /\ \A i, j \in DOMAIN saved.nodes : saved.nodes[i].key = saved.nodes[j].key => i = j
    /\ \A i \in DOMAIN saved.nodes : LET c == saved.nodes[i].key IN
          saved.nodes[i].color = IF c \in Recorded THEN started[c].how ELSE "yellow"
    /\ {saved.edges[i] : i \in DOMAIN saved.edges}
          = {[source |-> NodeOf(started[c].by), target |-> NodeOf(c)] : c \in Recorded}
    /\ \A i, j \in DOMAIN saved.edges : saved.edges[i].target = saved.edges[j].target => i = j

(***************************************************************************)
(* The saved graph is the run, but for the starts that it is not told of:  *)
(* those in SINGLE mode (template_task.c:32-37) and those of a thread      *)
(* without a vertex (template_task_graph.c:149-154).  A run that waited    *)
(* for its tasks is complete on it; of one that was refused its wait it is *)
(* what there was when it was written, unless a task added an edge         *)
(* between the nodes and the edges (template_task_graph.c:51-109,          *)
(* 300-351).                                                               *)
(***************************************************************************)
GraphIsRun ==
    saved # NULL =>
      /\ run = "task" => met.contexts = contexts /\ Len(saved.edges) = met.edges
      /\ Len(saved.edges) = met.edges => Picture
=============================================================================
