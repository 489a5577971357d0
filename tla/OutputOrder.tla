---------------------------- MODULE OutputOrder ----------------------------
(***************************************************************************)
(* Where the output of a transformation goes: transform.c, instructions.c  *)
(* and xml_add_child of nodes.c, run by the threads of the pool.           *)
(*                                                                         *)
(* A template_context appends to the children of its result node.  An      *)
(* instruction that may run as a task first appends a node of its own, an  *)
(* EMPTY_NODE as a slot or the new element, and hands that to the context  *)
(* of the task.  No lock protects the tree: order and integrity rest on    *)
(* who gets which node.                                                    *)
(*                                                                         *)
(* Which instructions a template holds is left open.  Each context numbers *)
(* the instructions it meets, and what an instruction makes is labelled    *)
(* with the numbers that lead to it from the root: a run on one thread     *)
(* makes everything in the lexicographic order of these paths.             *)
(***************************************************************************)
EXTENDS Naturals, Sequences, SequencesExt

CONSTANTS
  Threads,       \* the threads of the pool
  MaxNodes,      \* bound: nodes of the output document
  MaxContexts,   \* bound: template_contexts
  MaxSteps,      \* bound: instructions a context meets
  MaxAttributes  \* bound: attributes of a node

ASSUME Bounds == {MaxNodes, MaxContexts, MaxSteps, MaxAttributes} \subseteq Nat \ {0}

VARIABLES
  nodes,      \* the nodes in the order of their creation, the root first
  contexts,   \* the template_contexts in the order of their creation
  stack,      \* the contexts each thread works on, innermost last
  link        \* the attribute list each thread is about to write

vars == <<nodes, contexts, stack, link>>

(* type, parent and children are fields of XMLNODE; of an attribute the     *)
(* path of the instruction that made it is kept, and whether that was a     *)
(* copy-of.  function is that of                                            *)
(* the task or call: "apply" is apply_xslt_template, "node" is              *)
(* process_one_node, "default" and "template" say how that went on.         *)
(* locals is the variable list, named after the context it was made for;    *)
(* loop is the list that an xsl:apply-templates in progress hands out.      *)

Node(type, parent, path) ==
  [type |-> type, parent |-> parent, path |-> path, children |-> <<>>, attributes |-> <<>>]

ByName(path) == [path |-> path, copied |-> FALSE]
ByCopyOf(path) == [path |-> path, copied |-> TRUE]

Context(result, locals, path, function, state) ==
  [result |-> result, locals |-> locals, path |-> path, function |-> function,
   state |-> state, step |-> 0, loop |-> 0]

\* XSLTProcess: the root of the output, and the task of the root context.
Init ==
  /\ nodes = <<Node("EMPTY", 0, <<>>)>>
  /\ contexts = <<Context(1, 1, <<>>, "node", "queued")>>
  /\ stack = [t \in Threads |-> <<>>]
  /\ link = [t \in Threads |-> <<>>]
-----------------------------------------------------------------------------
Current(t) == Last(stack[t])

\* Thread t is at the next instruction, or the next child, of a context that
\* is in one of the functions.
At(t, functions) ==
  /\ stack[t] # <<>> /\ link[t] = <<>>
  /\ contexts[Current(t)].function \in functions
  /\ contexts[Current(t)].step < MaxSteps

\* The label of what the next instruction of context c makes.
Here(c) == Append(contexts[c].path, contexts[c].step + 1)

\* Mutants of Linked: the child becomes the first one; the one before it is
\* linked once more.
Linked_first(parent, type, path) ==
  LET list == Append(nodes, Node(type, parent, path)) IN
  [list EXCEPT ![parent].children = <<Len(list)>> \o @]

\* xml_append_child: the new node is linked behind the last child.
Linked(parent, type, path) ==
  LET list == Append(nodes, Node(type, parent, path)) IN
  [list EXCEPT ![parent].children = Append(@, Len(list))]

\* Context c is past its next instruction.
Advanced(c, function, loop) ==
  [contexts EXCEPT ![c].step = @ + 1, ![c].function = function, ![c].loop = loop]

\* Mutant of ResultFor: the new context writes where the old one does.
ResultFor_same(c, type) == contexts[c].result

\* The node the new context writes to: the one made for it, if there is one.
ResultFor(c, type) == IF type = "none" THEN contexts[c].result ELSE Len(nodes) + 1

\* An instruction of the context on thread t makes a node of the type, unless
\* that is "none", and a context for it with the variable list and function
\* given; the context is called on the spot or queued as a task.
Make(t, type, locals, function, as, next, loop) ==
  LET c == Current(t)
      new == Context(ResultFor(c, type), locals, Here(c), function,
                     IF as = "task" THEN "queued" ELSE "running")
  IN
  /\ Len(contexts) < MaxContexts
  /\ type # "none" => Len(nodes) < MaxNodes
  /\ nodes' = IF type = "none" THEN nodes ELSE Linked(contexts[c].result, type, Here(c))
  /\ contexts' = Append(Advanced(c, next, loop), new)
  /\ stack' = IF as = "task" THEN stack
              ELSE [stack EXCEPT ![t] = Append(@, Len(contexts) + 1)]
  /\ UNCHANGED link

\* copy_variables, or a list without variables, for the context that comes.
Fresh == Len(contexts) + 1

\* template_task_run: in place or as a task, see TaskPool.
Ways == {"call", "task"}

\* value-of, text, number, comment, one node of a copy-of that is no attribute,
\* and the texts of the default process: a node without a context of its own.
Leaf(t) ==
  LET c == Current(t) IN
  /\ At(t, {"apply", "node", "default"})
  /\ Len(nodes) < MaxNodes
  /\ nodes' = Linked(contexts[c].result, "TEXT", Here(c))
  /\ contexts' = Advanced(c, IF contexts[c].function = "node" THEN "default"
                             ELSE contexts[c].function, 0)
  /\ UNCHANGED <<stack, link>>

\* Mutant of Home: it looks past one slot only.
Home_once(n) == IF nodes[n].type = "EMPTY" THEN nodes[n].parent ELSE n

\* The way up from a result node to the first node that is not a slot.
Home(n) ==
  LET up[m \in 0..Len(nodes)] ==
        IF m = 0 \/ nodes[m].type # "EMPTY" THEN m ELSE up[nodes[m].parent]
  IN up[n]

\* Nothing happens where there is no element.  Nobody locks the list: another
\* thread may write it between the look at its head and the new head.
Look(t, home, list) ==
  /\ Len(list) <= MaxAttributes
  /\ link' = [link EXCEPT ![t] = IF home = 0 THEN <<>> ELSE <<home, list>>]
  /\ contexts' = Advanced(Current(t), "apply", 0)
  /\ UNCHANGED <<nodes, stack>>

\* instruction_attribute, with a name that the element does not have yet.
Attribute(t) ==
  LET c == Current(t)
      home == Home(contexts[c].result)
  IN
  /\ At(t, {"apply"})
  /\ Look(t, home, IF home = 0 THEN <<>> ELSE <<ByName(Here(c))>> \o nodes[home].attributes)

\* instruction_copy of an attribute: it looks past one slot only, and keeps
\* nothing but the first attribute that is there.
CopyAttribute(t) ==
  LET c == Current(t)
      result == contexts[c].result
      up == IF nodes[result].type = "EMPTY" THEN nodes[result].parent ELSE result
      home == IF up = 0 \/ nodes[up].type # "ELEMENT" THEN 0 ELSE up
  IN
  /\ At(t, {"apply"})
  /\ Look(t, home, IF home = 0 \/ nodes[home].attributes = <<>> THEN <<ByName(Here(c))>>
                   ELSE <<Head(nodes[home].attributes), ByName(Here(c))>>)

\* copy-of, at an attribute of its selection: copy_node_to_result_rec does not
\* look past slots, and writes into one that it meets.
CopyOfAttribute(t) ==
  LET c == Current(t)
      result == contexts[c].result
  IN
  /\ At(t, {"apply"})
  /\ Look(t, result, <<ByCopyOf(Here(c))>> \o nodes[result].attributes)

Link(t) ==
  /\ link[t] # <<>>
  /\ nodes' = [nodes EXCEPT ![link[t][1]].attributes = link[t][2]]
  /\ link' = [link EXCEPT ![t] = <<>>]
  /\ UNCHANGED <<contexts, stack>>

\* if and choose: the same result and the same variables.
Branch(t) ==
  /\ At(t, {"apply"})
  /\ Make(t, "none", contexts[Current(t)].locals, "apply", "call", "apply", 0)

\* An element of the stylesheet, with a copy of the variables.
LiteralElement(t) ==
  /\ At(t, {"apply"})
  /\ Make(t, "ELEMENT", Fresh, "apply", "call", "apply", 0)

\* xsl:copy of an element or a text; its content shares the variables.
Copy(t) ==
  /\ At(t, {"apply"})
  /\ \E type \in {"ELEMENT", "TEXT"} :
       Make(t, type, contexts[Current(t)].locals, "apply", "call", "apply", 0)

\* xsl:element; xsl:call-template and each turn of xsl:for-each.
Element(t) ==
  /\ At(t, {"apply"})
  /\ \E as \in Ways : Make(t, "ELEMENT", Fresh, "apply", as, "apply", 0)

Slot(t) ==
  /\ At(t, {"apply"})
  /\ \E as \in Ways : Make(t, "EMPTY", Fresh, "apply", as, "apply", 0)

\* One turn of xsl:apply-templates: all its contexts get one variable list.
ApplyTemplates(t) ==
  LET loop == contexts[Current(t)].loop IN
  /\ At(t, {"apply"})
  /\ \E list \in {Fresh} \cup ({loop} \ {0}), as \in Ways :
       Make(t, "EMPTY", list, "node", as, "apply", list)

\* Mutant of ProcessTemplate: the template gets the variables of its caller.
ProcessTemplate_shared(t) ==
  /\ At(t, {"node"})
  /\ Make(t, "none", contexts[Current(t)].locals, "apply", "call", "template", 0)

\* process_one_node has found a template: it has variables of its own.
ProcessTemplate(t) ==
  /\ At(t, {"node"})
  /\ Make(t, "none", Fresh, "apply", "call", "template", 0)

\* apply_default_process, at a child that is not a text.
DefaultChild(t) ==
  /\ At(t, {"node", "default"})
  /\ Make(t, "EMPTY", Fresh, "node", "call", "default", 0)

\* The function of the current context returns.
Return(t) ==
  /\ stack[t] # <<>> /\ link[t] = <<>>
  /\ contexts' = [contexts EXCEPT ![Current(t)].state = "done"]
  /\ stack' = [stack EXCEPT ![t] = Front(@)]
  /\ UNCHANGED <<nodes, link>>

\* A pool thread takes a task; in which order is left open.
TakeTask(t, c) ==
  /\ stack[t] = <<>>
  /\ contexts[c].state = "queued"
  /\ contexts' = [contexts EXCEPT ![c].state = "running"]
  /\ stack' = [stack EXCEPT ![t] = <<c>>]
  /\ UNCHANGED <<nodes, link>>

Next ==
  \E t \in Threads :
    \/ Leaf(t) \/ Attribute(t) \/ CopyAttribute(t) \/ CopyOfAttribute(t) \/ Link(t) \/ Branch(t)
    \/ LiteralElement(t) \/ Copy(t) \/ Element(t) \/ Slot(t) \/ ApplyTemplates(t) \/ ProcessTemplate(t) \/ DefaultChild(t)
    \/ Return(t)
    \/ \E c \in 1..Len(contexts) : TakeTask(t, c)

Spec == Init /\ [][Next]_vars
-----------------------------------------------------------------------------
Paths == Seq(Nat \ {0})
Attributes == [path : Paths, copied : BOOLEAN]

(***************************************************************************)
(* The type invariant.                                                     *)
(***************************************************************************)
TypeOK ==
  /\ Len(nodes) \in 1..MaxNodes /\ Len(contexts) \in 1..MaxContexts
  /\ \A i \in 1..Len(nodes) : LET n == nodes[i] IN
       /\ n.type \in {"EMPTY", "ELEMENT", "TEXT"}
       /\ n.parent \in 0..(i - 1)
       /\ n.path \in Paths
       /\ n.children \in Seq((i + 1)..Len(nodes))
       /\ n.attributes \in Seq(Attributes)
  /\ \A i \in 1..Len(contexts) : LET c == contexts[i] IN
       /\ c.result \in 1..Len(nodes)
       /\ c.locals \in 1..i /\ c.loop \in 0..Len(contexts)
       /\ c.path \in Paths /\ c.step \in Nat
       /\ c.function \in {"apply", "node", "default", "template"}
       /\ c.state \in {"queued", "running", "done"}
  /\ \A t \in Threads :
       /\ stack[t] \in Seq(1..Len(contexts))
       /\ link[t] # <<>> => link[t] \in (1..Len(nodes)) \X Seq(Attributes)

\* What path p leads to is made before what q leads to, on one thread.
Before(p, q) ==
  \E i \in 1..Len(p) :
    /\ i <= Len(q) /\ p[i] < q[i]
    /\ \A j \in 1..(i - 1) : p[j] = q[j]

(***************************************************************************)
(* The children of every node stand in the order in which a run on one     *)
(* thread would have made them, at every moment and however the tasks are  *)
(* interleaved.                                                            *)
(***************************************************************************)
SiblingsInOrder ==
  \A n \in 1..Len(nodes) : LET list == nodes[n].children IN
    \A i, j \in 1..Len(list) : i < j => Before(nodes[list[i]].path, nodes[list[j]].path)

(***************************************************************************)
(* Every node hangs below the innermost node whose instruction encloses    *)
(* its own.  Together with SiblingsInOrder this leaves one tree: the one   *)
(* that a run on one thread makes.                                         *)
(***************************************************************************)
UnderInnermost ==
  \A n \in 2..Len(nodes) : LET parent == nodes[n].parent IN
    /\ n \in ToSet(nodes[parent].children)
    /\ IsStrictPrefix(nodes[parent].path, nodes[n].path)
    /\ \A m \in 1..Len(nodes) :
         IsStrictPrefix(nodes[m].path, nodes[n].path) => IsPrefix(nodes[m].path, nodes[parent].path)

(***************************************************************************)
(* An attribute of xsl:attribute or xsl:copy reaches the innermost node    *)
(* around it that is not a slot, through any number of slots, whatever     *)
(* other threads add to them or to the attribute list at the time          *)
(* (instructions.c:158-175).  One of xsl:copy-of stays at the innermost    *)
(* node around it, even at a slot (transform.c:62-68).                     *)
(***************************************************************************)
AttributeIsHome ==
  \A n \in 1..Len(nodes) : \A a \in ToSet(nodes[n].attributes) :
    /\ IsStrictPrefix(nodes[n].path, a.path)
    /\ a.copied \/ nodes[n].type # "EMPTY"
    /\ \A m \in 1..Len(nodes) :
         IsStrictPrefix(nodes[m].path, a.path) /\ IsStrictPrefix(nodes[n].path, nodes[m].path)
           => nodes[m].type = "EMPTY" /\ ~a.copied

\* Two contexts that may run at the same time.
Concurrent(c, d) ==
  /\ c # d
  /\ contexts[c].state # "done" /\ contexts[d].state # "done"
  /\ \A t \in Threads : ~({c, d} \subseteq ToSet(stack[t]))

(***************************************************************************)
(* xml_add_child needs no lock: contexts that may run at the same time     *)
(* never append to the same node.                                          *)
(***************************************************************************)
OneWriter ==
  \A c, d \in 1..Len(contexts) :
    Concurrent(c, d) => contexts[c].result # contexts[d].result

(***************************************************************************)
(* do_local_var and add_local_var need no lock: a variable list that       *)
(* contexts on several threads hold, as those of one xsl:apply-templates   *)
(* do, is only read, because process_one_node makes a list for a template. *)
(***************************************************************************)
OneScope ==
  \A c, d \in 1..Len(contexts) :
    Concurrent(c, d) /\ contexts[c].function = "apply"
      => contexts[c].locals # contexts[d].locals

(***************************************************************************)
(* Neither the output nor the variable lists need a lock: no node and no   *)
(* list that one thread writes is in the hands of another (nodes.c:49-67,  *)
(* variables.c:164-226, instructions.c:127-144).                           *)
(***************************************************************************)
NothingShared == OneWriter /\ OneScope
=============================================================================
