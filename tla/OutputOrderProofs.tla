-------------------------- MODULE OutputOrderProofs --------------------------
(***************************************************************************)
(* Theorems about OutputOrder, for any number of threads: contexts that    *)
(* may run at the same time share neither a result node nor a variable     *)
(* list, the children of every node stand in the sequential order, every   *)
(* node hangs below the innermost one around it, and every attribute is at *)
(* the innermost node around it, or, unless xsl:copy-of made it, at the    *)
(* innermost that is not a slot.                                           *)
(***************************************************************************)
EXTENDS OutputOrder, SequenceTheorems, WellFoundedInduction, TLAPS

Ids == 1..Len(contexts)

FunctionNames == {"apply", "node", "default", "template"}

\* Of an attribute list it does not matter what it holds.
NodeRecords(A) == [type : {"EMPTY", "ELEMENT", "TEXT"}, parent : Nat, path : Seq(Nat),
                   children : Seq(Nat), attributes : A]
ContextRecords == [result : Nat, locals : Nat, path : Seq(Nat), function : FunctionNames,
                   state : {"queued", "running", "done"}, step : Nat, loop : Nat]

NodesTyped == \E A : nodes \in Seq(NodeRecords(A))
ContextsTyped == contexts \in Seq(ContextRecords)

-----------------------------------------------------------------------------
\* What Linked makes of the list of nodes.
LEMMA LinkedNodes ==
  ASSUME NodesTyped, NEW r \in 1..Len(nodes), NEW type \in {"EMPTY", "ELEMENT", "TEXT"},
         NEW p \in Seq(Nat), nodes' = Linked(r, type, p)
  PROVE  /\ NodesTyped' /\ Len(nodes') = Len(nodes) + 1
         /\ \A n \in 1..Len(nodes) :
              /\ nodes'[n].path = nodes[n].path
              /\ nodes'[n].children = IF n = r THEN Append(nodes[n].children, Len(nodes) + 1)
                                      ELSE nodes[n].children
         /\ nodes'[Len(nodes) + 1].path = p /\ nodes'[Len(nodes) + 1].children = <<>>
<1>1. PICK A : nodes \in Seq(NodeRecords(A))
  BY DEF NodesTyped
<1> DEFINE B == A \cup {<<>>}
           new == Node(type, r, p)
           list == Append(nodes, new)
<1>2. new \in NodeRecords(B) /\ new.path = p /\ new.children = <<>>
  BY DEF Node, NodeRecords
<1>3. /\ nodes \in Seq(NodeRecords(B)) /\ Len(nodes) \in Nat
      /\ \A n \in 1..Len(nodes) : nodes[n] \in NodeRecords(B)
  <2>1. /\ Len(nodes) \in Nat /\ nodes \in [1..Len(nodes) -> NodeRecords(A)]
    BY <1>1
  <2>2. NodeRecords(A) \subseteq NodeRecords(B)
    BY DEF NodeRecords
  <2> HIDE DEF B
  <2>3. nodes \in [1..Len(nodes) -> NodeRecords(B)]
    BY <2>1, <2>2
  <2> QED
    BY <2>1, <2>3
<1> HIDE DEF new, B
<1>4. /\ list \in Seq(NodeRecords(B)) /\ Len(list) = Len(nodes) + 1
      /\ \A n \in 1..Len(nodes) : list[n] = nodes[n]
      /\ list[Len(nodes) + 1] = new
  BY <1>2, <1>3
<1>5. nodes' = [list EXCEPT ![r].children = Append(@, Len(list))]
  BY DEF Linked, new
<1> HIDE DEF list
<1>6. list[r] \in NodeRecords(B) /\ list[r].children \in Seq(Nat) /\ list[r] = nodes[r]
  BY <1>3, <1>4 DEF NodeRecords
<1> DEFINE kids == Append(list[r].children, Len(list))
<1>7. kids \in Seq(Nat) /\ kids = Append(nodes[r].children, Len(nodes) + 1)
  BY <1>3, <1>4, <1>6
<1> HIDE DEF kids
<1> DEFINE grown == [list[r] EXCEPT !.children = kids]
<1>8. grown \in NodeRecords(B) /\ grown.path = nodes[r].path /\ grown.children = kids
  BY <1>6, <1>7 DEF NodeRecords
<1>9. nodes' = [list EXCEPT ![r] = grown]
  BY <1>5 DEF kids
<1> HIDE DEF grown
<1>10. /\ list \in [1..Len(list) -> NodeRecords(B)] /\ r \in 1..Len(list) /\ Len(list) \in Nat
  BY <1>3, <1>4
<1>11. /\ nodes' \in [1..Len(list) -> NodeRecords(B)]
       /\ nodes'[r] = grown /\ \A n \in 1..Len(list) : n # r => nodes'[n] = list[n]
  BY <1>8, <1>9, <1>10
<1>12. nodes' \in Seq(NodeRecords(B)) /\ Len(nodes') = Len(list)
  BY <1>10, <1>11
<1>13. NodesTyped'
  BY <1>12 DEF NodesTyped
<1>14. ASSUME NEW n \in 1..Len(nodes)
       PROVE  /\ nodes'[n].path = nodes[n].path
              /\ nodes'[n].children = IF n = r THEN Append(nodes[n].children, Len(nodes) + 1)
                                      ELSE nodes[n].children
  <2>1. n \in 1..Len(list) /\ list[n] = nodes[n]
    BY <1>3, <1>4
  <2>2. CASE n = r
    BY <2>2, <1>7, <1>8, <1>11
  <2>3. CASE n # r
    BY <2>1, <2>3, <1>11
  <2> QED
    BY <2>2, <2>3
<1>15. nodes'[Len(nodes) + 1] = new
  <2>1. Len(nodes) + 1 \in 1..Len(list) /\ Len(nodes) + 1 # r
    BY <1>3, <1>4
  <2> QED
    BY <2>1, <1>4, <1>11
<1> QED
  BY <1>2, <1>4, <1>12, <1>13, <1>14, <1>15

\* ... and what it leaves alone.
LEMMA LinkedFields ==
  ASSUME NodesTyped, NEW r \in 1..Len(nodes), NEW type, NEW p, nodes' = Linked(r, type, p)
  PROVE  /\ \A n \in 1..Len(nodes) : /\ nodes'[n].type = nodes[n].type
                                      /\ nodes'[n].parent = nodes[n].parent
                                      /\ nodes'[n].attributes = nodes[n].attributes
         /\ nodes'[Len(nodes) + 1].type = type /\ nodes'[Len(nodes) + 1].parent = r
         /\ nodes'[Len(nodes) + 1].attributes = <<>>
<1>1. PICK A : nodes \in Seq(NodeRecords(A))
  BY DEF NodesTyped
<1> DEFINE new == Node(type, r, p)
           B == NodeRecords(A) \cup {new}
           list == Append(nodes, new)
<1>2. /\ new.type = type /\ new.parent = r /\ new.attributes = <<>>
      /\ nodes \in Seq(B) /\ new \in B /\ Len(nodes) \in Nat
  <2>1. nodes \in Seq(B)
    <3> HIDE DEF new
    <3> QED
      BY <1>1
  <2> QED
    BY <1>1, <2>1 DEF Node
<1>3. \A n \in 1..Len(nodes) : nodes[n] \in NodeRecords(A)
  BY <1>1
<1>4. nodes' = [list EXCEPT ![r].children = Append(@, Len(list))]
  BY DEF Linked
<1> HIDE DEF new, B
<1>5. /\ list \in Seq(B) /\ Len(list) = Len(nodes) + 1 /\ list[Len(nodes) + 1] = new
      /\ \A n \in 1..Len(nodes) : list[n] = nodes[n]
  BY <1>2
<1> HIDE DEF list
<1> DEFINE grown == [list[r] EXCEPT !.children = Append(@, Len(list))]
<1>6. nodes' = [list EXCEPT ![r] = grown]
  BY <1>4
<1>7. grown.type = nodes[r].type /\ grown.parent = nodes[r].parent /\ grown.attributes = nodes[r].attributes
  <2>1. list[r] \in NodeRecords(A) /\ list[r] = nodes[r]
    BY <1>3, <1>5
  <2> QED
    BY <2>1 DEF NodeRecords
<1> HIDE DEF grown
<1>8. /\ DOMAIN list = 1..(Len(nodes) + 1) /\ Len(nodes) + 1 \in 1..(Len(nodes) + 1)
      /\ r # Len(nodes) + 1 /\ 1..Len(nodes) \subseteq 1..(Len(nodes) + 1)
  BY <1>2, <1>5
<1>9. nodes'[r] = grown /\ \A n \in 1..(Len(nodes) + 1) : n # r => nodes'[n] = list[n]
  BY <1>6, <1>8
<1> QED
  BY <1>2, <1>5, <1>7, <1>8, <1>9

\* What a is after Advanced: context c is past a step, the others are as they were.
Moved(a, c, function, loop) ==
  \A d \in Ids :
    /\ a[d].result = contexts[d].result /\ a[d].locals = contexts[d].locals
    /\ a[d].path = contexts[d].path /\ a[d].state = contexts[d].state
    /\ a[d].step = IF d = c THEN contexts[d].step + 1 ELSE contexts[d].step
    /\ a[d].function = IF d = c THEN function ELSE contexts[d].function
    /\ a[d].loop = IF d = c THEN loop ELSE contexts[d].loop

\* What Advanced makes of the list of contexts.
LEMMA AdvancedContexts ==
  ASSUME ContextsTyped, NEW c \in Ids, NEW function \in FunctionNames, NEW loop \in Nat,
         NEW a, a = Advanced(c, function, loop)
  PROVE  /\ a \in Seq(ContextRecords) /\ Len(a) = Len(contexts)
         /\ Moved(a, c, function, loop)
<1>1. /\ Len(contexts) \in Nat /\ contexts \in [Ids -> ContextRecords]
      /\ contexts[c] \in ContextRecords
  BY DEF ContextsTyped, Ids
<1> DEFINE n == contexts[c].step + 1
           first == [contexts[c] EXCEPT !.step = n]
           second == [first EXCEPT !.function = function]
           moved == [second EXCEPT !.loop = loop]
<1>2. /\ moved \in ContextRecords /\ moved.result = contexts[c].result
      /\ moved.locals = contexts[c].locals /\ moved.path = contexts[c].path
      /\ moved.state = contexts[c].state /\ moved.step = contexts[c].step + 1
      /\ moved.function = function /\ moved.loop = loop
  <2>0. n \in Nat
    BY <1>1 DEF ContextRecords
  <2>1. /\ first \in ContextRecords /\ first.result = contexts[c].result
        /\ first.locals = contexts[c].locals /\ first.path = contexts[c].path
        /\ first.state = contexts[c].state /\ first.step = n
    <3> HIDE DEF n
    <3> QED
      BY <2>0, <1>1 DEF ContextRecords
  <2> HIDE DEF first
  <2>2. /\ second \in ContextRecords /\ second.result = first.result
        /\ second.locals = first.locals /\ second.path = first.path
        /\ second.state = first.state /\ second.step = first.step /\ second.function = function
    BY <2>1 DEF ContextRecords
  <2> HIDE DEF second
  <2>3. /\ moved \in ContextRecords /\ moved.result = second.result
        /\ moved.locals = second.locals /\ moved.path = second.path
        /\ moved.state = second.state /\ moved.step = second.step
        /\ moved.function = second.function /\ moved.loop = loop
    BY <2>2 DEF ContextRecords
  <2> QED
    BY <2>1, <2>2, <2>3
<1>3. a = [contexts EXCEPT ![c] = moved]
  <2>1. a = [[[contexts EXCEPT ![c].step = @ + 1] EXCEPT ![c].function = function]
                EXCEPT ![c].loop = loop]
    BY DEF Advanced
  <2>2. [contexts EXCEPT ![c].step = @ + 1] = [contexts EXCEPT ![c] = first]
    BY <1>1
  <2> HIDE DEF first
  <2>3. [[contexts EXCEPT ![c] = first] EXCEPT ![c].function = function]
          = [contexts EXCEPT ![c] = second]
    BY <1>1
  <2> HIDE DEF second
  <2>4. [[contexts EXCEPT ![c] = second] EXCEPT ![c].loop = loop]
          = [contexts EXCEPT ![c] = moved]
    BY <1>1
  <2> QED
    BY <2>1, <2>2, <2>3, <2>4
<1> HIDE DEF moved
<1>4. /\ a[c] = moved
      /\ \A d \in Ids : d # c => a[d] = contexts[d]
  BY <1>1, <1>2, <1>3
<1>5. a \in Seq(ContextRecords) /\ Len(a) = Len(contexts)
  BY <1>2, <1>3, ExceptSeq DEF Ids, ContextsTyped
<1>6. Moved(a, c, function, loop)
  <2> SUFFICES ASSUME NEW d \in Ids
               PROVE  /\ a[d].result = contexts[d].result /\ a[d].locals = contexts[d].locals
                      /\ a[d].path = contexts[d].path /\ a[d].state = contexts[d].state
                      /\ a[d].step = IF d = c THEN contexts[d].step + 1 ELSE contexts[d].step
                      /\ a[d].function = IF d = c THEN function ELSE contexts[d].function
                      /\ a[d].loop = IF d = c THEN loop ELSE contexts[d].loop
    BY DEF Moved
  <2>1. CASE d = c
    BY <2>1, <1>2, <1>4
  <2>2. CASE d # c
    BY <2>2, <1>4
  <2> QED
    BY <2>1, <2>2
<1> QED
  BY <1>5, <1>6

-----------------------------------------------------------------------------
(* The order of the labels, on which the numbers of the instructions lead. *)

\* d was made by the instruction that c is at, or by one below it.
Inside(p, step, q) ==
  /\ Len(p) < Len(q) /\ q[Len(p) + 1] <= step
  /\ \A k \in 1..Len(p) : q[k] = p[k]

LEMMA AppendAt ==
  ASSUME NEW p \in Seq(Nat), NEW n \in Nat
  PROVE  /\ Append(p, n) \in Seq(Nat) /\ Len(p) \in Nat /\ Len(Append(p, n)) = Len(p) + 1
         /\ Append(p, n)[Len(p) + 1] = n /\ \A k \in 1..Len(p) : Append(p, n)[k] = p[k]
         /\ \A k \in 1..Len(p) : p[k] \in Nat
  OBVIOUS

\* What comes before a place comes before what is inside it.
LEMMA BeforeInside ==
  ASSUME NEW p \in Seq(Nat), NEW q \in Seq(Nat), NEW n \in Nat, Before(q, p)
  PROVE  Before(q, Append(p, n))
<1>1. PICK i \in 1..Len(q) : /\ i <= Len(p) /\ q[i] < p[i]
                             /\ \A j \in 1..(i - 1) : q[j] = p[j]
  BY DEF Before
<1>2. i \in 1..Len(p) /\ \A j \in 1..(i - 1) : j \in 1..Len(p)
  BY <1>1, AppendAt
<1>3. i <= Len(Append(p, n)) /\ q[i] < Append(p, n)[i]
  BY <1>1, <1>2, AppendAt
<1>4. \A j \in 1..(i - 1) : q[j] = Append(p, n)[j]
  BY <1>1, <1>2, AppendAt
<1> QED
  BY <1>3, <1>4 DEF Before

\* ... and before the next place.
LEMMA BeforeNext ==
  ASSUME NEW p \in Seq(Nat), NEW q \in Seq(Nat), NEW n \in Nat, NEW m \in Nat, n <= m,
         Before(q, Append(p, n))
  PROVE  Before(q, Append(p, m))
<1>1. PICK i \in 1..Len(q) : /\ i <= Len(p) + 1 /\ q[i] < Append(p, n)[i]
                             /\ \A j \in 1..(i - 1) : q[j] = Append(p, n)[j]
  BY AppendAt DEF Before
<1>2. /\ Len(p) \in Nat /\ Len(q) \in Nat /\ \A k \in 1..Len(q) : q[k] \in Nat
      /\ \A j \in 1..(i - 1) : j \in 1..Len(p)
  BY <1>1, AppendAt
<1>3. \A j \in 1..(i - 1) : q[j] = Append(p, m)[j]
  BY <1>1, <1>2, AppendAt
<1>4. q[i] < Append(p, m)[i]
  <2>1. CASE i \in 1..Len(p)
    BY <2>1, <1>1, AppendAt
  <2>2. CASE i = Len(p) + 1
    BY <2>2, <1>1, <1>2, AppendAt
  <2> QED
    BY <1>1, <1>2, <2>1, <2>2
<1>5. i <= Len(Append(p, m))
  BY <1>1, AppendAt
<1> QED
  BY <1>3, <1>4, <1>5 DEF Before

\* What is made inside a place comes before the next place.
LEMMA InsideBefore ==
  ASSUME NEW p \in Seq(Nat), NEW q \in Seq(Nat), NEW step \in Nat, NEW n \in Nat,
         Inside(p, step, q)
  PROVE  Before(Append(q, n), Append(p, step + 1))
<1> DEFINE i == Len(p) + 1
<1>1. /\ Len(p) \in Nat /\ Len(q) \in Nat /\ i \in 1..Len(q) /\ q[i] \in Nat /\ q[i] <= step
      /\ i \in 1..Len(Append(q, n)) /\ i <= Len(Append(p, step + 1))
  BY AppendAt DEF Inside
<1>2. Append(q, n)[i] = q[i] /\ Append(p, step + 1)[i] = step + 1
  BY <1>1, AppendAt
<1>3. \A j \in 1..(i - 1) : Append(q, n)[j] = Append(p, step + 1)[j]
  <2>0. i - 1 = Len(p)
    BY <1>1
  <2> SUFFICES ASSUME NEW j \in 1..Len(p) PROVE Append(q, n)[j] = Append(p, step + 1)[j]
    BY <2>0
  <2>1. j \in 1..Len(q) /\ q[j] = p[j]
    BY <1>1, Len(p) < Len(q) DEF Inside
  <2>2. Append(q, n)[j] = q[j]
    BY <2>1, AppendAt
  <2>3. step + 1 \in Nat
    OBVIOUS
  <2>4. Append(p, step + 1)[j] = p[j]
    BY <2>3, AppendAt
  <2> QED
    BY <2>1, <2>2, <2>4
<1>4. q[i] < step + 1
  BY <1>1
<1> HIDE DEF i
<1> QED
  BY <1>1, <1>2, <1>3, <1>4 DEF Before

\* What is inside stays inside when the place moves on, and so does what is below it.
LEMMA InsideLater ==
  ASSUME NEW p \in Seq(Nat), NEW q \in Seq(Nat), NEW n \in Nat, NEW m \in Nat, n <= m,
         Inside(p, n, q)
  PROVE  Inside(p, m, q)
<1> DEFINE i == Len(p) + 1
<1>1. i \in 1..Len(q) /\ q[i] \in Nat /\ q[i] <= n /\ Len(p) < Len(q)
  BY AppendAt DEF Inside
<1>2. q[i] <= m
  BY <1>1
<1> QED
  BY <1>1, <1>2 DEF Inside

LEMMA InsideDeeper ==
  ASSUME NEW p \in Seq(Nat), NEW q \in Seq(Nat), NEW step \in Nat, NEW n \in Nat,
         Inside(p, step, q)
  PROVE  Inside(p, step, Append(q, n))
<1> DEFINE i == Len(p) + 1
           r == Append(q, n)
<1>1. /\ i \in 1..Len(q) /\ q[i] <= step /\ Len(p) < Len(q)
      /\ Len(p) \in Nat /\ Len(q) \in Nat /\ \A k \in 1..Len(p) : q[k] = p[k]
  BY AppendAt DEF Inside
<1>2. Len(r) = Len(q) + 1 /\ \A k \in 1..Len(q) : r[k] = q[k]
  BY AppendAt
<1> HIDE DEF r
<1>3. r[i] <= step /\ Len(p) < Len(r)
  BY <1>1, <1>2
<1>4. \A k \in 1..Len(p) : r[k] = p[k]
  BY <1>1, <1>2
<1>5. Inside(p, step, r)
  BY <1>3, <1>4 DEF Inside
<1> QED
  BY <1>5 DEF r

LEMMA InsideNext ==
  ASSUME NEW p \in Seq(Nat), NEW n \in Nat
  PROVE  Inside(p, n, Append(p, n))
BY AppendAt DEF Inside

LEMMA StepBefore ==
  ASSUME NEW p \in Seq(Nat), NEW n \in Nat, NEW m \in Nat, n < m
  PROVE  Before(Append(p, n), Append(p, m))
<1> DEFINE i == Len(p) + 1
<1>1. /\ i \in 1..Len(Append(p, n)) /\ i <= Len(Append(p, m))
      /\ Append(p, n)[i] = n /\ Append(p, m)[i] = m
      /\ \A j \in 1..(i - 1) : Append(p, n)[j] = Append(p, m)[j]
  BY AppendAt
<1> HIDE DEF i
<1> QED
  BY <1>1 DEF Before

-----------------------------------------------------------------------------
(* The invariant.                                                          *)
Alive(c) == contexts[c].state # "done"

\* c and d are on the stack of one thread
Together(c, d) ==
  \E t \in Threads : \E i, j \in 1..Len(stack[t]) : stack[t][i] = c /\ stack[t][j] = d

Children(n) == nodes[n].children

Ranges ==
  /\ Len(nodes) \in Nat \ {0} /\ stack \in [Threads -> Seq(Nat)]
  /\ \A c \in Ids : /\ contexts[c].result \in 1..Len(nodes) /\ contexts[c].locals \in Ids
                    /\ contexts[c].loop \in 0..Len(contexts)
  /\ \A n \in 1..Len(nodes) : \A k \in 1..Len(Children(n)) : Children(n)[k] \in 1..Len(nodes)

\* What is on a stack runs, and is there once.
Placed ==
  /\ \A t \in Threads : \A i \in 1..Len(stack[t]) :
       stack[t][i] \in Ids /\ contexts[stack[t][i]].state = "running"
  /\ \A t, u \in Threads : \A i \in 1..Len(stack[t]), j \in 1..Len(stack[u]) :
       stack[t][i] = stack[u][j] => t = u /\ i = j

\* Contexts that write to one node are on one stack.
Writers ==
  \A c, d \in Ids :
    c # d /\ Alive(c) /\ Alive(d) /\ contexts[c].result = contexts[d].result => Together(c, d)

\* So are those with one variable list, if one of them may write to it.
Scopes ==
  \A c, d \in Ids :
    /\ c # d /\ Alive(c) /\ Alive(d)
    /\ contexts[c].function = "apply" /\ contexts[c].locals = contexts[d].locals
    => Together(c, d)

\* The list that an xsl:apply-templates hands out is nobody's to write.
Loops ==
  \A c, d \in Ids :
    contexts[c].loop # 0 /\ contexts[d].locals = contexts[c].loop => contexts[d].function # "apply"

\* A context was made by the instruction that the one below it on the stack is at.
Nesting ==
  \A t \in Threads : \A i, j \in 1..Len(stack[t]) :
    i < j => Inside(contexts[stack[t][i]].path, contexts[stack[t][i]].step,
                    contexts[stack[t][j]].path)

\* What a context will make comes behind all that its result has.
Behind(c) ==
  \A k \in 1..Len(Children(contexts[c].result)) :
    Before(nodes[Children(contexts[c].result)[k]].path, Here(c))
Ordered == \A c \in Ids : Alive(c) => Behind(c)

OutputInv == /\ NodesTyped /\ ContextsTyped /\ Ranges /\ Placed /\ Writers /\ Scopes /\ Loops
             /\ Nesting /\ Ordered /\ SiblingsInOrder

\* The invariant without the order of the children.
StackInv == ContextsTyped /\ Ranges /\ Placed /\ Writers /\ Scopes /\ Loops /\ Nesting

-----------------------------------------------------------------------------
\* The context that thread t is in, and those below it.
OnTop(t, c) ==
  /\ c \in Ids /\ contexts[c].state = "running" /\ Alive(c)
  /\ contexts[c].path \in Seq(Nat) /\ contexts[c].step \in Nat
  /\ Here(c) = Append(contexts[c].path, contexts[c].step + 1) /\ Here(c) \in Seq(Nat)
  /\ stack[t] \in Seq(Nat) /\ Len(stack[t]) \in Nat \ {0} /\ stack[t][Len(stack[t])] = c
  /\ \A d : Together(c, d) /\ d # c => \E i \in 1..(Len(stack[t]) - 1) : stack[t][i] = d

LEMMA Top ==
  ASSUME ContextsTyped, Ranges, Placed, NEW t \in Threads, stack[t] # <<>>,
         NEW c, c = Current(t)
  PROVE  OnTop(t, c)
<1>1. /\ stack[t] \in Seq(Nat) /\ Len(stack[t]) \in Nat \ {0} /\ stack[t][Len(stack[t])] = c
      /\ Len(stack[t]) \in 1..Len(stack[t])
  <2>1. stack[t] \in Seq(Nat)
    BY DEF Ranges
  <2> QED
    BY <2>1 DEF Current, Last
<1>2. c \in Ids /\ contexts[c].state = "running"
  BY <1>1 DEF Placed
<1>3. contexts[c].path \in Seq(Nat) /\ contexts[c].step \in Nat
  <2>1. contexts[c] \in ContextRecords
    BY <1>2 DEF ContextsTyped, Ids
  <2> QED
    BY <2>1 DEF ContextRecords
<1>4. Here(c) = Append(contexts[c].path, contexts[c].step + 1) /\ Here(c) \in Seq(Nat)
  BY <1>3 DEF Here
<1>5. ASSUME NEW d, Together(c, d), d # c
      PROVE  \E i \in 1..(Len(stack[t]) - 1) : stack[t][i] = d
  <2>1. PICK u \in Threads : \E i, j \in 1..Len(stack[u]) : stack[u][i] = c /\ stack[u][j] = d
    BY <1>5 DEF Together
  <2>2. PICK i \in 1..Len(stack[u]), j \in 1..Len(stack[u]) : stack[u][i] = c /\ stack[u][j] = d
    BY <2>1
  <2>3. u = t
    BY <1>1, <2>2 DEF Placed
  <2>4. j \in 1..Len(stack[t]) /\ stack[t][j] = d /\ j # Len(stack[t])
    BY <1>1, <1>5, <2>2, <2>3
  <2>5. j \in 1..(Len(stack[t]) - 1)
    BY <1>1, <2>4
  <2> QED
    BY <2>4, <2>5
<1> QED
  BY <1>1, <1>2, <1>3, <1>4, <1>5 DEF Alive, OnTop

\* What else writes to the result of the current context waits, where that was made.
LEMMA SoleTop ==
  ASSUME StackInv, NEW t \in Threads, stack[t] # <<>>, NEW c, c = Current(t),
         NEW d \in Ids, d # c, Alive(d), contexts[d].result = contexts[c].result
  PROVE  Inside(contexts[d].path, contexts[d].step, contexts[c].path)
<1>0. OnTop(t, c)
  BY Top DEF StackInv
<1>1. c \in Ids /\ Alive(c) /\ Len(stack[t]) \in Nat \ {0} /\ stack[t][Len(stack[t])] = c
  BY <1>0 DEF OnTop
<1>2. Together(c, d)
  BY <1>1 DEF StackInv, Writers
<1>3. PICK i \in 1..(Len(stack[t]) - 1) : stack[t][i] = d
  BY <1>0, <1>2 DEF OnTop
<1>4. i \in 1..Len(stack[t]) /\ Len(stack[t]) \in 1..Len(stack[t]) /\ i < Len(stack[t])
  BY <1>1
<1> QED
  BY <1>1, <1>3, <1>4 DEF StackInv, Nesting

\* The place of an alive context moves on only for the one that took a step.
LEMMA HereMoved ==
  ASSUME ContextsTyped, NEW c, NEW function, NEW loop, Moved(contexts', c, function, loop),
         NEW d \in Ids
  PROVE  /\ contexts[d].path \in Seq(Nat) /\ contexts[d].step \in Nat
         /\ contexts'[d].step \in Nat /\ contexts[d].step <= contexts'[d].step
         /\ d # c => contexts'[d].step = contexts[d].step
         /\ d = c => contexts'[d].step = contexts[d].step + 1
         /\ contexts'[d].result = contexts[d].result
         /\ Here(d) = Append(contexts[d].path, contexts[d].step + 1)
         /\ Here(d)' = Append(contexts[d].path, contexts'[d].step + 1)
<1>1. contexts[d].path \in Seq(Nat) /\ contexts[d].step \in Nat
  <2>1. contexts[d] \in ContextRecords
    BY DEF ContextsTyped, Ids
  <2> QED
    BY <2>1 DEF ContextRecords
<1>2. /\ contexts'[d].path = contexts[d].path /\ contexts'[d].result = contexts[d].result
      /\ contexts'[d].step = IF d = c THEN contexts[d].step + 1 ELSE contexts[d].step
  BY DEF Moved
<1> QED
  BY <1>1, <1>2 DEF Here

-----------------------------------------------------------------------------
(* The order of the children.                                              *)
LEMMA NodeFacts ==
  ASSUME NodesTyped, NEW n \in 1..Len(nodes)
  PROVE  /\ nodes[n].path \in Seq(Nat) /\ nodes[n].children \in Seq(Nat)
         /\ Len(nodes[n].children) \in Nat
<1>1. PICK A : nodes \in Seq(NodeRecords(A))
  BY DEF NodesTyped
<1>2. nodes[n] \in NodeRecords(A)
  BY <1>1
<1> QED
  BY <1>2 DEF NodeRecords

\* A place that comes before where an alive context is still does after a step.
LEMMA StillBehind ==
  ASSUME ContextsTyped, NEW c, NEW function, NEW loop, Moved(contexts', c, function, loop),
         NEW d \in Ids, NEW q \in Seq(Nat), Before(q, Here(d))
  PROVE  Before(q, Here(d)')
<1>1. /\ contexts[d].path \in Seq(Nat) /\ contexts[d].step + 1 \in Nat
      /\ contexts'[d].step + 1 \in Nat /\ contexts[d].step + 1 <= contexts'[d].step + 1
      /\ Here(d) = Append(contexts[d].path, contexts[d].step + 1)
      /\ Here(d)' = Append(contexts[d].path, contexts'[d].step + 1)
  BY HereMoved
<1> DEFINE n == contexts[d].step + 1
           m == contexts'[d].step + 1
<1>2. n \in Nat /\ m \in Nat /\ n <= m
  BY <1>1
<1>3. Before(q, Append(contexts[d].path, n))
  BY <1>1
<1> HIDE DEF n, m
<1>4. Before(q, Append(contexts[d].path, m))
  BY <1>1, <1>2, <1>3, BeforeNext
<1> QED
  BY <1>1, <1>4 DEF m

\* A step that leaves the paths and children of all nodes alone.
LEMMA KeptOrder ==
  ASSUME NodesTyped, ContextsTyped, Ranges, SiblingsInOrder, Ordered,
         NEW c, NEW function, NEW loop, Moved(contexts', c, function, loop),
         Len(nodes') = Len(nodes),
         \A n \in 1..Len(nodes) :
           nodes'[n].path = nodes[n].path /\ nodes'[n].children = nodes[n].children
  PROVE  SiblingsInOrder' /\ \A d \in Ids : Alive(d) => Behind(d)'
<1>1. SiblingsInOrder'
  <2> SUFFICES ASSUME NEW n \in 1..Len(nodes),
                      NEW i \in 1..Len(nodes'[n].children), NEW j \in 1..Len(nodes'[n].children),
                      i < j
               PROVE  Before(nodes'[nodes'[n].children[i]].path, nodes'[nodes'[n].children[j]].path)
    BY DEF SiblingsInOrder
  <2>1. /\ nodes'[n].children = nodes[n].children
        /\ nodes[n].children[i] \in 1..Len(nodes) /\ nodes[n].children[j] \in 1..Len(nodes)
    BY DEF Ranges, Children
  <2>2. Before(nodes[nodes[n].children[i]].path, nodes[nodes[n].children[j]].path)
    BY <2>1 DEF SiblingsInOrder
  <2> QED
    BY <2>1, <2>2
<1>2. ASSUME NEW d \in Ids, Alive(d)
      PROVE  Behind(d)'
  <2>1. /\ contexts'[d].result = contexts[d].result /\ contexts[d].result \in 1..Len(nodes)
        /\ nodes'[contexts[d].result].children = nodes[contexts[d].result].children
    BY HereMoved DEF Ranges
  <2> SUFFICES ASSUME NEW k \in 1..Len(nodes[contexts[d].result].children)
               PROVE  Before(nodes'[nodes[contexts[d].result].children[k]].path, Here(d)')
    BY <2>1 DEF Behind, Children
  <2> DEFINE n == nodes[contexts[d].result].children[k]
  <2>2. n \in 1..Len(nodes)
    BY <2>1 DEF Ranges, Children
  <2>3. Before(nodes[n].path, Here(d))
    BY <1>2 DEF Ordered, Behind, Children
  <2> HIDE DEF n
  <2>4. Before(nodes[n].path, Here(d)')
    BY <2>2, <2>3, NodeFacts, StillBehind
  <2>5. Before(nodes'[n].path, Here(d)')
    BY <2>2, <2>4
  <2> QED
    BY <2>5 DEF n
<1> QED
  BY <1>1, <1>2

\* A step that links a node behind the children of the result of its context.
LEMMA GrownOrder ==
  ASSUME NodesTyped, StackInv, SiblingsInOrder, Ordered,
         NEW t \in Threads, stack[t] # <<>>, NEW c, c = Current(t),
         NEW function, NEW loop, Moved(contexts', c, function, loop),
         NEW type \in {"EMPTY", "ELEMENT", "TEXT"},
         nodes' = Linked(contexts[c].result, type, Here(c))
  PROVE  SiblingsInOrder' /\ \A d \in Ids : Alive(d) => Behind(d)'
<1> DEFINE r == contexts[c].result
           new == Len(nodes) + 1
<1>1. /\ c \in Ids /\ Alive(c) /\ Here(c) \in Seq(Nat) /\ r \in 1..Len(nodes)
      /\ contexts[c].path \in Seq(Nat) /\ contexts[c].step \in Nat
      /\ Here(c) = Append(contexts[c].path, contexts[c].step + 1)
      /\ ContextsTyped /\ Ranges /\ Len(nodes) \in Nat
  <2>1. OnTop(t, c)
    BY Top DEF StackInv
  <2> QED
    BY <2>1 DEF StackInv, Ranges, OnTop
<1>2. /\ Len(nodes') = new
      /\ \A n \in 1..Len(nodes) :
           /\ nodes'[n].path = nodes[n].path
           /\ nodes'[n].children = IF n = r THEN Append(nodes[n].children, new)
                                   ELSE nodes[n].children
      /\ nodes'[new].path = Here(c) /\ nodes'[new].children = <<>>
  BY <1>1, LinkedNodes
<1>0. new \in Nat /\ \A n \in 1..new : n # new => n \in 1..Len(nodes)
  BY <1>1
<1>3. \A k \in 1..Len(nodes[r].children) :
        /\ nodes[r].children[k] \in 1..Len(nodes)
        /\ Before(nodes[nodes[r].children[k]].path, Here(c))
  BY <1>1 DEF Ordered, Behind, Children, Ranges
<1> HIDE DEF r, new
<1>4. SiblingsInOrder'
  <2> SUFFICES ASSUME NEW n \in 1..new,
                      NEW i \in 1..Len(nodes'[n].children), NEW j \in 1..Len(nodes'[n].children),
                      i < j
               PROVE  Before(nodes'[nodes'[n].children[i]].path, nodes'[nodes'[n].children[j]].path)
    BY <1>2 DEF SiblingsInOrder
  <2>1. CASE n = new
    BY <2>1, <1>2
  <2>2. CASE n # new
    <3>1. n \in 1..Len(nodes) /\ nodes[n].children \in Seq(Nat) /\ Len(nodes[n].children) \in Nat
      <4>1. n \in 1..Len(nodes)
        BY <2>2, <1>0
      <4> QED
        BY <4>1, NodeFacts
    <3>2. CASE i \in 1..Len(nodes[n].children) /\ j \in 1..Len(nodes[n].children)
      <4>1. nodes'[n].children[i] = nodes[n].children[i] /\ nodes'[n].children[j] = nodes[n].children[j]
        <5>1. CASE n = r
          <6>1. nodes'[n].children = Append(nodes[n].children, new)
            BY <3>1, <5>1, <1>2
          <6> QED
            BY <3>1, <3>2, <6>1, <1>0, AppendAt
        <5>2. CASE n # r
          BY <3>1, <5>2, <1>2
        <5> QED
          BY <5>1, <5>2
      <4>2. nodes[n].children[i] \in 1..Len(nodes) /\ nodes[n].children[j] \in 1..Len(nodes)
        BY <3>1, <3>2, <1>1 DEF Ranges, Children
      <4>3. Before(nodes[nodes[n].children[i]].path, nodes[nodes[n].children[j]].path)
        BY <3>1, <3>2 DEF SiblingsInOrder
      <4> QED
        BY <4>1, <4>2, <4>3, <1>2
    <3>3. CASE ~(i \in 1..Len(nodes[n].children) /\ j \in 1..Len(nodes[n].children))
      <4>1. n = r
        BY <3>1, <3>3, <1>2
      <4>2. /\ nodes'[n].children = Append(nodes[r].children, new)
            /\ new \in Nat /\ nodes[r].children \in Seq(Nat)
        BY <3>1, <4>1, <1>0, <1>2
      <4>3. j = Len(nodes[r].children) + 1 /\ i \in 1..Len(nodes[r].children)
        BY <3>1, <3>3, <4>1, <4>2, AppendAt
      <4>4. nodes'[n].children[i] = nodes[r].children[i] /\ nodes'[n].children[j] = new
        BY <4>2, <4>3, AppendAt
      <4> QED
        BY <4>3, <4>4, <1>2, <1>3
    <3> QED
      BY <3>2, <3>3
  <2> QED
    BY <2>1, <2>2
<1>5. ASSUME NEW d \in Ids, Alive(d)
      PROVE  Behind(d)'
  <2> DEFINE s == contexts[d].result
  <2>1. contexts'[d].result = s /\ s \in 1..Len(nodes) /\ nodes[s].children \in Seq(Nat)
    BY <1>1, HereMoved, NodeFacts DEF Ranges
  <2> SUFFICES ASSUME NEW k \in 1..Len(nodes'[s].children)
               PROVE  Before(nodes'[nodes'[s].children[k]].path, Here(d)')
    BY <2>1 DEF Behind, Children
  <2>2. ASSUME k \in 1..Len(nodes[s].children), nodes'[s].children[k] = nodes[s].children[k]
        PROVE  Before(nodes'[nodes'[s].children[k]].path, Here(d)')
    <3>1. nodes[s].children[k] \in 1..Len(nodes)
      BY <2>1, <2>2, <1>1 DEF Ranges, Children
    <3>2. Before(nodes[nodes[s].children[k]].path, Here(d))
      BY <1>5, <2>2 DEF Ordered, Behind, Children
    <3>3. Before(nodes[nodes[s].children[k]].path, Here(d)')
      BY <3>1, <3>2, <1>1, NodeFacts, StillBehind
    <3> QED
      BY <2>2, <3>1, <3>3, <1>2
  <2>3. ASSUME s = r, nodes'[s].children[k] = new
        PROVE  Before(nodes'[nodes'[s].children[k]].path, Here(d)')
    <3>1. CASE d = c
      <4>1. /\ Here(d)' = Append(contexts[c].path, contexts'[c].step + 1)
            /\ contexts'[c].step = contexts[c].step + 1
        BY <3>1, <1>1, HereMoved
      <4> DEFINE n == contexts[c].step + 1
                 m == contexts'[c].step + 1
      <4>2. n \in Nat /\ m \in Nat /\ n < m
        BY <4>1, <1>1
      <4>3. Before(Append(contexts[c].path, n), Append(contexts[c].path, m))
        <5> HIDE DEF n, m
        <5> QED
          BY <4>2, <1>1, StepBefore
      <4> QED
        BY <4>1, <4>3, <1>1, <1>2, <2>3
    <3>2. CASE d # c
      <4>1. Inside(contexts[d].path, contexts[d].step, contexts[c].path)
        BY <3>2, <2>3, <1>5, SoleTop DEF r
      <4>2. /\ contexts[d].path \in Seq(Nat) /\ contexts[d].step \in Nat
            /\ Here(d)' = Append(contexts[d].path, contexts[d].step + 1)
        BY <3>2, <1>1, HereMoved
      <4>3. Before(Append(contexts[c].path, contexts[c].step + 1),
                   Append(contexts[d].path, contexts[d].step + 1))
        <5> DEFINE n == contexts[c].step + 1
        <5>1. n \in Nat
          BY <1>1
        <5> HIDE DEF n
        <5>2. Before(Append(contexts[c].path, n), Append(contexts[d].path, contexts[d].step + 1))
          BY <5>1, <4>1, <4>2, <1>1, InsideBefore
        <5> QED
          BY <5>2 DEF n
      <4> QED
        BY <4>2, <4>3, <1>1, <1>2, <2>3
    <3> QED
      BY <3>1, <3>2
  <2>4. CASE s = r
    <3>1. nodes'[s].children = Append(nodes[s].children, new) /\ new \in Nat
      BY <2>1, <2>4, <1>0, <1>2
    <3>2. \/ k \in 1..Len(nodes[s].children) /\ nodes'[s].children[k] = nodes[s].children[k]
          \/ nodes'[s].children[k] = new
      BY <2>1, <3>1, AppendAt
    <3> QED
      BY <2>2, <2>3, <2>4, <3>2
  <2>5. CASE s # r
    BY <2>1, <2>2, <2>5, <1>2
  <2> QED
    BY <2>4, <2>5
<1> QED
  BY <1>4, <1>5

-----------------------------------------------------------------------------
(* The stacks and what their contexts share.                               *)

\* The stacks are as they were, or longer.
Longer == \A u \in Threads : \A i \in 1..Len(stack[u]) :
            i \in 1..Len(stack'[u]) /\ stack'[u][i] = stack[u][i]

\* What a step of context c leaves true of the contexts that were there.
LEMMA OldKept ==
  ASSUME StackInv, NEW c \in Ids, NEW function, NEW loop, Longer,
         Moved(contexts', c, function, loop),
         function = "apply" <=> contexts[c].function = "apply"
  PROVE  /\ \A x, y \in Ids : Together(x, y) => Together(x, y)'
         /\ \A x, y \in Ids :
              x # y /\ Alive(x)' /\ Alive(y)' /\ contexts'[x].result = contexts'[y].result
                => Together(x, y)'
         /\ \A x, y \in Ids :
              /\ x # y /\ Alive(x)' /\ Alive(y)'
              /\ contexts'[x].function = "apply" /\ contexts'[x].locals = contexts'[y].locals
              => Together(x, y)'
         /\ \A x, y \in Ids :
              contexts[x].loop # 0 /\ contexts[y].locals = contexts[x].loop
                => contexts'[y].function # "apply"
         /\ \A u \in Threads : \A i, j \in 1..Len(stack[u]) :
              i < j => Inside(contexts'[stack[u][i]].path, contexts'[stack[u][i]].step,
                              contexts'[stack[u][j]].path)
<1>1. \A x \in Ids : /\ contexts'[x].result = contexts[x].result
                     /\ contexts'[x].locals = contexts[x].locals
                     /\ contexts'[x].path = contexts[x].path
                     /\ Alive(x)' <=> Alive(x)
                     /\ contexts'[x].function = "apply" <=> contexts[x].function = "apply"
  BY DEF Moved, Alive
<1>2. ASSUME NEW x \in Ids, NEW y \in Ids, Together(x, y)
      PROVE  Together(x, y)'
  <2>1. PICK u \in Threads : \E i, j \in 1..Len(stack[u]) : stack[u][i] = x /\ stack[u][j] = y
    BY <1>2 DEF Together
  <2>2. PICK i \in 1..Len(stack[u]), j \in 1..Len(stack[u]) : stack[u][i] = x /\ stack[u][j] = y
    BY <2>1
  <2>3. /\ i \in 1..Len(stack'[u]) /\ stack'[u][i] = x
        /\ j \in 1..Len(stack'[u]) /\ stack'[u][j] = y
    BY <2>2 DEF Longer
  <2> QED
    BY <2>3 DEF Together
<1>3. ASSUME NEW x \in Ids, NEW y \in Ids, x # y, Alive(x)', Alive(y)',
             contexts'[x].result = contexts'[y].result
      PROVE  Together(x, y)'
  <2>1. Together(x, y)
    BY <1>1, <1>3 DEF StackInv, Writers
  <2> QED
    BY <1>2, <2>1
<1>4. ASSUME NEW x \in Ids, NEW y \in Ids, x # y, Alive(x)', Alive(y)',
             contexts'[x].function = "apply", contexts'[x].locals = contexts'[y].locals
      PROVE  Together(x, y)'
  <2>1. Together(x, y)
    BY <1>1, <1>4 DEF StackInv, Scopes
  <2> QED
    BY <1>2, <2>1
<1>5. \A x, y \in Ids :
        contexts[x].loop # 0 /\ contexts[y].locals = contexts[x].loop
          => contexts'[y].function # "apply"
  BY <1>1 DEF StackInv, Loops
<1>6. ASSUME NEW u \in Threads, NEW i \in 1..Len(stack[u]), NEW j \in 1..Len(stack[u]), i < j
      PROVE  Inside(contexts'[stack[u][i]].path, contexts'[stack[u][i]].step,
                    contexts'[stack[u][j]].path)
  <2> DEFINE x == stack[u][i]
             y == stack[u][j]
  <2>1. x \in Ids /\ y \in Ids /\ Inside(contexts[x].path, contexts[x].step, contexts[y].path)
    BY <1>6 DEF StackInv, Placed, Nesting
  <2> HIDE DEF x, y
  <2>2. /\ contexts[x].step \in Nat /\ contexts'[x].step \in Nat
        /\ contexts[x].step <= contexts'[x].step
        /\ contexts[x].path \in Seq(Nat) /\ contexts[y].path \in Seq(Nat)
    BY <2>1, HereMoved DEF StackInv
  <2>3. Inside(contexts[x].path, contexts'[x].step, contexts[y].path)
    BY <2>1, <2>2, InsideLater
  <2>4. Inside(contexts'[x].path, contexts'[x].step, contexts'[y].path)
    BY <1>1, <2>1, <2>3
  <2> QED
    BY <2>4 DEF x, y
<1> QED
  BY <1>2, <1>3, <1>4, <1>5, <1>6

\* The nodes after a step: none is gone, and children are nodes.
NodesRange == /\ Len(nodes)' \in Nat \ {0} /\ Len(nodes) \in Nat /\ Len(nodes) <= Len(nodes)'
              /\ \A n \in 1..Len(nodes)' : \A k \in 1..Len(nodes'[n].children) :
                   nodes'[n].children[k] \in 1..Len(nodes)'

\* A step that only counts the instruction.
LEMMA AdvancedStack ==
  ASSUME StackInv, NodesRange, NEW c \in Ids, NEW function \in FunctionNames,
         function = "apply" <=> contexts[c].function = "apply",
         contexts' = Advanced(c, function, 0), stack' = stack
  PROVE  StackInv' /\ Moved(contexts', c, function, 0)
<1>1. /\ contexts' \in Seq(ContextRecords) /\ Len(contexts') = Len(contexts)
      /\ Moved(contexts', c, function, 0) /\ ContextsTyped' /\ Ids' = Ids
  BY AdvancedContexts DEF StackInv, ContextsTyped, Ids
<1>2. Longer
  BY DEF Longer
<1>3. Ranges'
  <2>1. \A d \in Ids : /\ contexts'[d].result \in 1..Len(nodes)'
                       /\ contexts'[d].locals \in Ids
                       /\ contexts'[d].loop \in 0..Len(contexts)
    BY <1>1 DEF Moved, StackInv, Ranges, NodesRange
  <2>2. stack' \in [Threads -> Seq(Nat)]
    BY DEF StackInv, Ranges
  <2> QED
    BY <1>1, <2>1, <2>2 DEF Ranges, NodesRange, Children
<1>4. Placed'
  BY <1>1 DEF StackInv, Placed, Moved
<1>5. Writers' /\ Scopes'
  BY <1>1, <1>2, OldKept DEF Writers, Scopes
<1>6. Loops'
  <2>1. \A d \in Ids : /\ contexts'[d].loop = 0 \/ contexts'[d].loop = contexts[d].loop
                       /\ contexts'[d].locals = contexts[d].locals
    BY <1>1 DEF Moved
  <2> QED
    BY <1>1, <1>2, <2>1, OldKept DEF Loops
<1>7. Nesting'
  BY <1>1, <1>2, OldKept DEF Nesting
<1> QED
  BY <1>1, <1>3, <1>4, <1>5, <1>6, <1>7 DEF StackInv

LEMMA AppendIs ==
  ASSUME NEW S, NEW s \in Seq(S), NEW x \in S
  PROVE  /\ Append(s, x) \in Seq(S) /\ Len(Append(s, x)) = Len(s) + 1
         /\ Append(s, x)[Len(s) + 1] = x /\ \A k \in 1..Len(s) : Append(s, x)[k] = s[k]
  OBVIOUS

\* What Make makes of contexts and stacks: the new context is the last one.
Made(t, c, e, type, locals, function, as, next, loop) ==
  /\ ContextsTyped' /\ Len(contexts') = e /\ e \in Nat /\ e \notin Ids
  /\ Ids' = Ids \cup {e} /\ Moved(contexts', c, next, loop)
  /\ contexts'[e].result = ResultFor(c, type) /\ contexts'[e].locals = locals
  /\ contexts'[e].path = Here(c) /\ contexts'[e].function = function
  /\ contexts'[e].step = 0 /\ contexts'[e].loop = 0
  /\ contexts'[e].state = IF as = "task" THEN "queued" ELSE "running"
  /\ stack' \in [Threads -> Seq(Nat)] /\ Longer
  /\ \A u \in Threads : u # t => stack'[u] = stack[u]
  /\ as = "task" => stack'[t] = stack[t]
  /\ as # "task" => /\ Len(stack'[t]) = Len(stack[t]) + 1
                    /\ stack'[t][Len(stack[t]) + 1] = e

LEMMA MadeContexts ==
  ASSUME ContextsTyped, Ranges, Placed, NEW t \in Threads, stack[t] # <<>>,
         NEW c, c = Current(t),
         NEW type, NEW locals \in Nat, NEW function \in FunctionNames, NEW as \in Ways,
         NEW next \in FunctionNames, NEW loop \in Nat, Make(t, type, locals, function, as, next, loop),
         NEW e, e = Len(contexts) + 1
  PROVE  Made(t, c, e, type, locals, function, as, next, loop)
<1> DEFINE state == IF as = "task" THEN "queued" ELSE "running"
           new == Context(ResultFor(c, type), locals, Here(c), function, state)
           a == Advanced(c, next, loop)
<1>1. /\ c \in Ids /\ Here(c) \in Seq(Nat) /\ stack[t] \in Seq(Nat) /\ Len(stack[t]) \in Nat
      /\ contexts[c].result \in Nat /\ Len(contexts) \in Nat /\ Len(nodes) \in Nat
  <2>1. OnTop(t, c)
    BY Top
  <2> QED
    BY <2>1 DEF OnTop, Ranges, ContextsTyped
<1>2. /\ new.result = ResultFor(c, type) /\ new.locals = locals
      /\ new.path = Here(c) /\ new.function = function /\ new.step = 0 /\ new.loop = 0
      /\ new.state = state /\ new \in ContextRecords
  <2>1. ResultFor(c, type) \in Nat
    BY <1>1 DEF ResultFor
  <2>2. state \in {"queued", "running", "done"}
    OBVIOUS
  <2> HIDE DEF state
  <2> QED
    BY <1>1, <2>1, <2>2 DEF Context, ContextRecords
<1>3. contexts' = Append(a, new)
  BY DEF Make
<1> HIDE DEF new
<1>4. a \in Seq(ContextRecords) /\ Len(a) = Len(contexts) /\ Moved(a, c, next, loop)
  BY <1>1, AdvancedContexts
<1> HIDE DEF a
<1>5. /\ contexts' \in Seq(ContextRecords) /\ Len(contexts') = e
      /\ contexts'[e] = new /\ \A d \in Ids : contexts'[d] = a[d]
  <2>1. /\ Append(a, new) \in Seq(ContextRecords) /\ Len(Append(a, new)) = Len(a) + 1
        /\ Append(a, new)[Len(a) + 1] = new
        /\ \A d \in 1..Len(a) : Append(a, new)[d] = a[d]
    BY <1>2, <1>4, AppendIs
  <2> QED
    BY <2>1, <1>3, <1>4 DEF Ids
<1>6. Moved(contexts', c, next, loop)
  BY <1>4, <1>5 DEF Moved
<1>7. e \in Nat /\ e \notin Ids /\ Ids' = Ids \cup {e}
  BY <1>1, <1>5 DEF Ids
<1>8. /\ stack' \in [Threads -> Seq(Nat)] /\ Longer
      /\ \A u \in Threads : u # t => stack'[u] = stack[u]
      /\ as = "task" => stack'[t] = stack[t]
      /\ as # "task" => /\ Len(stack'[t]) = Len(stack[t]) + 1
                        /\ stack'[t][Len(stack[t]) + 1] = e
  <2>1. CASE as = "task"
    <3>1. stack' = stack
      BY <2>1 DEF Make
    <3> QED
      BY <2>1, <3>1 DEF Longer, Ranges
  <2>2. CASE as # "task"
    <3> DEFINE s == Append(stack[t], e)
    <3>1. stack' = [stack EXCEPT ![t] = s]
      BY <2>2 DEF Make
    <3>2. /\ s \in Seq(Nat) /\ Len(s) = Len(stack[t]) + 1 /\ s[Len(stack[t]) + 1] = e
          /\ \A i \in 1..Len(stack[t]) : i \in 1..Len(s) /\ s[i] = stack[t][i]
      BY <1>1, <1>7, AppendAt
    <3> HIDE DEF s
    <3>3. /\ stack' \in [Threads -> Seq(Nat)] /\ stack'[t] = s
          /\ \A u \in Threads : u # t => stack'[u] = stack[u]
      BY <3>1, <3>2 DEF Ranges
    <3>4. Longer
      <4> SUFFICES ASSUME NEW u \in Threads, NEW i \in 1..Len(stack[u])
                   PROVE  i \in 1..Len(stack'[u]) /\ stack'[u][i] = stack[u][i]
        BY DEF Longer
      <4> QED
        BY <3>2, <3>3
    <3> QED
      BY <2>2, <3>2, <3>3, <3>4
  <2> QED
    BY <2>1, <2>2
<1>9. ContextsTyped'
  BY <1>5 DEF ContextsTyped
<1> QED
  BY <1>2, <1>5, <1>6, <1>7, <1>8, <1>9 DEF Made

\* What a new context is given: its result is its own, or that of its maker,
\* who waits; its variables are its own, or those of its maker, or the list of
\* an xsl:apply-templates, which it does not write.
Handed(c, type, locals, function, as, next, loop) ==
  /\ next = "apply" <=> contexts[c].function = "apply"
  /\ type = "none" => as # "task"
  /\ \/ locals = Fresh
     \/ locals = contexts[c].locals /\ contexts[c].function = "apply" /\ as # "task" /\ loop = 0
     \/ locals = contexts[c].loop /\ locals # 0 /\ function = "node"
  /\ \/ loop = 0
     \/ loop = locals /\ function = "node"

\* A step that makes a context.
LEMMA MadeStack ==
  ASSUME StackInv, NodesRange, NEW t \in Threads, stack[t] # <<>>, NEW c, c = Current(t),
         NEW type, NEW locals \in Nat, NEW function \in FunctionNames, NEW as \in Ways,
         NEW next \in FunctionNames, NEW loop \in Nat, Make(t, type, locals, function, as, next, loop),
         Handed(c, type, locals, function, as, next, loop),
         type # "none" => Len(nodes)' = Len(nodes) + 1
  PROVE  StackInv' /\ Moved(contexts', c, next, loop)
<1> USE DEF Handed
<1>0. PICK e : e = Len(contexts) + 1
  OBVIOUS
<1>a. ContextsTyped /\ Ranges /\ Placed
  BY DEF StackInv
<1>b. \A u, v \in Threads : \A i \in 1..Len(stack[u]), j \in 1..Len(stack[v]) :
        stack[u][i] = stack[v][j] => u = v /\ i = j
  BY <1>a DEF Placed
<1>1. /\ ContextsTyped' /\ Len(contexts') = e /\ e \in Nat /\ e \notin Ids
      /\ Ids' = Ids \cup {e} /\ Moved(contexts', c, next, loop)
      /\ contexts'[e].result = ResultFor(c, type) /\ contexts'[e].locals = locals
      /\ contexts'[e].path = Here(c) /\ contexts'[e].function = function
      /\ contexts'[e].step = 0 /\ contexts'[e].loop = 0
      /\ contexts'[e].state = IF as = "task" THEN "queued" ELSE "running"
      /\ stack' \in [Threads -> Seq(Nat)] /\ Longer
      /\ \A u \in Threads : u # t => stack'[u] = stack[u]
      /\ as = "task" => stack'[t] = stack[t]
      /\ as # "task" => /\ Len(stack'[t]) = Len(stack[t]) + 1
                        /\ stack'[t][Len(stack[t]) + 1] = e
  <2>1. Made(t, c, e, type, locals, function, as, next, loop)
    BY <1>0, <1>a, MadeContexts
  <2> QED
    BY <2>1 DEF Made
<1>2. /\ c \in Ids /\ contexts[c].state = "running" /\ Alive(c)
      /\ contexts[c].path \in Seq(Nat) /\ contexts[c].step \in Nat
      /\ Here(c) = Append(contexts[c].path, contexts[c].step + 1)
      /\ Len(stack[t]) \in Nat \ {0} /\ stack[t][Len(stack[t])] = c
      /\ \A d : Together(c, d) /\ d # c => \E i \in 1..(Len(stack[t]) - 1) : stack[t][i] = d
  <2>1. OnTop(t, c)
    BY <1>a, Top
  <2> QED
    BY <2>1 DEF OnTop
<1>3. Fresh = e /\ Ids = 1..(e - 1) /\ Len(contexts) = e - 1 /\ Ids' = 1..e
  BY <1>0, <1>1 DEF Fresh, Ids
<1>4. \A d \in Ids : /\ contexts'[d].result = contexts[d].result
                     /\ contexts'[d].locals = contexts[d].locals
                     /\ contexts'[d].path = contexts[d].path
                     /\ contexts'[d].state = contexts[d].state
                     /\ contexts'[d].loop = IF d = c THEN loop ELSE contexts[d].loop
                     /\ contexts'[d].function = "apply" <=> contexts[d].function = "apply"
                     /\ Alive(d)' <=> Alive(d)
  BY <1>1 DEF Moved, Alive
<1>5. \A d \in Ids : /\ contexts[d].result \in 1..Len(nodes) /\ contexts[d].locals \in Ids
                     /\ contexts[d].loop \in 0..(e - 1)
  BY <1>3 DEF StackInv, Ranges
\* what waits below the maker is on one stack with the new context
<1>6. ASSUME as # "task", NEW d, d = c \/ Together(c, d)
      PROVE  Together(d, e)' /\ Together(e, d)'
  <2>1. \E i \in 1..Len(stack[t]) : stack[t][i] = d
    <3>1. CASE d = c
      <4>1. Len(stack[t]) \in 1..Len(stack[t])
        BY <1>2
      <4> QED
        BY <4>1, <3>1, <1>2
    <3>2. CASE d # c
      <4>1. PICK i \in 1..(Len(stack[t]) - 1) : stack[t][i] = d
        BY <3>2, <1>2, <1>6
      <4>2. i \in 1..Len(stack[t])
        BY <4>1, <1>2
      <4> QED
        BY <4>1, <4>2
    <3> QED
      BY <3>1, <3>2
  <2>2. PICK i \in 1..Len(stack[t]) : stack[t][i] = d
    BY <2>1
  <2>3. i \in 1..Len(stack'[t]) /\ stack'[t][i] = d
    BY <2>2, <1>1 DEF Longer
  <2>4. Len(stack[t]) + 1 \in 1..Len(stack'[t]) /\ stack'[t][Len(stack[t]) + 1] = e
    <3>1. Len(stack'[t]) = Len(stack[t]) + 1 /\ stack'[t][Len(stack[t]) + 1] = e
      BY <1>1, <1>6
    <3>2. Len(stack[t]) \in Nat
      BY <1>2
    <3> QED
      BY <3>1, <3>2
  <2> QED
    BY <2>3, <2>4 DEF Together
<1>7. Ranges'
  <2>1. contexts'[e].result \in 1..Len(nodes)'
    BY <1>1, <1>2, <1>5 DEF ResultFor, NodesRange
  <2>2. locals \in Ids \cup {e}
    <3>1. contexts[c].locals \in Ids /\ contexts[c].loop \in 0..(e - 1)
      BY <1>2, <1>5
    <3>2. CASE locals = Fresh
      BY <3>2, <1>3
    <3>3. CASE locals = contexts[c].locals
      BY <3>1, <3>3
    <3>4. CASE locals = contexts[c].loop /\ locals # 0
      BY <3>1, <3>4, <1>1, <1>3
    <3> QED
      BY <3>2, <3>3, <3>4
  <2>3. loop \in 0..e
    BY <2>2, <1>1, <1>3
  <2>4. \A d \in Ids' : /\ contexts'[d].result \in 1..Len(nodes)'
                        /\ contexts'[d].locals \in Ids'
                        /\ contexts'[d].loop \in 0..Len(contexts')
    <3> SUFFICES ASSUME NEW d \in Ids \cup {e}
                 PROVE  /\ contexts'[d].result \in 1..Len(nodes)'
                        /\ contexts'[d].locals \in Ids \cup {e}
                        /\ contexts'[d].loop \in 0..e
      BY <1>1
    <3>1. CASE d = e
      BY <3>1, <2>1, <2>2, <1>1
    <3>2. CASE d \in Ids
      <4>1. contexts'[d].result \in 1..Len(nodes)'
        BY <3>2, <1>4, <1>5 DEF NodesRange
      <4>2. contexts[d].loop \in 0..e
        BY <3>2, <1>5, <1>1
      <4> QED
        BY <3>2, <4>1, <4>2, <2>3, <1>4, <1>5
    <3> QED
      BY <3>1, <3>2
  <2> QED
    BY <2>4, <1>1 DEF Ranges, NodesRange, Children
<1>8. ASSUME NEW u \in Threads, NEW i \in 1..Len(stack'[u])
      PROVE  \/ i \in 1..Len(stack[u]) /\ stack'[u][i] = stack[u][i] /\ stack[u][i] \in Ids
             \/ u = t /\ i = Len(stack[t]) + 1 /\ as # "task" /\ stack'[u][i] = e
  <2>1. CASE i \in 1..Len(stack[u])
    BY <2>1, <1>1 DEF Longer, StackInv, Placed
  <2>2. CASE i \notin 1..Len(stack[u])
    <3>1. u = t /\ as # "task"
      BY <2>2, <1>1
    <3>2. i = Len(stack[t]) + 1
      BY <2>2, <3>1, <1>1, <1>2
    <3> QED
      BY <3>1, <3>2, <1>1
  <2> QED
    BY <2>1, <2>2
<1>9. Placed'
  <2>1. ASSUME NEW u \in Threads, NEW i \in 1..Len(stack'[u])
        PROVE  stack'[u][i] \in Ids' /\ contexts'[stack'[u][i]].state = "running"
    <3>1. CASE i \in 1..Len(stack[u]) /\ stack'[u][i] = stack[u][i] /\ stack[u][i] \in Ids
      BY <3>1, <1>1, <1>4, <1>a DEF Placed
    <3>2. CASE as # "task" /\ stack'[u][i] = e
      BY <3>2, <1>1
    <3> QED
      BY <3>1, <3>2, <1>8
  <2>2. ASSUME NEW u \in Threads, NEW v \in Threads,
               NEW i \in 1..Len(stack'[u]), NEW j \in 1..Len(stack'[v]),
               stack'[u][i] = stack'[v][j]
        PROVE  u = v /\ i = j
    <3>1. CASE stack'[u][i] = e
      <4>1. /\ u = t /\ i = Len(stack[t]) + 1
            /\ v = t /\ j = Len(stack[t]) + 1
        BY <3>1, <2>2, <1>1, <1>8
      <4> QED
        BY <4>1
    <3>2. CASE stack'[u][i] # e
      <4>1. /\ i \in 1..Len(stack[u]) /\ stack'[u][i] = stack[u][i]
            /\ j \in 1..Len(stack[v]) /\ stack'[v][j] = stack[v][j]
        BY <3>2, <2>2, <1>8
      <4>2. stack[u][i] = stack[v][j]
        BY <4>1, <2>2
      <4> QED
        BY <4>1, <4>2, <1>b
    <3> QED
      BY <3>1, <3>2
  <2> QED
    BY <2>1, <2>2 DEF Placed
<1>10. ASSUME NEW d \in Ids, Alive(d)', contexts'[d].result = contexts'[e].result
       PROVE  Together(d, e)' /\ Together(e, d)'
  <2>1. type = "none" /\ as # "task" /\ contexts[d].result = contexts[c].result
    <3>1. /\ contexts[d].result = ResultFor(c, type) /\ contexts[d].result \in 1..Len(nodes)
          /\ Len(nodes) \in Nat
      BY <1>1, <1>4, <1>5, <1>10 DEF NodesRange
    <3>2. ResultFor(c, type) # Len(nodes) + 1
      BY <3>1
    <3>3. type = "none"
      BY <3>2 DEF ResultFor
    <3> QED
      BY <3>1, <3>3 DEF ResultFor
  <2>2. d = c \/ Together(c, d)
    BY <2>1, <1>2, <1>4, <1>10 DEF StackInv, Writers
  <2> QED
    BY <2>1, <2>2, <1>6
<1>11. Writers'
  <2> SUFFICES ASSUME NEW x \in Ids \cup {e}, NEW y \in Ids \cup {e},
                      x # y, Alive(x)', Alive(y)', contexts'[x].result = contexts'[y].result
               PROVE  Together(x, y)'
    BY <1>1 DEF Writers
  <2>1. CASE x = e
    BY <2>1, <1>10
  <2>2. CASE y = e
    BY <2>2, <1>10
  <2>3. CASE x \in Ids /\ y \in Ids
    BY <2>3, <1>1, <1>2, OldKept
  <2> QED
    BY <2>1, <2>2, <2>3
<1>12. ASSUME NEW d \in Ids, Alive(d)', contexts'[d].locals = contexts'[e].locals,
              contexts'[d].function = "apply" \/ contexts'[e].function = "apply"
       PROVE  Together(d, e)' /\ Together(e, d)'
  <2>1. contexts[d].locals = locals /\ locals \in Ids
    BY <1>1, <1>4, <1>5, <1>12
  <2>2. locals # Fresh
    BY <2>1, <1>1, <1>3
  <2>3. CASE locals = contexts[c].locals /\ contexts[c].function = "apply" /\ as # "task"
    <3>1. d = c \/ Together(c, d)
      BY <2>1, <2>3, <1>2, <1>4, <1>12 DEF StackInv, Scopes
    <3> QED
      BY <2>3, <3>1, <1>6
  <2>4. CASE locals = contexts[c].loop /\ locals # 0 /\ function = "node"
    <3>1. contexts[d].function = "apply"
      BY <2>4, <1>1, <1>4, <1>12
    <3> QED
      BY <2>1, <2>4, <3>1, <1>2 DEF StackInv, Loops
  <2> QED
    BY <2>2, <2>3, <2>4
<1>13. Scopes'
  <2> SUFFICES ASSUME NEW x \in Ids \cup {e}, NEW y \in Ids \cup {e},
                      x # y, Alive(x)', Alive(y)',
                      contexts'[x].function = "apply", contexts'[x].locals = contexts'[y].locals
               PROVE  Together(x, y)'
    BY <1>1 DEF Scopes
  <2>1. CASE x = e
    BY <2>1, <1>12
  <2>2. CASE y = e
    BY <2>2, <1>12
  <2>3. CASE x \in Ids /\ y \in Ids
    BY <2>3, <1>1, <1>2, OldKept
  <2> QED
    BY <2>1, <2>2, <2>3
<1>14. Loops'
  <2> SUFFICES ASSUME NEW x \in Ids \cup {e}, NEW y \in Ids \cup {e},
                      contexts'[x].loop # 0, contexts'[y].locals = contexts'[x].loop
               PROVE  contexts'[y].function # "apply"
    BY <1>1 DEF Loops
  <2>1. x \in Ids
    BY <1>1
  <2>2. \/ contexts'[x].loop = contexts[x].loop
        \/ x = c /\ contexts'[x].loop = loop /\ loop = locals /\ function = "node"
    BY <2>1, <1>4
  <2>3. CASE y \in Ids
    <3>1. CASE contexts'[x].loop = contexts[x].loop
      BY <2>1, <2>3, <3>1, <1>1, <1>2, <1>4, OldKept
    <3>2. CASE x = c /\ loop = locals /\ contexts'[x].loop = loop /\ function = "node"
      <4>1. locals = Fresh \/ locals = contexts[c].loop
        BY <3>2
      <4>2. locals # Fresh
        BY <2>3, <3>2, <1>1, <1>3, <1>4, <1>5
      <4>3. contexts[c].loop # 0 /\ contexts[y].locals = contexts[c].loop
        BY <2>3, <3>2, <4>1, <4>2, <1>4
      <4> QED
        BY <2>3, <4>3, <1>1, <1>2, OldKept
    <3> QED
      BY <2>2, <3>1, <3>2
  <2>4. CASE y = e
    <3>1. CASE function = "node"
      BY <2>4, <3>1, <1>1
    <3>2. CASE function # "node"
      <4>1. contexts'[x].loop = contexts[x].loop /\ locals = contexts[x].loop
        BY <2>2, <2>4, <3>2, <1>1
      <4>2. locals # Fresh
        BY <4>1, <2>1, <1>1, <1>3, <1>5
      <4>3. locals = contexts[c].locals /\ contexts[c].function = "apply"
        BY <3>2, <4>2
      <4> QED
        BY <2>1, <4>1, <4>3, <1>2 DEF StackInv, Loops
    <3> QED
      BY <3>1, <3>2
  <2> QED
    BY <2>3, <2>4
<1>15. Nesting'
  <2> SUFFICES ASSUME NEW u \in Threads, NEW i \in 1..Len(stack'[u]), NEW j \in 1..Len(stack'[u]),
                      i < j
               PROVE  Inside(contexts'[stack'[u][i]].path, contexts'[stack'[u][i]].step,
                             contexts'[stack'[u][j]].path)
    BY DEF Nesting
  <2>1. CASE i \in 1..Len(stack[u]) /\ j \in 1..Len(stack[u])
    <3>1. stack'[u][i] = stack[u][i] /\ stack'[u][j] = stack[u][j]
      BY <2>1, <1>1 DEF Longer
    <3> QED
      BY <2>1, <3>1, <1>1, <1>2, OldKept
  <2>2. CASE ~(i \in 1..Len(stack[u]) /\ j \in 1..Len(stack[u]))
    <3>1. /\ u = t /\ j = Len(stack[t]) + 1 /\ stack'[u][j] = e
          /\ i \in 1..Len(stack[t]) /\ stack'[u][i] = stack[t][i]
      <4>1. CASE i \in 1..Len(stack[u])
        <5>1. u = t /\ j = Len(stack[t]) + 1 /\ stack'[u][j] = e
          BY <2>2, <4>1, <1>8
        <5>2. stack'[u][i] = stack[u][i]
          BY <4>1, <1>1 DEF Longer
        <5> QED
          BY <4>1, <5>1, <5>2
      <4>2. CASE i \notin 1..Len(stack[u])
        <5>1. u = t /\ i = Len(stack[t]) + 1 /\ as # "task"
          BY <4>2, <1>8
        <5>2. Len(stack'[u]) = Len(stack[t]) + 1
          BY <5>1, <1>1
        <5> QED
          BY <5>1, <5>2, <1>2
      <4> QED
        BY <4>1, <4>2
    <3>2. /\ contexts'[c].path = contexts[c].path /\ contexts'[c].step = contexts[c].step + 1
          /\ contexts'[e].path = Append(contexts[c].path, contexts[c].step + 1)
      BY <1>1, <1>2 DEF Moved
    <3>3. contexts[c].step + 1 \in Nat
      BY <1>2
    <3>4. CASE i = Len(stack[t])
      <4> DEFINE n == contexts[c].step + 1
      <4> HIDE DEF n
      <4>1. Inside(contexts[c].path, n, Append(contexts[c].path, n))
        BY <3>3, <1>2, InsideNext DEF n
      <4> QED
        BY <4>1, <3>1, <3>2, <3>4, <1>2 DEF n
    <3>5. CASE i # Len(stack[t])
      <4> DEFINE b == stack[t][i]
      <4>1. Len(stack[t]) \in 1..Len(stack[t]) /\ i < Len(stack[t])
        BY <3>1, <3>5, <1>2
      <4>2. b \in Ids /\ b # c /\ Inside(contexts[b].path, contexts[b].step, contexts[c].path)
        <5>1. b \in Ids /\ (b = c => i = Len(stack[t]))
          <6>1. b \in Ids
            BY <3>1, <1>a DEF Placed
          <6>2. ASSUME b = c PROVE i = Len(stack[t])
            <7> DEFINE m == Len(stack[t])
            <7>1. m \in 1..Len(stack[t]) /\ i \in 1..Len(stack[t])
              BY <3>1, <4>1
            <7>2. stack[t][i] = stack[t][m]
              BY <6>2, <1>2
            <7> HIDE DEF m
            <7>3. i = m
              BY <7>1, <7>2, <1>b
            <7> QED
              BY <7>3 DEF m
          <6> QED
            BY <6>1, <6>2
        <5>2. Inside(contexts[b].path, contexts[b].step, contexts[c].path)
          BY <3>1, <4>1, <1>2 DEF StackInv, Nesting
        <5> HIDE DEF b
        <5> QED
          BY <5>1, <5>2, <3>5
      <4> HIDE DEF b
      <4>3. /\ contexts'[b].path = contexts[b].path /\ contexts'[b].step = contexts[b].step
            /\ contexts[b].path \in Seq(Nat) /\ contexts[b].step \in Nat
        BY <4>2, <1>1, <1>4, HereMoved DEF StackInv
      <4>4. Inside(contexts[b].path, contexts[b].step,
                   Append(contexts[c].path, contexts[c].step + 1))
        BY <4>2, <4>3, <3>3, <1>2, InsideDeeper
      <4> QED
        BY <4>3, <4>4, <3>1, <3>2 DEF b
    <3> QED
      BY <3>4, <3>5
  <2> QED
    BY <2>1, <2>2
<1> QED
  BY <1>1, <1>7, <1>9, <1>11, <1>13, <1>14, <1>15 DEF StackInv

-----------------------------------------------------------------------------
(* The steps.                                                              *)

\* No path and no children change.
SameTree ==
  /\ Len(nodes') = Len(nodes)
  /\ \A n \in 1..Len(nodes) :
       nodes'[n].path = nodes[n].path /\ nodes'[n].children = nodes[n].children

LEMMA SameRange ==
  ASSUME Ranges, SameTree
  PROVE  NodesRange
BY DEF Ranges, SameTree, NodesRange, Children

LEMMA GrownRange ==
  ASSUME NodesTyped, Ranges, NEW r \in 1..Len(nodes),
         NEW type \in {"EMPTY", "ELEMENT", "TEXT"}, NEW p \in Seq(Nat),
         nodes' = Linked(r, type, p)
  PROVE  /\ NodesRange /\ NodesTyped' /\ Len(nodes') = Len(nodes) + 1
         /\ nodes'[Len(nodes) + 1].children = <<>>
<1>1. /\ NodesTyped' /\ Len(nodes') = Len(nodes) + 1
      /\ \A n \in 1..Len(nodes) :
           nodes'[n].children = IF n = r THEN Append(nodes[n].children, Len(nodes) + 1)
                                ELSE nodes[n].children
      /\ nodes'[Len(nodes) + 1].children = <<>>
  BY LinkedNodes
<1>2. Len(nodes) \in Nat \ {0}
  BY DEF Ranges
<1>3. ASSUME NEW n \in 1..Len(nodes), NEW k \in 1..Len(nodes'[n].children)
      PROVE  nodes'[n].children[k] \in 1..(Len(nodes) + 1)
  <2>1. nodes[n].children \in Seq(Nat) /\ Len(nodes[n].children) \in Nat
    BY NodeFacts
  <2>2. ASSUME k \in 1..Len(nodes[n].children), nodes'[n].children[k] = nodes[n].children[k]
        PROVE  nodes'[n].children[k] \in 1..(Len(nodes) + 1)
    <3>1. nodes[n].children[k] \in 1..Len(nodes)
      BY <2>2 DEF Ranges, Children
    <3> QED
      BY <2>2, <3>1, <1>2
  <2>3. CASE n = r
    <3>1. nodes'[n].children = Append(nodes[n].children, Len(nodes) + 1)
      BY <2>3, <1>1
    <3>2. Len(nodes) + 1 \in Nat
      BY <1>2
    <3>3. \/ k \in 1..Len(nodes[n].children) /\ nodes'[n].children[k] = nodes[n].children[k]
          \/ nodes'[n].children[k] = Len(nodes) + 1
      BY <2>1, <3>1, <3>2, AppendIs
    <3> QED
      BY <2>2, <3>3, <1>2
  <2>4. CASE n # r
    <3>1. nodes'[n].children = nodes[n].children
      BY <2>4, <1>1
    <3> QED
      BY <2>2, <3>1
  <2> QED
    BY <2>3, <2>4
<1>4. ASSUME NEW n \in 1..(Len(nodes) + 1), NEW k \in 1..Len(nodes'[n].children)
      PROVE  nodes'[n].children[k] \in 1..(Len(nodes) + 1)
  <2>1. CASE n \in 1..Len(nodes)
    BY <2>1, <1>3
  <2>2. CASE n = Len(nodes) + 1
    BY <2>2, <1>1
  <2> QED
    BY <2>1, <2>2, <1>2
<1> QED
  BY <1>1, <1>2, <1>4 DEF NodesRange

\* An instruction that only writes a text, or looks at an attribute list.
LEMMA AdvancedOutput ==
  ASSUME OutputInv, NEW t \in Threads, stack[t] # <<>>, NEW c, c = Current(t),
         NEW function \in FunctionNames, function = "apply" <=> contexts[c].function = "apply",
         contexts' = Advanced(c, function, 0), stack' = stack,
         \/ nodes' = nodes
         \/ nodes' = Linked(contexts[c].result, "TEXT", Here(c))
  PROVE  OutputInv'
<1>1. /\ NodesTyped /\ ContextsTyped /\ Ranges /\ Placed /\ StackInv
      /\ SiblingsInOrder /\ Ordered
  BY DEF OutputInv, StackInv
<1>2. OnTop(t, c)
  BY <1>1, Top
<1>3. c \in Ids /\ Here(c) \in Seq(Nat) /\ contexts[c].result \in 1..Len(nodes)
  BY <1>1, <1>2 DEF OnTop, Ranges
<1>4. NodesRange /\ NodesTyped'
  <2>1. CASE nodes' = nodes
    <3>1. SameTree
      BY <2>1 DEF SameTree
    <3> QED
      BY <2>1, <3>1, <1>1, SameRange DEF NodesTyped
  <2>2. CASE nodes' = Linked(contexts[c].result, "TEXT", Here(c))
    BY <2>2, <1>1, <1>3, GrownRange
  <2> QED
    BY <2>1, <2>2
<1>5. StackInv' /\ Moved(contexts', c, function, 0)
  BY <1>1, <1>3, <1>4, AdvancedStack
<1>6. SiblingsInOrder' /\ \A d \in Ids : Alive(d) => Behind(d)'
  <2>1. CASE nodes' = nodes
    <3>1. Len(nodes') = Len(nodes) /\ \A n \in 1..Len(nodes) :
            nodes'[n].path = nodes[n].path /\ nodes'[n].children = nodes[n].children
      BY <2>1
    <3> QED
      BY <3>1, <1>1, <1>5, KeptOrder
  <2>2. CASE nodes' = Linked(contexts[c].result, "TEXT", Here(c))
    BY <2>2, <1>1, <1>5, GrownOrder
  <2> QED
    BY <2>1, <2>2
<1>7. Ids' = Ids /\ \A d \in Ids : Alive(d)' <=> Alive(d)
  <2>1. Len(contexts') = Len(contexts)
    BY <1>1, <1>3, AdvancedContexts
  <2> QED
    BY <2>1, <1>5 DEF Ids, Moved, Alive
<1>8. Ordered'
  BY <1>6, <1>7 DEF Ordered
<1> QED
  BY <1>4, <1>5, <1>6, <1>8 DEF OutputInv, StackInv

\* An instruction that makes a context.
LEMMA MadeOutput ==
  ASSUME OutputInv, NEW t \in Threads, stack[t] # <<>>, NEW c, c = Current(t),
         NEW type \in {"none", "EMPTY", "ELEMENT", "TEXT"},
         NEW locals \in Nat, NEW function \in FunctionNames, NEW as \in Ways,
         NEW next \in FunctionNames, NEW loop \in Nat, Make(t, type, locals, function, as, next, loop),
         Handed(c, type, locals, function, as, next, loop)
  PROVE  OutputInv'
<1>0. PICK e : e = Len(contexts) + 1
  OBVIOUS
<1>1. /\ NodesTyped /\ ContextsTyped /\ Ranges /\ Placed /\ StackInv
      /\ SiblingsInOrder /\ Ordered
  BY DEF OutputInv, StackInv
<1>2. OnTop(t, c)
  BY <1>1, Top
<1>3. /\ c \in Ids /\ Alive(c) /\ Here(c) \in Seq(Nat) /\ contexts[c].result \in 1..Len(nodes)
  BY <1>1, <1>2 DEF OnTop, Ranges
<1>4. Made(t, c, e, type, locals, function, as, next, loop)
  BY <1>0, <1>1, MadeContexts
<1>5. CASE type = "none"
  <2>1. nodes' = nodes
    BY <1>5 DEF Make
  <2>2. SameTree
    BY <2>1 DEF SameTree
  <2>3. NodesRange /\ NodesTyped'
    BY <2>1, <2>2, <1>1, SameRange DEF NodesTyped
  <2>4. StackInv' /\ Moved(contexts', c, next, loop)
    BY <1>1, <1>5, <2>3, MadeStack
  <2>5. SiblingsInOrder' /\ \A d \in Ids : Alive(d) => Behind(d)'
    <3>1. Len(nodes') = Len(nodes) /\ \A n \in 1..Len(nodes) :
            nodes'[n].path = nodes[n].path /\ nodes'[n].children = nodes[n].children
      BY <2>1
    <3> QED
      BY <3>1, <1>1, <2>4, KeptOrder
  <2>6. Behind(e)'
    <3>1. /\ contexts'[e].result = contexts[c].result /\ contexts'[e].path = Here(c)
          /\ contexts'[e].step = 0
      BY <1>4, <1>5 DEF Made, ResultFor
    <3>2. Here(e)' = Append(Here(c), 1)
      BY <3>1 DEF Here
    <3> SUFFICES ASSUME NEW k \in 1..Len(nodes[contexts[c].result].children)
                 PROVE  Before(nodes[nodes[contexts[c].result].children[k]].path,
                               Append(Here(c), 1))
      BY <2>1, <3>1, <3>2 DEF Behind, Children
    <3> DEFINE n == nodes[contexts[c].result].children[k]
    <3>3. n \in 1..Len(nodes) /\ Before(nodes[n].path, Here(c))
      BY <1>1, <1>3 DEF Ranges, Children, Ordered, Behind
    <3> HIDE DEF n
    <3>4. Before(nodes[n].path, Append(Here(c), 1))
      BY <3>3, <1>1, <1>3, NodeFacts, BeforeInside
    <3> QED
      BY <3>4 DEF n
  <2>7. Ordered'
    BY <2>5, <2>6, <1>4 DEF Ordered, Made, Moved, Alive
  <2> QED
    BY <2>3, <2>4, <2>5, <2>7 DEF OutputInv, StackInv
<1>6. CASE type # "none"
  <2>1. nodes' = Linked(contexts[c].result, type, Here(c)) /\ type \in {"EMPTY", "ELEMENT", "TEXT"}
    BY <1>6 DEF Make
  <2>2. /\ NodesRange /\ NodesTyped' /\ Len(nodes') = Len(nodes) + 1
        /\ nodes'[Len(nodes) + 1].children = <<>>
    BY <2>1, <1>1, <1>3, GrownRange
  <2>3. StackInv' /\ Moved(contexts', c, next, loop)
    BY <1>1, <1>6, <2>2, MadeStack
  <2>4. SiblingsInOrder' /\ \A d \in Ids : Alive(d) => Behind(d)'
    BY <2>1, <2>3, <1>1, GrownOrder
  <2>5. Behind(e)'
    <3>1. contexts'[e].result = Len(nodes) + 1
      BY <1>4, <1>6 DEF Made, ResultFor
    <3> QED
      BY <2>2, <3>1 DEF Behind, Children
  <2>6. Ordered'
    BY <2>4, <2>5, <1>4 DEF Ordered, Made, Moved, Alive
  <2> QED
    BY <2>2, <2>3, <2>4, <2>6 DEF OutputInv, StackInv
<1> QED
  BY <1>5, <1>6

\* A context that is done, or taken, stays where it is.
LEMMA StateSet ==
  ASSUME ContextsTyped, NEW c \in Ids, NEW state \in {"queued", "running", "done"},
         contexts' = [contexts EXCEPT ![c].state = state]
  PROVE  /\ ContextsTyped' /\ Len(contexts') = Len(contexts) /\ Ids' = Ids
         /\ \A d \in Ids :
              /\ contexts'[d].result = contexts[d].result /\ contexts'[d].locals = contexts[d].locals
              /\ contexts'[d].path = contexts[d].path /\ contexts'[d].step = contexts[d].step
              /\ contexts'[d].function = contexts[d].function /\ contexts'[d].loop = contexts[d].loop
              /\ contexts'[d].state = IF d = c THEN state ELSE contexts[d].state
<1>1. /\ Len(contexts) \in Nat /\ contexts \in [Ids -> ContextRecords]
      /\ contexts[c] \in ContextRecords
  BY DEF ContextsTyped, Ids
<1> DEFINE new == [contexts[c] EXCEPT !.state = state]
<1>2. /\ new \in ContextRecords /\ new.result = contexts[c].result
      /\ new.locals = contexts[c].locals /\ new.path = contexts[c].path
      /\ new.step = contexts[c].step /\ new.function = contexts[c].function
      /\ new.loop = contexts[c].loop /\ new.state = state
  BY <1>1 DEF ContextRecords
<1>3. contexts' = [contexts EXCEPT ![c] = new]
  BY <1>1
<1> HIDE DEF new
<1>4. contexts'[c] = new /\ \A d \in Ids : d # c => contexts'[d] = contexts[d]
  BY <1>1, <1>2, <1>3
<1>5. contexts' \in Seq(ContextRecords) /\ Len(contexts') = Len(contexts)
  BY <1>2, <1>3, ExceptSeq DEF Ids, ContextsTyped
<1>6. ContextsTyped' /\ Ids' = Ids
  BY <1>5 DEF ContextsTyped, Ids
<1> QED
  BY <1>2, <1>4, <1>5, <1>6

\* Steps in which no context moves and the tree stays as it is.
LEMMA SameOrder ==
  ASSUME NodesTyped, Ranges, SiblingsInOrder, Ordered, SameTree, Ids' = Ids,
         \A d \in Ids : /\ contexts'[d].result = contexts[d].result
                        /\ contexts'[d].path = contexts[d].path
                        /\ contexts'[d].step = contexts[d].step
                        /\ Alive(d)' => Alive(d)
  PROVE  SiblingsInOrder' /\ Ordered'
<1>1. SiblingsInOrder'
  <2> SUFFICES ASSUME NEW n \in 1..Len(nodes),
                      NEW i \in 1..Len(nodes'[n].children), NEW j \in 1..Len(nodes'[n].children),
                      i < j
               PROVE  Before(nodes'[nodes'[n].children[i]].path, nodes'[nodes'[n].children[j]].path)
    BY DEF SiblingsInOrder, SameTree
  <2>1. /\ nodes'[n].children = nodes[n].children
        /\ nodes[n].children[i] \in 1..Len(nodes) /\ nodes[n].children[j] \in 1..Len(nodes)
    BY DEF Ranges, Children, SameTree
  <2>2. Before(nodes[nodes[n].children[i]].path, nodes[nodes[n].children[j]].path)
    BY <2>1 DEF SiblingsInOrder
  <2> QED
    BY <2>1, <2>2 DEF SameTree
<1>2. ASSUME NEW d \in Ids, Alive(d)'
      PROVE  Behind(d)'
  <2>1. /\ contexts'[d].result = contexts[d].result /\ contexts[d].result \in 1..Len(nodes)
        /\ nodes'[contexts[d].result].children = nodes[contexts[d].result].children
        /\ Here(d)' = Here(d)
    BY DEF Ranges, SameTree, Here
  <2> SUFFICES ASSUME NEW k \in 1..Len(nodes[contexts[d].result].children)
               PROVE  Before(nodes'[nodes[contexts[d].result].children[k]].path, Here(d))
    BY <2>1 DEF Behind, Children
  <2> DEFINE n == nodes[contexts[d].result].children[k]
  <2>2. n \in 1..Len(nodes) /\ Before(nodes[n].path, Here(d))
    BY <2>1, <1>2 DEF Ranges, Children, Ordered, Behind
  <2> HIDE DEF n
  <2>3. Before(nodes'[n].path, Here(d))
    BY <2>2 DEF SameTree
  <2> QED
    BY <2>3 DEF n
<1> QED
  BY <1>1, <1>2 DEF Ordered

\* The new head of an attribute list.
LEMMA LinkOutput ==
  ASSUME OutputInv, NEW t \in Threads, Link(t)
  PROVE  OutputInv'
<1>1. /\ NodesTyped /\ ContextsTyped /\ Ranges /\ Placed /\ Writers /\ Scopes /\ Loops
      /\ Nesting /\ SiblingsInOrder /\ Ordered
  BY DEF OutputInv
<1> DEFINE h == link[t][1]
           list == link[t][2]
<1>2. nodes' = [nodes EXCEPT ![h].attributes = list] /\ contexts' = contexts /\ stack' = stack
  BY DEF Link
<1> HIDE DEF h, list
<1>3. NodesTyped' /\ SameTree
  <2>1. PICK A : nodes \in Seq(NodeRecords(A))
    BY <1>1 DEF NodesTyped
  <2>2. Len(nodes) \in Nat /\ nodes \in [1..Len(nodes) -> NodeRecords(A)]
    BY <2>1
  <2>3. CASE h \notin 1..Len(nodes)
    <3>1. nodes' = nodes
      BY <2>2, <2>3, <1>2
    <3> QED
      BY <3>1, <1>1 DEF NodesTyped, SameTree
  <2>4. CASE h \in 1..Len(nodes)
    <3> DEFINE B == A \cup {list}
               new == [nodes[h] EXCEPT !.attributes = list]
    <3>1. nodes' = [nodes EXCEPT ![h] = new]
      BY <1>2
    <3>2. nodes[h] \in NodeRecords(A)
      BY <2>2, <2>4
    <3>3. new \in NodeRecords(B) /\ new.path = nodes[h].path /\ new.children = nodes[h].children
      BY <3>2 DEF NodeRecords
    <3>4. NodeRecords(A) \subseteq NodeRecords(B)
      BY DEF NodeRecords
    <3> HIDE DEF B, new
    <3>5. nodes \in Seq(NodeRecords(B))
      <4>1. nodes \in [1..Len(nodes) -> NodeRecords(B)]
        BY <2>2, <3>4
      <4> QED
        BY <4>1, <2>2
    <3>6. nodes' \in Seq(NodeRecords(B)) /\ Len(nodes') = Len(nodes)
      BY <3>1, <3>3, <3>5, <2>4, ExceptSeq
    <3>7. nodes'[h] = new /\ \A n \in 1..Len(nodes) : n # h => nodes'[n] = nodes[n]
      BY <3>1, <2>2, <2>4
    <3>8. SameTree
      BY <3>3, <3>6, <3>7 DEF SameTree
    <3> QED
      BY <3>6, <3>8 DEF NodesTyped
  <2> QED
    BY <2>3, <2>4
<1>4. Ranges'
  <2>1. NodesRange
    BY <1>1, <1>3, SameRange
  <2> QED
    BY <2>1, <1>1, <1>2, <1>3 DEF Ranges, NodesRange, Children, Ids, SameTree
<1>5. Placed' /\ Writers' /\ Scopes' /\ Loops' /\ Nesting' /\ ContextsTyped'
  BY <1>1, <1>2 DEF Placed, Writers, Scopes, Loops, Nesting, ContextsTyped, Ids, Alive, Together
<1>6. SiblingsInOrder' /\ Ordered'
  BY <1>1, <1>2, <1>3, SameOrder DEF Ids, Alive
<1> QED
  BY <1>3, <1>4, <1>5, <1>6 DEF OutputInv

\* A context that is taken, or that returns: what lies on the stacks changes.
LEMMA StateOutput ==
  ASSUME OutputInv, NEW c \in Ids, NEW state \in {"queued", "running", "done"},
         contexts' = [contexts EXCEPT ![c].state = state], nodes' = nodes,
         Alive(c), stack' \in [Threads -> Seq(Nat)], Placed', Nesting',
         \A x, y \in Ids : Alive(x)' /\ Alive(y)' /\ Together(x, y) => Together(x, y)'
  PROVE  OutputInv'
<1>1. /\ NodesTyped /\ ContextsTyped /\ Ranges /\ Placed /\ Writers /\ Scopes /\ Loops
      /\ Nesting /\ SiblingsInOrder /\ Ordered
  BY DEF OutputInv
<1>2. /\ ContextsTyped' /\ Len(contexts') = Len(contexts) /\ Ids' = Ids
      /\ \A d \in Ids :
           /\ contexts'[d].result = contexts[d].result /\ contexts'[d].locals = contexts[d].locals
           /\ contexts'[d].path = contexts[d].path /\ contexts'[d].step = contexts[d].step
           /\ contexts'[d].function = contexts[d].function /\ contexts'[d].loop = contexts[d].loop
           /\ contexts'[d].state = IF d = c THEN state ELSE contexts[d].state
  BY <1>1, StateSet
<1>3. \A d \in Ids : Alive(d)' => Alive(d)
  BY <1>2 DEF Alive
<1>4. SameTree /\ NodesTyped'
  BY <1>1 DEF SameTree, NodesTyped
<1>5. Ranges'
  BY <1>1, <1>2 DEF Ranges, Children
<1>6. Writers'
  BY <1>1, <1>2, <1>3 DEF Writers
<1>7. Scopes'
  BY <1>1, <1>2, <1>3 DEF Scopes
<1>8. Loops'
  BY <1>1, <1>2 DEF Loops
<1>9. SiblingsInOrder' /\ Ordered'
  BY <1>1, <1>2, <1>3, <1>4, SameOrder
<1> QED
  BY <1>2, <1>4, <1>5, <1>6, <1>7, <1>8, <1>9 DEF OutputInv

LEMMA TakeOutput ==
  ASSUME OutputInv, NEW t \in Threads, NEW c \in Ids, TakeTask(t, c)
  PROVE  OutputInv'
<1>1. /\ contexts[c].state = "queued" /\ contexts' = [contexts EXCEPT ![c].state = "running"]
      /\ stack[t] = <<>> /\ stack' = [stack EXCEPT ![t] = <<c>>] /\ nodes' = nodes /\ Alive(c)
  BY DEF TakeTask, Alive
<1>2. /\ ContextsTyped /\ Ranges /\ Placed /\ Nesting
  BY DEF OutputInv
<1>3. /\ Len(contexts') = Len(contexts) /\ Ids' = Ids
      /\ \A d \in Ids :
           /\ contexts'[d].path = contexts[d].path /\ contexts'[d].step = contexts[d].step
           /\ contexts'[d].state = IF d = c THEN "running" ELSE contexts[d].state
  BY <1>1, <1>2, StateSet
<1>4. /\ c \in Nat /\ stack' \in [Threads -> Seq(Nat)] /\ Len(stack'[t]) = 1 /\ stack'[t][1] = c
      /\ Len(stack[t]) = 0 /\ \A u \in Threads : u # t => stack'[u] = stack[u]
  <2>1. c \in Nat
    BY DEF Ids
  <2> DEFINE s == <<c>>
  <2>2. s \in Seq(Nat) /\ Len(s) = 1 /\ s[1] = c
    BY <2>1
  <2>3. stack' = [stack EXCEPT ![t] = s] /\ stack \in [Threads -> Seq(Nat)]
    BY <1>1, <1>2 DEF Ranges
  <2> HIDE DEF s
  <2> QED
    BY <1>1, <2>1, <2>2, <2>3
<1>5. \A u \in Threads : \A i \in 1..Len(stack[u]) : stack[u][i] \in Ids /\ stack[u][i] # c
  BY <1>1, <1>2 DEF Placed
<1>6. ASSUME NEW u \in Threads, NEW i \in 1..Len(stack'[u])
      PROVE  \/ u = t /\ i = 1 /\ stack'[u][i] = c
             \/ u # t /\ i \in 1..Len(stack[u]) /\ stack'[u][i] = stack[u][i]
  <2>1. CASE u = t
    <3>1. i \in 1..1
      BY <2>1, <1>4
    <3>2. i = 1
      BY <3>1
    <3> QED
      BY <2>1, <3>2, <1>4
  <2>2. CASE u # t
    <3>1. stack'[u] = stack[u]
      BY <2>2, <1>4
    <3> QED
      BY <2>2, <3>1
  <2> QED
    BY <2>1, <2>2
<1>7. Placed'
  <2>1. ASSUME NEW u \in Threads, NEW i \in 1..Len(stack'[u])
        PROVE  stack'[u][i] \in Ids' /\ contexts'[stack'[u][i]].state = "running"
    <3>1. CASE u = t
      BY <3>1, <1>3, <1>6
    <3>2. CASE u # t
      <4>1. /\ i \in 1..Len(stack[u]) /\ stack'[u][i] = stack[u][i]
            /\ stack[u][i] \in Ids /\ stack[u][i] # c
        BY <3>2, <1>5, <1>6
      <4>2. contexts[stack[u][i]].state = "running"
        BY <4>1, <1>2 DEF Placed
      <4> QED
        BY <4>1, <4>2, <1>3
    <3> QED
      BY <3>1, <3>2
  <2>2. ASSUME NEW u \in Threads, NEW v \in Threads,
               NEW i \in 1..Len(stack'[u]), NEW j \in 1..Len(stack'[v]),
               stack'[u][i] = stack'[v][j]
        PROVE  u = v /\ i = j
    <3>1. CASE u = t /\ v = t
      BY <3>1, <1>6
    <3>2. CASE u = t /\ v # t
      BY <3>2, <2>2, <1>5, <1>6
    <3>3. CASE u # t /\ v = t
      BY <3>3, <2>2, <1>5, <1>6
    <3>4. CASE u # t /\ v # t
      <4>1. stack'[u] = stack[u] /\ stack'[v] = stack[v]
        BY <3>4, <1>4
      <4> QED
        BY <4>1, <2>2, <1>2 DEF Placed
    <3> QED
      BY <3>1, <3>2, <3>3, <3>4
  <2> QED
    BY <2>1, <2>2 DEF Placed
<1>8. Nesting'
  <2> SUFFICES ASSUME NEW u \in Threads, NEW i \in 1..Len(stack'[u]), NEW j \in 1..Len(stack'[u]),
                      i < j
               PROVE  Inside(contexts'[stack'[u][i]].path, contexts'[stack'[u][i]].step,
                             contexts'[stack'[u][j]].path)
    BY DEF Nesting
  <2>1. u # t
    <3>1. ASSUME u = t PROVE FALSE
      <4>1. i = 1 /\ j = 1
        BY <3>1, <1>6
      <4> QED
        BY <4>1
    <3> QED
      BY <3>1
  <2>2. stack'[u] = stack[u] /\ i \in 1..Len(stack[u]) /\ j \in 1..Len(stack[u])
    BY <2>1, <1>4
  <2>3. Inside(contexts[stack[u][i]].path, contexts[stack[u][i]].step, contexts[stack[u][j]].path)
    BY <2>2, <1>2 DEF Nesting
  <2> QED
    BY <2>2, <2>3, <1>3, <1>5
<1>9. ASSUME NEW x \in Ids, NEW y \in Ids, Together(x, y)
      PROVE  Together(x, y)'
  <2>1. PICK u \in Threads : \E i, j \in 1..Len(stack[u]) : stack[u][i] = x /\ stack[u][j] = y
    BY <1>9 DEF Together
  <2>2. stack'[u] = stack[u]
    BY <2>1, <1>4
  <2> QED
    BY <2>1, <2>2 DEF Together
<1> QED
  BY <1>1, <1>4, <1>7, <1>8, <1>9, StateOutput

LEMMA ReturnOutput ==
  ASSUME OutputInv, NEW t \in Threads, Return(t)
  PROVE  OutputInv'
<1>0. PICK c : c = Current(t)
  OBVIOUS
<1>1. /\ stack[t] # <<>> /\ contexts' = [contexts EXCEPT ![c].state = "done"]
      /\ stack' = [stack EXCEPT ![t] = Front(stack[t])] /\ nodes' = nodes
  BY <1>0 DEF Return
<1>2. /\ ContextsTyped /\ Ranges /\ Placed /\ Nesting
  BY DEF OutputInv
<1>3. OnTop(t, c)
  BY <1>0, <1>1, <1>2, Top
<1>4. /\ c \in Ids /\ Alive(c) /\ stack[t] \in Seq(Nat) /\ Len(stack[t]) \in Nat \ {0}
      /\ stack[t][Len(stack[t])] = c
  BY <1>3 DEF OnTop
<1>5. /\ Len(contexts') = Len(contexts) /\ Ids' = Ids
      /\ \A d \in Ids :
           /\ contexts'[d].path = contexts[d].path /\ contexts'[d].step = contexts[d].step
           /\ contexts'[d].state = IF d = c THEN "done" ELSE contexts[d].state
  BY <1>1, <1>2, <1>4, StateSet
<1>6. /\ stack' \in [Threads -> Seq(Nat)] /\ Len(stack'[t]) = Len(stack[t]) - 1
      /\ \A i \in 1..Len(stack'[t]) : stack'[t][i] = stack[t][i]
      /\ \A u \in Threads : u # t => stack'[u] = stack[u]
  <2> DEFINE s == Front(stack[t])
  <2>1. s \in Seq(Nat) /\ Len(s) = Len(stack[t]) - 1 /\ \A i \in 1..Len(s) : s[i] = stack[t][i]
    BY <1>4 DEF Front
  <2>2. stack' = [stack EXCEPT ![t] = s] /\ stack \in [Threads -> Seq(Nat)]
    BY <1>1, <1>2 DEF Ranges
  <2> HIDE DEF s
  <2> QED
    BY <2>1, <2>2
<1>7. ASSUME NEW u \in Threads, NEW i \in 1..Len(stack'[u])
      PROVE  /\ i \in 1..Len(stack[u]) /\ stack'[u][i] = stack[u][i]
             /\ u = t => i # Len(stack[t])
  <2>1. CASE u = t
    BY <2>1, <1>4, <1>6
  <2>2. CASE u # t
    BY <2>2, <1>6
  <2> QED
    BY <2>1, <2>2
<1>8. \A u, v \in Threads : \A i \in 1..Len(stack[u]), j \in 1..Len(stack[v]) :
        stack[u][i] = stack[v][j] => u = v /\ i = j
  BY <1>2 DEF Placed
<1>9. ASSUME NEW u \in Threads, NEW i \in 1..Len(stack[u]), stack[u][i] # c
      PROVE  i \in 1..Len(stack'[u]) /\ stack'[u][i] = stack[u][i]
  <2>1. CASE u = t
    <3>1. i # Len(stack[t])
      BY <2>1, <1>4, <1>9
    <3> QED
      BY <2>1, <3>1, <1>4, <1>6
  <2>2. CASE u # t
    BY <2>2, <1>6
  <2> QED
    BY <2>1, <2>2
<1>10. ASSUME NEW u \in Threads, NEW i \in 1..Len(stack'[u])
       PROVE  stack[u][i] # c /\ stack[u][i] \in Ids
  <2> DEFINE m == Len(stack[t])
  <2>1. m \in 1..Len(stack[t]) /\ stack[t][m] = c
    BY <1>4
  <2> HIDE DEF m
  <2>2. i \in 1..Len(stack[u]) /\ (u = t => i # m)
    BY <1>7 DEF m
  <2>3. stack[u][i] \in Ids
    BY <2>2, <1>2 DEF Placed
  <2>4. stack[u][i] # stack[t][m]
    BY <2>1, <2>2, <1>8
  <2> QED
    BY <2>1, <2>3, <2>4
<1>11. Placed'
  <2>1. ASSUME NEW u \in Threads, NEW i \in 1..Len(stack'[u])
        PROVE  stack'[u][i] \in Ids' /\ contexts'[stack'[u][i]].state = "running"
    <3>1. contexts[stack[u][i]].state = "running"
      BY <1>2, <1>7 DEF Placed
    <3> QED
      BY <3>1, <1>5, <1>7, <1>10
  <2>2. ASSUME NEW u \in Threads, NEW v \in Threads,
               NEW i \in 1..Len(stack'[u]), NEW j \in 1..Len(stack'[v]),
               stack'[u][i] = stack'[v][j]
        PROVE  u = v /\ i = j
    <3>1. i \in 1..Len(stack[u]) /\ j \in 1..Len(stack[v]) /\ stack[u][i] = stack[v][j]
      BY <2>2, <1>7
    <3> QED
      BY <3>1, <1>8
  <2> QED
    BY <2>1, <2>2 DEF Placed
<1>12. Nesting'
  <2> SUFFICES ASSUME NEW u \in Threads, NEW i \in 1..Len(stack'[u]), NEW j \in 1..Len(stack'[u]),
                      i < j
               PROVE  Inside(contexts'[stack'[u][i]].path, contexts'[stack'[u][i]].step,
                             contexts'[stack'[u][j]].path)
    BY DEF Nesting
  <2>1. /\ i \in 1..Len(stack[u]) /\ stack'[u][i] = stack[u][i] /\ stack[u][i] \in Ids
        /\ j \in 1..Len(stack[u]) /\ stack'[u][j] = stack[u][j] /\ stack[u][j] \in Ids
    BY <1>7, <1>10
  <2>2. Inside(contexts[stack[u][i]].path, contexts[stack[u][i]].step, contexts[stack[u][j]].path)
    BY <2>1, <1>2 DEF Nesting
  <2> QED
    BY <2>1, <2>2, <1>5
<1>13. ASSUME NEW x \in Ids, NEW y \in Ids, Alive(x)', Alive(y)', Together(x, y)
       PROVE  Together(x, y)'
  <2>1. x # c /\ y # c
    BY <1>5, <1>13 DEF Alive
  <2>2. PICK u \in Threads : \E i, j \in 1..Len(stack[u]) : stack[u][i] = x /\ stack[u][j] = y
    BY <1>13 DEF Together
  <2>3. PICK i \in 1..Len(stack[u]), j \in 1..Len(stack[u]) : stack[u][i] = x /\ stack[u][j] = y
    BY <2>2
  <2>4. /\ i \in 1..Len(stack'[u]) /\ stack'[u][i] = x
        /\ j \in 1..Len(stack'[u]) /\ stack'[u][j] = y
    BY <2>1, <2>3, <1>9
  <2> QED
    BY <2>4 DEF Together
<1> QED
  BY <1>1, <1>4, <1>6, <1>11, <1>12, <1>13, StateOutput

-----------------------------------------------------------------------------
LEMMA InitOutput ==
  Init => OutputInv
<1> SUFFICES ASSUME Init PROVE OutputInv
  OBVIOUS
<1> DEFINE node == Node("EMPTY", 0, <<>>)
           root == Context(1, 1, <<>>, "node", "queued")
<1>1. node \in NodeRecords({<<>>}) /\ node.children = <<>> /\ Len(node.children) = 0
  BY DEF Node, NodeRecords
<1>2. /\ root \in ContextRecords /\ root.result = 1 /\ root.locals = 1 /\ root.function = "node"
      /\ root.loop = 0
  <2>1. <<>> \in Seq(Nat)
    OBVIOUS
  <2>2. root = [result |-> 1, locals |-> 1, path |-> <<>>, function |-> "node",
                state |-> "queued", step |-> 0, loop |-> 0]
    BY DEF Context
  <2> HIDE DEF root
  <2> QED
    BY <2>1, <2>2 DEF ContextRecords, FunctionNames
<1>3. nodes = <<node>> /\ contexts = <<root>> /\ stack = [t \in Threads |-> <<>>]
  BY DEF Init
<1> HIDE DEF node, root
<1>4. /\ nodes \in Seq(NodeRecords({<<>>})) /\ Len(nodes) = 1 /\ nodes[1] = node
      /\ contexts \in Seq(ContextRecords) /\ Len(contexts) = 1 /\ contexts[1] = root
  BY <1>1, <1>2, <1>3
<1>5. /\ stack \in [Threads -> Seq(Nat)] /\ \A t \in Threads : Len(stack[t]) = 0
      /\ Ids = {1} /\ 1..Len(nodes) = {1}
  BY <1>3, <1>4 DEF Ids
<1>6. NodesTyped /\ ContextsTyped
  BY <1>4 DEF NodesTyped, ContextsTyped
<1>7. Ranges
  BY <1>1, <1>2, <1>4, <1>5 DEF Ranges, Children
<1>8. Placed /\ Nesting
  BY <1>5 DEF Placed, Nesting
<1>9. Writers /\ Scopes /\ Loops
  BY <1>2, <1>4, <1>5 DEF Writers, Scopes, Loops
<1>10. Ordered
  BY <1>1, <1>2, <1>4, <1>5 DEF Ordered, Behind, Children
<1>11. SiblingsInOrder
  BY <1>1, <1>4, <1>5 DEF SiblingsInOrder
<1> QED
  BY <1>6, <1>7, <1>8, <1>9, <1>10, <1>11 DEF OutputInv

LEMMA NextOutput ==
  OutputInv /\ [Next]_vars => OutputInv'
<1> SUFFICES ASSUME OutputInv, [Next]_vars PROVE OutputInv'
  OBVIOUS
<1>1. /\ NodesTyped /\ ContextsTyped /\ Ranges /\ Placed /\ Writers /\ Scopes /\ Loops
      /\ Nesting /\ SiblingsInOrder /\ Ordered
  BY DEF OutputInv
<1>2. CASE UNCHANGED vars
  <2>1. nodes' = nodes /\ contexts' = contexts /\ stack' = stack
    BY <1>2 DEF vars
  <2>2. NodesTyped' /\ ContextsTyped' /\ Ranges'
    BY <2>1, <1>1 DEF NodesTyped, ContextsTyped, Ranges, Children, Ids
  <2>3. Placed' /\ Writers' /\ Scopes' /\ Loops' /\ Nesting'
    BY <2>1, <1>1 DEF Placed, Writers, Scopes, Loops, Nesting, Ids, Alive, Together
  <2>4. SiblingsInOrder' /\ Ordered'
    BY <2>1, <1>1 DEF SiblingsInOrder, Ordered, Behind, Children, Here, Ids, Alive
  <2> QED
    BY <2>2, <2>3, <2>4 DEF OutputInv
<1>3. CASE Next
  <2>1. PICK t \in Threads :
          \/ Leaf(t) \/ Attribute(t) \/ CopyAttribute(t) \/ CopyOfAttribute(t) \/ Link(t) \/ Branch(t)
          \/ LiteralElement(t) \/ Copy(t) \/ Element(t) \/ Slot(t) \/ ApplyTemplates(t)
          \/ ProcessTemplate(t) \/ DefaultChild(t) \/ Return(t)
          \/ \E c \in Ids : TakeTask(t, c)
    BY <1>3 DEF Next, Ids
  <2>2. PICK c : c = Current(t)
    OBVIOUS
  <2>3. /\ Fresh \in Nat /\ 0 \in Nat
        /\ stack[t] # <<>> =>
             /\ contexts[c].locals \in Nat /\ contexts[c].loop \in Nat
             /\ contexts[c].function \in FunctionNames
    <3>1. Len(contexts) \in Nat
      BY <1>1 DEF ContextsTyped
    <3>2. ASSUME stack[t] # <<>>
          PROVE  /\ contexts[c].locals \in Nat /\ contexts[c].loop \in Nat
                 /\ contexts[c].function \in FunctionNames
      <4>1. OnTop(t, c)
        BY <3>2, <1>1, <2>2, Top
      <4>2. contexts[c] \in ContextRecords
        BY <4>1, <1>1 DEF OnTop, ContextsTyped, Ids
      <4> QED
        BY <4>2 DEF ContextRecords
    <3> QED
      BY <3>1, <3>2 DEF Fresh
  <2>a. /\ "apply" \in FunctionNames /\ "node" \in FunctionNames /\ "default" \in FunctionNames /\ "template" \in FunctionNames
        /\ "node" # "apply" /\ "default" # "apply" /\ "template" # "apply"
        /\ "call" \in Ways /\ "call" # "task"
    BY DEF Ways, FunctionNames
  <2>4. CASE Leaf(t)
    <3> DEFINE function == IF contexts[c].function = "node" THEN "default"
                           ELSE contexts[c].function
    <3>1. /\ stack[t] # <<>> /\ stack' = stack
          /\ nodes' = Linked(contexts[c].result, "TEXT", Here(c))
          /\ contexts' = Advanced(c, function, 0)
      BY <2>2, <2>4 DEF Leaf, At
    <3>2. function \in FunctionNames /\ (function = "apply" <=> contexts[c].function = "apply")
      <4>1. contexts[c].function \in FunctionNames
        BY <2>3, <3>1
      <4>2. CASE contexts[c].function = "node"
        BY <4>2, <2>a
      <4>3. CASE contexts[c].function # "node"
        BY <4>1, <4>3
      <4> QED
        BY <4>2, <4>3
    <3> HIDE DEF function
    <3> QED
      BY <2>2, <3>1, <3>2, AdvancedOutput
  <2>5. CASE Attribute(t) \/ CopyAttribute(t) \/ CopyOfAttribute(t)
    <3>1. /\ stack[t] # <<>> /\ contexts[c].function = "apply"
          /\ nodes' = nodes /\ stack' = stack /\ contexts' = Advanced(c, "apply", 0)
      BY <2>2, <2>5 DEF Attribute, CopyAttribute, CopyOfAttribute, Look, At
    <3> QED
      BY <2>2, <2>a, <3>1, AdvancedOutput
  <2>6. CASE Link(t)
    BY <2>6, LinkOutput
  \* the same for all that make a context
  <2>b. ASSUME NEW type \in {"none", "EMPTY", "ELEMENT", "TEXT"}, NEW locals \in Nat,
               NEW function \in FunctionNames, NEW as \in Ways, NEW next \in FunctionNames,
               NEW loop \in Nat, Make(t, type, locals, function, as, next, loop),
               stack[t] # <<>>, Handed(c, type, locals, function, as, next, loop)
        PROVE  OutputInv'
    BY <2>2, <2>b, MadeOutput
  <2>7. CASE Branch(t)
    <3>1. /\ stack[t] # <<>> /\ contexts[c].function = "apply"
          /\ Make(t, "none", contexts[c].locals, "apply", "call", "apply", 0)
      BY <2>2, <2>7 DEF Branch, At
    <3>2. Handed(c, "none", contexts[c].locals, "apply", "call", "apply", 0)
      BY <3>1 DEF Handed
    <3> QED
      BY <2>3, <2>a, <2>b, <3>1, <3>2
  <2>8. CASE LiteralElement(t)
    <3>1. /\ stack[t] # <<>> /\ contexts[c].function = "apply"
          /\ Make(t, "ELEMENT", Fresh, "apply", "call", "apply", 0)
      BY <2>2, <2>8 DEF LiteralElement, At
    <3>2. Handed(c, "ELEMENT", Fresh, "apply", "call", "apply", 0)
      BY <3>1 DEF Handed
    <3> QED
      BY <2>3, <2>a, <2>b, <3>1, <3>2
  <2>9. CASE Copy(t)
    <3>1. PICK type \in {"ELEMENT", "TEXT"} :
            Make(t, type, contexts[c].locals, "apply", "call", "apply", 0)
      BY <2>2, <2>9 DEF Copy
    <3>2. stack[t] # <<>> /\ contexts[c].function = "apply"
      BY <2>2, <2>9 DEF Copy, At
    <3>3. Handed(c, type, contexts[c].locals, "apply", "call", "apply", 0)
      BY <3>2 DEF Handed
    <3> QED
      BY <2>3, <2>a, <2>b, <3>1, <3>2, <3>3
  <2>10. CASE Element(t) \/ Slot(t)
    <3>1. PICK type \in {"ELEMENT", "EMPTY"}, as \in Ways :
            Make(t, type, Fresh, "apply", as, "apply", 0)
      BY <2>10 DEF Element, Slot
    <3>2. stack[t] # <<>> /\ contexts[c].function = "apply"
      BY <2>2, <2>10 DEF Element, Slot, At
    <3>3. Handed(c, type, Fresh, "apply", as, "apply", 0)
      BY <3>2 DEF Handed
    <3> QED
      BY <2>3, <2>a, <2>b, <3>1, <3>2, <3>3
  <2>11. CASE ApplyTemplates(t)
    <3>1. PICK list \in {Fresh} \cup ({contexts[c].loop} \ {0}), as \in Ways :
            Make(t, "EMPTY", list, "node", as, "apply", list)
      BY <2>2, <2>11 DEF ApplyTemplates
    <3>2. stack[t] # <<>> /\ contexts[c].function = "apply"
      BY <2>2, <2>11 DEF ApplyTemplates, At
    <3>3. list \in Nat
      BY <2>3, <3>2
    <3>4. Handed(c, "EMPTY", list, "node", as, "apply", list)
      BY <3>2 DEF Handed
    <3> QED
      BY <2>a, <2>b, <3>1, <3>2, <3>3, <3>4
  <2>12. CASE ProcessTemplate(t)
    <3>1. /\ stack[t] # <<>> /\ contexts[c].function = "node"
          /\ Make(t, "none", Fresh, "apply", "call", "template", 0)
      BY <2>2, <2>12 DEF ProcessTemplate, At
    <3>2. Handed(c, "none", Fresh, "apply", "call", "template", 0)
      BY <3>1 DEF Handed
    <3> QED
      BY <2>3, <2>a, <2>b, <3>1, <3>2
  <2>13. CASE DefaultChild(t)
    <3>1. /\ stack[t] # <<>> /\ contexts[c].function \in {"node", "default"}
          /\ Make(t, "EMPTY", Fresh, "node", "call", "default", 0)
      BY <2>2, <2>13 DEF DefaultChild, At
    <3>2. Handed(c, "EMPTY", Fresh, "node", "call", "default", 0)
      BY <3>1 DEF Handed
    <3> QED
      BY <2>3, <2>a, <2>b, <3>1, <3>2
  <2>14. CASE Return(t)
    BY <2>14, ReturnOutput
  <2>15. CASE \E d \in Ids : TakeTask(t, d)
    BY <2>15, TakeOutput
  <2> QED
    BY <2>1, <2>4, <2>5, <2>6, <2>7, <2>8, <2>9, <2>10, <2>11, <2>12, <2>13, <2>14, <2>15
<1> QED
  BY <1>2, <1>3

LEMMA OutputInvariant ==
  Spec => []OutputInv
BY InitOutput, NextOutput, PTL DEF Spec

(***************************************************************************)
(* The output needs no lock: what two threads work on at the same time     *)
(* shares neither the node that xml_add_child appends to (nodes.c:49-67)   *)
(* nor a variable list that do_local_var writes (variables.c:164-226),     *)
(* whatever the templates are and however the tasks are taken.             *)
(***************************************************************************)
THEOREM NothingIsShared ==
  Spec => []NothingShared
<1>1. OutputInv => NothingShared
  <2> SUFFICES ASSUME OutputInv, NEW c \in Ids, NEW d \in Ids, Concurrent(c, d)
               PROVE  /\ contexts[c].result # contexts[d].result
                      /\ contexts[c].function = "apply"
                           => contexts[c].locals # contexts[d].locals
    BY DEF NothingShared, OneWriter, OneScope, Ids
  <2>1. c # d /\ Alive(c) /\ Alive(d)
    BY DEF Concurrent, Alive
  <2>2. ~Together(c, d)
    <3> SUFFICES ASSUME Together(c, d) PROVE FALSE
      OBVIOUS
    <3>1. PICK t \in Threads : \E i, j \in 1..Len(stack[t]) : stack[t][i] = c /\ stack[t][j] = d
      BY DEF Together
    <3>2. {c, d} \subseteq ToSet(stack[t])
      BY <3>1 DEF ToSet
    <3> QED
      BY <3>2 DEF Concurrent
  <2> QED
    BY <2>1, <2>2 DEF OutputInv, Writers, Scopes
<1> QED
  BY <1>1, OutputInvariant, PTL

(***************************************************************************)
(* The children of every node stand in the order in which a run on one     *)
(* thread makes them: a task writes below a node that its place in the     *)
(* tree was given to before the task was queued (instructions.c:53-67 and  *)
(* 131-144), so the order in which tasks run does not show.                *)
(***************************************************************************)
THEOREM SiblingsStayInOrder ==
  Spec => []SiblingsInOrder
<1>1. OutputInv => SiblingsInOrder
  BY DEF OutputInv
<1> QED
  BY <1>1, OutputInvariant, PTL

-----------------------------------------------------------------------------
(* The tree: below which node everything hangs.                            *)

\* The label q is p, or of something inside; inside.
Under(p, q) == Len(p) <= Len(q) /\ \A k \in 1..Len(p) : q[k] = p[k]
Within(p, q) == Len(p) < Len(q) /\ \A k \in 1..Len(p) : q[k] = p[k]

Nodes == 1..Len(nodes)

\* The attributes.
Records == [path : Seq(Nat), copied : BOOLEAN]

\* The attributes of node n, those that a thread is about to write included.
Owned(n) ==
  ToSet(nodes[n].attributes)
    \cup UNION {ToSet(link[t][2]) : t \in {u \in Threads : link[u] # <<>> /\ link[u][1] = n}}

\* Everything that has been made so far.
Labels ==
  {contexts[c].path : c \in Ids} \cup {nodes[n].path : n \in Nodes} \cup UNION {{a.path : a \in Owned(n)} : n \in Nodes}

LinksTyped ==
  /\ nodes[1].path = <<>> /\ \A n \in Nodes : nodes[n].parent \in 0..(n - 1)
  /\ \A n \in 2..Len(nodes) : nodes[n].parent # 0
  /\ \A n \in Nodes : nodes[n].attributes \in Seq(Records)
  /\ DOMAIN link = Threads
  /\ \A t \in Threads : link[t] # <<>> => link[t][1] \in Nodes /\ link[t][2] \in Seq(Records)

\* What is inside a context was made by the instructions it is past.
Numbered ==
  \A c \in Ids : \A p \in Labels :
    Within(contexts[c].path, p) => Inside(contexts[c].path, contexts[c].step, p)

\* No two contexts, and no two nodes, were made at one place.
Distinct ==
  /\ \A c, d \in Ids : contexts[c].path = contexts[d].path => c = d
  /\ \A n, m \in Nodes : nodes[n].path = nodes[m].path => n = m

\* The result of a context is the innermost node around it.
Enclosed ==
  \A c \in Ids : LET result == nodes[contexts[c].result].path IN
    /\ Under(result, contexts[c].path)
    /\ \A m \in Nodes : Under(nodes[m].path, contexts[c].path) => Under(nodes[m].path, result)

\* So is the parent of a node, which has the node among its children.
Hanging ==
  \A n \in 2..Len(nodes) : LET parent == nodes[n].parent IN
    /\ n \in ToSet(nodes[parent].children)
    /\ Within(nodes[parent].path, nodes[n].path)
    /\ \A m \in Nodes : Within(nodes[m].path, nodes[n].path) => Under(nodes[m].path, nodes[parent].path)

\* Between node n and the attribute a there are only slots, or nothing at all.
Around(n, a) ==
  /\ a.copied \/ nodes[n].type # "EMPTY"
  /\ Within(nodes[n].path, a.path)
  /\ \A m \in Nodes : Within(nodes[m].path, a.path) /\ Within(nodes[n].path, nodes[m].path)
                        => nodes[m].type = "EMPTY" /\ ~a.copied
Placement == \A n \in Nodes : \A a \in Owned(n) : Around(n, a)

TreeInv == LinksTyped /\ Numbered /\ Distinct /\ Enclosed /\ Hanging /\ Placement

-----------------------------------------------------------------------------
(* Labels inside one another.                                              *)
LEMMA UnderSplit ==
  ASSUME NEW p \in Seq(Nat), NEW q \in Seq(Nat)
  PROVE  Under(p, q) <=> p = q \/ Within(p, q)
<1>1. Len(p) \in Nat /\ Len(q) \in Nat
  OBVIOUS
<1>2. ASSUME Under(p, q), Len(p) = Len(q)
      PROVE  p = q
  BY <1>2, SeqEqual DEF Under
<1>3. p = q => Under(p, q)
  BY DEF Under
<1> QED
  BY <1>1, <1>2, <1>3 DEF Under, Within

LEMMA UnderChain ==
  ASSUME NEW p \in Seq(Nat), NEW q \in Seq(Nat), NEW r \in Seq(Nat)
  PROVE  /\ Under(p, q) /\ Under(q, r) => Under(p, r)
         /\ Within(p, q) /\ Under(q, r) => Within(p, r)
         /\ Under(p, q) /\ Within(q, r) => Within(p, r)
<1>1. Len(p) \in Nat /\ Len(q) \in Nat /\ Len(r) \in Nat
  OBVIOUS
<1>2. ASSUME Under(p, q), Under(q, r)
      PROVE  \A k \in 1..Len(p) : r[k] = p[k]
  <2> TAKE k \in 1..Len(p)
  <2>1. k \in 1..Len(q) /\ q[k] = p[k]
    BY <1>1, <1>2 DEF Under
  <2> QED
    BY <2>1, <1>2 DEF Under
<1>3. Under(p, q) /\ Under(q, r) => Under(p, r)
  BY <1>1, <1>2 DEF Under
<1>4. /\ Within(p, q) => Under(p, q) /\ Len(p) < Len(q)
      /\ Within(q, r) => Under(q, r) /\ Len(q) < Len(r)
      /\ Under(p, q) => Len(p) <= Len(q)
      /\ Under(q, r) => Len(q) <= Len(r)
      /\ Under(p, r) /\ Len(p) < Len(r) => Within(p, r)
  BY <1>1 DEF Under, Within
<1>5. Within(p, q) /\ Under(q, r) => Within(p, r)
  <2> SUFFICES ASSUME Within(p, q), Under(q, r) PROVE Within(p, r)
    OBVIOUS
  <2>1. Len(p) < Len(q) /\ Len(q) <= Len(r)
    BY DEF Within, Under
  <2> QED
    BY <2>1, <1>1, <1>3, <1>4
<1>6. Under(p, q) /\ Within(q, r) => Within(p, r)
  <2> SUFFICES ASSUME Under(p, q), Within(q, r) PROVE Within(p, r)
    OBVIOUS
  <2>1. Len(p) <= Len(q) /\ Len(q) < Len(r)
    BY DEF Within, Under
  <2> QED
    BY <2>1, <1>1, <1>3, <1>4
<1> QED
  BY <1>3, <1>5, <1>6

\* Around the next place are the places around this one.
LEMMA WithinNext ==
  ASSUME NEW p \in Seq(Nat), NEW q \in Seq(Nat), NEW n \in Nat
  PROVE  Within(p, Append(q, n)) <=> Under(p, q)
<1>1. /\ Len(p) \in Nat /\ Len(q) \in Nat /\ Len(Append(q, n)) = Len(q) + 1
      /\ \A k \in 1..Len(q) : Append(q, n)[k] = q[k]
  BY AppendAt
<1>2. Len(p) < Len(q) + 1 <=> Len(p) <= Len(q)
  BY <1>1
<1>3. Len(p) <= Len(q) => \A k \in 1..Len(p) : k \in 1..Len(q)
  BY <1>1
<1> QED
  BY <1>1, <1>2, <1>3 DEF Within, Under

\* Nothing is at the next place, or inside it, while everything is inside this step.
LEMMA NothingAhead ==
  ASSUME NEW p \in Seq(Nat), NEW step \in Nat, NEW q \in Seq(Nat),
         Within(p, q) => Inside(p, step, q)
  PROVE  ~Under(Append(p, step + 1), q)
<1> SUFFICES ASSUME Under(Append(p, step + 1), q) PROVE FALSE
  OBVIOUS
<1> DEFINE n == step + 1
           r == Append(p, n)
<1>1. n \in Nat /\ Len(p) \in Nat /\ Len(q) \in Nat
  OBVIOUS
<1>2. /\ r \in Seq(Nat) /\ Len(r) = Len(p) + 1 /\ r[Len(p) + 1] = n
      /\ \A k \in 1..Len(p) : r[k] = p[k]
  <2> HIDE DEF n
  <2> QED
    BY <1>1, AppendAt
<1>3. Under(r, q)
  OBVIOUS
<1> HIDE DEF r
<1>4. q[Len(p) + 1] = n /\ Within(p, q)
  <2>1. Len(p) + 1 \in 1..Len(r) /\ \A k \in 1..Len(p) : k \in 1..Len(r)
    BY <1>1, <1>2
  <2>2. Len(p) < Len(q)
    BY <1>1, <1>2, <1>3 DEF Under
  <2> QED
    BY <2>1, <2>2, <1>2, <1>3 DEF Under, Within
<1>5. q[Len(p) + 1] <= step
  BY <1>4 DEF Inside
<1> QED
  BY <1>4, <1>5

-----------------------------------------------------------------------------
(* What a step adds to the tree.                                           *)
LEMMA LabelFacts ==
  ASSUME NodesTyped, ContextsTyped, Ranges, LinksTyped
  PROVE  /\ \A p \in Labels : p \in Seq(Nat)
         /\ \A c \in Ids : contexts[c].path \in Labels /\ contexts[c].step \in Nat
                           /\ contexts[c].result \in Nodes
         /\ \A n \in Nodes : nodes[n].path \in Labels /\ \A a \in Owned(n) : a.path \in Labels
<1>1. \A c \in Ids : contexts[c].path \in Seq(Nat) /\ contexts[c].step \in Nat
  <2>1. \A c \in Ids : contexts[c] \in ContextRecords
    BY DEF ContextsTyped, Ids
  <2> QED
    BY <2>1 DEF ContextRecords
<1>2. \A n \in Nodes : nodes[n].path \in Seq(Nat)
  BY NodeFacts DEF Nodes
<1>3. ASSUME NEW n \in Nodes, NEW a \in Owned(n)
      PROVE  a.path \in Seq(Nat)
  <2>1. a \in ToSet(nodes[n].attributes) => a \in Records
    BY DEF ToSet, LinksTyped
  <2>2. ASSUME NEW t \in Threads, link[t] # <<>>, a \in ToSet(link[t][2])
        PROVE  a \in Records
    BY <2>2 DEF ToSet, LinksTyped
  <2>3. a \in Records
    BY <2>1, <2>2 DEF Owned
  <2> QED
    BY <2>3 DEF Records
<1>4. \A p \in Labels : p \in Seq(Nat)
  BY <1>1, <1>2, <1>3 DEF Labels
<1>5. \A c \in Ids : contexts[c].path \in Labels
  BY DEF Labels
<1>6. \A n \in Nodes : nodes[n].path \in Labels /\ \A a \in Owned(n) : a.path \in Labels
  BY DEF Labels
<1>7. \A c \in Ids : contexts[c].result \in Nodes
  BY DEF Ranges, Nodes
<1> QED
  BY <1>1, <1>4, <1>5, <1>6, <1>7

\* The contexts there were keep their place, and only move forward.
Onward ==
  \A d \in Ids :
    /\ d \in Ids' /\ contexts'[d].path = contexts[d].path /\ contexts'[d].result = contexts[d].result
    /\ contexts'[d].step \in Nat /\ contexts[d].step <= contexts'[d].step

\* The nodes there were keep theirs, and their children.
Rooted ==
  \A n \in Nodes :
    /\ n \in Nodes' /\ nodes'[n].path = nodes[n].path /\ nodes'[n].type = nodes[n].type
    /\ nodes'[n].parent = nodes[n].parent
    /\ ToSet(nodes[n].children) \subseteq ToSet(nodes'[n].children)

\* A step that makes nothing: all labels were there.
LEMMA NothingNew ==
  ASSUME NodesTyped, ContextsTyped, Ranges, TreeInv, Onward, Rooted, Ids' = Ids, Nodes' = Nodes, Len(nodes') = Len(nodes),
         \A n \in Nodes : Owned(n)' \subseteq Owned(n)
  PROVE  Numbered' /\ Distinct' /\ Enclosed' /\ Hanging' /\ Placement'
<1>1. LinksTyped /\ Numbered /\ Distinct /\ Enclosed /\ Hanging /\ Placement
  BY DEF TreeInv
<1>2. /\ \A p \in Labels : p \in Seq(Nat)
      /\ \A c \in Ids : contexts[c].path \in Labels /\ contexts[c].step \in Nat
                        /\ contexts[c].result \in Nodes
      /\ \A n \in Nodes : nodes[n].path \in Labels /\ \A a \in Owned(n) : a.path \in Labels
  BY <1>1, LabelFacts
<1>3. Labels' \subseteq Labels
  <2> SUFFICES ASSUME NEW p \in Labels' PROVE p \in Labels
    OBVIOUS
  <2>1. CASE \E c \in Ids : p = contexts'[c].path
    BY <2>1, <1>2 DEF Onward
  <2>2. CASE \E n \in Nodes : p = nodes'[n].path
    BY <2>2, <1>2 DEF Rooted
  <2>3. CASE \E n \in Nodes : \E a \in Owned(n)' : p = a.path
    BY <2>3, <1>2
  <2> QED
    BY <2>1, <2>2, <2>3 DEF Labels
<1>4. Numbered'
  <2> SUFFICES ASSUME NEW c \in Ids, NEW p \in Labels, Within(contexts[c].path, p)
               PROVE  Inside(contexts[c].path, contexts'[c].step, p)
    BY <1>3 DEF Numbered, Onward
  <2>1. Inside(contexts[c].path, contexts[c].step, p)
    BY <1>1 DEF Numbered
  <2> QED
    BY <2>1, <1>2, InsideLater DEF Onward
<1>5. Distinct'
  BY <1>1 DEF Distinct, Onward, Rooted
<1>6. Enclosed'
  <2> SUFFICES ASSUME NEW c \in Ids
               PROVE  LET result == nodes[contexts[c].result].path IN
                        /\ Under(result, contexts[c].path)
                        /\ \A m \in Nodes : Under(nodes[m].path, contexts[c].path)
                                              => Under(nodes[m].path, result)
    BY <1>2 DEF Enclosed, Onward, Rooted
  <2> QED
    BY <1>1 DEF Enclosed
<1>7. Hanging'
  <2> SUFFICES ASSUME NEW n \in 2..Len(nodes)
               PROVE  LET parent == nodes[n].parent IN
                        /\ n \in ToSet(nodes'[parent].children)
                        /\ Within(nodes'[parent].path, nodes[n].path)
                        /\ \A m \in Nodes : Within(nodes[m].path, nodes[n].path)
                                              => Under(nodes[m].path, nodes'[parent].path)
    <3>1. \A n \in 2..Len(nodes) : n \in Nodes
      BY DEF Nodes
    <3> QED
      BY <3>1 DEF Hanging, Rooted
  <2>1. n \in Nodes /\ nodes[n].parent \in Nodes
    <3>1. Len(nodes) \in Nat /\ n \in Nodes
      BY DEF Ranges, Nodes
    <3>2. nodes[n].parent \in 0..(n - 1) /\ nodes[n].parent # 0
      BY <3>1, <1>1 DEF LinksTyped
    <3> QED
      BY <3>1, <3>2 DEF Nodes
  <2> QED
    BY <2>1, <1>1 DEF Hanging, Rooted
<1>8. Placement'
  <2> SUFFICES ASSUME NEW n \in Nodes, NEW a \in Owned(n)
               PROVE  Around(n, a)'
    BY DEF Placement
  <2>1. Around(n, a)
    BY <1>1 DEF Placement
  <2> QED
    BY <2>1 DEF Around, Rooted
<1> QED
  BY <1>4, <1>5, <1>6, <1>7, <1>8

\* Node h is the innermost one around node m, itself included, that is not a slot.
HomeOf(h, m) ==
  /\ h \in Nodes /\ nodes[h].type # "EMPTY" /\ Under(nodes[h].path, nodes[m].path)
  /\ \A k \in Nodes : Under(nodes[k].path, nodes[m].path) /\ Within(nodes[h].path, nodes[k].path)
                        => nodes[k].type = "EMPTY"

\* The context or node that a step of context c makes is at the place where c is.
NewContext(c, e) ==
  /\ e = Len(contexts) + 1 /\ contexts'[e].path = Here(c) /\ contexts'[e].step = 0
  /\ \/ contexts'[e].result \in Nodes' \ Nodes
     \/ contexts'[e].result = contexts[c].result /\ Nodes' = Nodes
NewNode(c, n) ==
  /\ n = Len(nodes) + 1 /\ nodes'[n].path = Here(c) /\ nodes'[n].parent = contexts[c].result
  /\ n \in ToSet(nodes'[contexts[c].result].children) /\ Owned(n)' = {}

NewAttribute(c, n, a) ==
  /\ a.path = Here(c)
  /\ IF a.copied THEN n = contexts[c].result ELSE HomeOf(n, contexts[c].result)

\* A step of context c, with what it makes.
SomethingNew(c) ==
  /\ Onward /\ Rooted /\ contexts'[c].step = contexts[c].step + 1
  /\ \A e \in Ids' \ Ids : NewContext(c, e)
  /\ \A n \in Nodes' \ Nodes : NewNode(c, n)
  /\ \A n \in Nodes : \A a \in Owned(n)' : a \in Owned(n) \/ NewAttribute(c, n, a)

\* Where context c is, there is nothing yet, nor inside of it.
LEMMA HereIsNew ==
  ASSUME NodesTyped, ContextsTyped, Ranges, TreeInv, NEW c \in Ids
  PROVE  /\ Here(c) \in Seq(Nat) /\ Here(c) = Append(contexts[c].path, contexts[c].step + 1)
         /\ \A p \in Labels : p # Here(c) /\ ~Under(Here(c), p) /\ ~Within(Here(c), p)
<1>1. LinksTyped /\ Numbered
  BY DEF TreeInv
<1>2. /\ contexts[c].path \in Seq(Nat) /\ contexts[c].step \in Nat
      /\ \A p \in Labels : p \in Seq(Nat)
  BY <1>1, LabelFacts
<1>3. Here(c) \in Seq(Nat) /\ Here(c) = Append(contexts[c].path, contexts[c].step + 1)
  BY <1>2 DEF Here
<1>4. ASSUME NEW p \in Labels
      PROVE  p # Here(c) /\ ~Under(Here(c), p) /\ ~Within(Here(c), p)
  <2>1. Within(contexts[c].path, p) => Inside(contexts[c].path, contexts[c].step, p)
    BY <1>1 DEF Numbered
  <2>2. p \in Seq(Nat) /\ ~Under(Here(c), p)
    BY <1>2, <1>3, <2>1, NothingAhead
  <2> QED
    BY <1>3, <2>2, UnderSplit
<1> QED
  BY <1>3, <1>4

\* The new labels.
LEMMA LabelsGrow ==
  ASSUME NodesTyped, ContextsTyped, Ranges, TreeInv, NEW c \in Ids, SomethingNew(c)
  PROVE  Labels' \subseteq Labels \cup {Here(c)}
<1>1. LinksTyped
  BY DEF TreeInv
<1>2. /\ \A d \in Ids : contexts[d].path \in Labels
      /\ \A n \in Nodes : nodes[n].path \in Labels /\ \A a \in Owned(n) : a.path \in Labels
  BY <1>1, LabelFacts
<1> SUFFICES ASSUME NEW p \in Labels', p # Here(c) PROVE p \in Labels
  OBVIOUS
<1>3. CASE \E e \in Ids' : p = contexts'[e].path
  BY <1>3, <1>2 DEF SomethingNew, Onward, NewContext
<1>4. CASE \E n \in Nodes' : p = nodes'[n].path
  BY <1>4, <1>2 DEF SomethingNew, Rooted, NewNode
<1>5. CASE \E n \in Nodes' : \E a \in Owned(n)' : p = a.path
  BY <1>5, <1>2 DEF SomethingNew, NewNode, NewAttribute
<1> QED
  BY <1>3, <1>4, <1>5 DEF Labels

LEMMA NumberedGrows ==
  ASSUME NodesTyped, ContextsTyped, Ranges, TreeInv, NEW c \in Ids, SomethingNew(c)
  PROVE  Numbered' /\ Distinct'
<1>1. LinksTyped /\ Numbered /\ Distinct /\ Onward /\ Rooted
  BY DEF TreeInv, SomethingNew
<1>2. /\ \A p \in Labels : p \in Seq(Nat)
      /\ \A d \in Ids : contexts[d].path \in Labels /\ contexts[d].step \in Nat
      /\ \A n \in Nodes : nodes[n].path \in Labels
  BY <1>1, LabelFacts
<1>3. /\ Here(c) \in Seq(Nat) /\ Here(c) = Append(contexts[c].path, contexts[c].step + 1)
      /\ \A p \in Labels : p # Here(c) /\ ~Under(Here(c), p) /\ ~Within(Here(c), p)
  BY HereIsNew
<1>4. Labels' \subseteq Labels \cup {Here(c)}
  BY LabelsGrow
<1>5. ~Within(Here(c), Here(c))
  BY <1>3 DEF Within
<1>6. ASSUME NEW d \in Ids, Within(contexts[d].path, Here(c))
      PROVE  Inside(contexts[d].path, contexts'[d].step, Here(c))
  <2> DEFINE p == contexts[d].path
             n == contexts[c].step + 1
  <2>1. p \in Seq(Nat) /\ contexts[c].path \in Seq(Nat) /\ n \in Nat /\ contexts[d].step \in Nat
    BY <1>2
  <2>2. Here(c) = Append(contexts[c].path, n) /\ Within(p, Here(c))
    BY <1>3, <1>6
  <2> HIDE DEF p, n
  <2>3. Under(p, contexts[c].path)
    BY <2>1, <2>2, WithinNext
  <2>4. CASE p = contexts[c].path
    <3>1. d = c /\ contexts'[d].step = n
      BY <2>4, <1>1 DEF Distinct, SomethingNew, p, n
    <3> QED
      BY <2>1, <2>2, <2>4, <3>1, InsideNext DEF p
  <2>5. CASE Within(p, contexts[c].path)
    <3>1. Inside(p, contexts[d].step, contexts[c].path)
      BY <2>5, <1>1, <1>2 DEF Numbered, p
    <3>2. Inside(p, contexts[d].step, Here(c))
      BY <2>1, <2>2, <3>1, InsideDeeper
    <3>3. contexts'[d].step \in Nat /\ contexts[d].step <= contexts'[d].step
      BY <1>1 DEF Onward
    <3>4. Inside(p, contexts'[d].step, Here(c))
      BY <1>3, <2>1, <3>2, <3>3, InsideLater
    <3> QED
      BY <3>4 DEF p
  <2> QED
    BY <2>1, <2>3, <2>4, <2>5, UnderSplit
<1>7. Numbered'
  <2> SUFFICES ASSUME NEW d \in Ids', NEW p \in Labels', Within(contexts'[d].path, p)
               PROVE  Inside(contexts'[d].path, contexts'[d].step, p)
    BY DEF Numbered
  <2>1. CASE d \in Ids
    <3>1. contexts'[d].path = contexts[d].path
      BY <2>1, <1>1 DEF Onward
    <3>2. CASE p = Here(c)
      BY <2>1, <3>1, <3>2, <1>6
    <3>3. CASE p \in Labels
      <4>1. Inside(contexts[d].path, contexts[d].step, p)
        BY <2>1, <3>1, <3>3, <1>1 DEF Numbered
      <4> QED
        BY <2>1, <3>1, <3>3, <4>1, <1>1, <1>2, InsideLater DEF Onward
    <3> QED
      BY <3>2, <3>3, <1>4
  <2>2. CASE d \notin Ids
    <3>1. contexts'[d].path = Here(c)
      BY <2>2 DEF SomethingNew, NewContext
    <3> QED
      BY <3>1, <1>3, <1>4, <1>5
  <2> QED
    BY <2>1, <2>2
<1>8. Distinct'
  <2>1. ASSUME NEW d \in Ids', NEW e \in Ids', contexts'[d].path = contexts'[e].path
        PROVE  d = e
    <3>1. \A x \in Ids' : \/ x \in Ids /\ contexts'[x].path = contexts[x].path /\ contexts'[x].path # Here(c)
                          \/ x = Len(contexts) + 1 /\ contexts'[x].path = Here(c)
      BY <1>1, <1>2, <1>3 DEF Onward, SomethingNew, NewContext
    <3> QED
      BY <2>1, <3>1, <1>1 DEF Distinct
  <2>2. ASSUME NEW n \in Nodes', NEW m \in Nodes', nodes'[n].path = nodes'[m].path
        PROVE  n = m
    <3>1. \A x \in Nodes' : \/ x \in Nodes /\ nodes'[x].path = nodes[x].path /\ nodes'[x].path # Here(c)
                            \/ x = Len(nodes) + 1 /\ nodes'[x].path = Here(c)
      BY <1>1, <1>2, <1>3 DEF Rooted, SomethingNew, NewNode
    <3> QED
      BY <2>2, <3>1, <1>1 DEF Distinct
  <2> QED
    BY <2>1, <2>2 DEF Distinct
<1> QED
  BY <1>7, <1>8

LEMMA EnclosedGrows ==
  ASSUME NodesTyped, ContextsTyped, Ranges, TreeInv, NEW c \in Ids, SomethingNew(c)
  PROVE  Enclosed'
<1>1. LinksTyped /\ Enclosed /\ Onward /\ Rooted
  BY DEF TreeInv, SomethingNew
<1>2. /\ \A p \in Labels : p \in Seq(Nat)
      /\ \A d \in Ids : contexts[d].path \in Labels /\ contexts[d].result \in Nodes
                        /\ contexts[d].step \in Nat
      /\ \A n \in Nodes : nodes[n].path \in Labels
  BY <1>1, LabelFacts
<1>3. /\ Here(c) \in Seq(Nat) /\ Here(c) = Append(contexts[c].path, contexts[c].step + 1)
      /\ \A p \in Labels : p # Here(c) /\ ~Under(Here(c), p)
  BY HereIsNew
<1>4. \A n \in Nodes' : \/ n \in Nodes /\ nodes'[n].path = nodes[n].path
                        \/ n \in Nodes' \ Nodes /\ nodes'[n].path = Here(c)
  BY <1>1 DEF Rooted, SomethingNew, NewNode
<1>5. ASSUME NEW d \in Ids
      PROVE  LET result == nodes'[contexts'[d].result].path IN
               /\ Under(result, contexts'[d].path)
               /\ \A m \in Nodes' : Under(nodes'[m].path, contexts'[d].path)
                                      => Under(nodes'[m].path, result)
  <2>1. /\ contexts'[d].path = contexts[d].path /\ contexts'[d].result = contexts[d].result
        /\ nodes'[contexts[d].result].path = nodes[contexts[d].result].path
    BY <1>1, <1>2 DEF Onward, Rooted
  <2>2. ~Under(Here(c), contexts[d].path)
    BY <1>2, <1>3
  <2> QED
    BY <2>1, <2>2, <1>1, <1>4 DEF Enclosed
<1>6. ASSUME NEW e \in Ids', e \notin Ids
      PROVE  LET result == nodes'[contexts'[e].result].path IN
               /\ Under(result, contexts'[e].path)
               /\ \A m \in Nodes' : Under(nodes'[m].path, contexts'[e].path)
                                      => Under(nodes'[m].path, result)
  <2>1. NewContext(c, e)
    BY <1>6 DEF SomethingNew
  <2>2. CASE contexts'[e].result \in Nodes' \ Nodes
    <3>1. nodes'[contexts'[e].result].path = Here(c) /\ contexts'[e].path = Here(c)
      BY <2>1, <2>2 DEF SomethingNew, NewNode, NewContext
    <3>2. Under(Here(c), Here(c))
      BY <1>3, UnderSplit
    <3> QED
      BY <3>1, <3>2
  <2>3. CASE contexts'[e].result = contexts[c].result /\ Nodes' = Nodes
    <3> DEFINE r == nodes[contexts[c].result].path
    <3>1. /\ contexts'[e].path = Here(c) /\ nodes'[contexts'[e].result].path = r /\ r \in Seq(Nat)
      BY <2>1, <2>3, <1>1, <1>2 DEF NewContext, Rooted
    <3>2. Under(r, contexts[c].path)
      BY <1>1 DEF Enclosed
    <3>3. /\ contexts[c].path \in Seq(Nat) /\ contexts[c].step + 1 \in Nat
      BY <1>2
    <3> HIDE DEF r
    <3>4. Under(r, Here(c))
      <4>1. Within(r, Here(c))
        BY <3>1, <3>2, <3>3, <1>3, WithinNext
      <4> QED
        BY <3>1, <4>1, <1>3, UnderSplit
    <3>5. ASSUME NEW m \in Nodes, Under(nodes[m].path, Here(c))
          PROVE  Under(nodes[m].path, r)
      <4>1. nodes[m].path \in Seq(Nat) /\ nodes[m].path # Here(c)
        BY <1>2, <1>3
      <4>2. Within(nodes[m].path, Here(c))
        BY <4>1, <3>5, <1>3, UnderSplit
      <4>3. Under(nodes[m].path, contexts[c].path)
        BY <4>1, <4>2, <3>3, <1>3, WithinNext
      <4> QED
        BY <4>3, <1>1 DEF Enclosed, r
    <3> QED
      BY <2>3, <3>1, <3>4, <3>5, <1>1 DEF Rooted
  <2> QED
    BY <2>1, <2>2, <2>3 DEF NewContext
<1> QED
  BY <1>5, <1>6 DEF Enclosed

LEMMA HangingGrows ==
  ASSUME NodesTyped, ContextsTyped, Ranges, TreeInv, NEW c \in Ids, SomethingNew(c)
  PROVE  Hanging'
<1>1. LinksTyped /\ Enclosed /\ Hanging /\ Onward /\ Rooted
  BY DEF TreeInv, SomethingNew
<1>2. /\ \A p \in Labels : p \in Seq(Nat)
      /\ contexts[c].path \in Labels /\ contexts[c].result \in Nodes /\ contexts[c].step + 1 \in Nat
      /\ \A n \in Nodes : nodes[n].path \in Labels
  BY <1>1, LabelFacts
<1>3. /\ Here(c) \in Seq(Nat) /\ Here(c) = Append(contexts[c].path, contexts[c].step + 1)
      /\ \A p \in Labels : p # Here(c) /\ ~Under(Here(c), p) /\ ~Within(Here(c), p)
  BY HereIsNew
<1>4. \A n \in Nodes' : \/ n \in Nodes /\ nodes'[n].path = nodes[n].path
                        \/ n \in Nodes' \ Nodes /\ nodes'[n].path = Here(c)
  BY <1>1 DEF Rooted, SomethingNew, NewNode
<1>5. /\ Len(nodes) \in Nat \ {0} /\ \A n \in 2..Len(nodes') : n \in Nodes' /\ n \in Nat /\ n >= 2
      /\ \A n \in Nodes : n >= 2 => n \in 2..Len(nodes)
  <2>1. Len(nodes) \in Nat \ {0}
    BY DEF Ranges
  <2>2. ASSUME NEW n \in 2..Len(nodes')
        PROVE  n \in Nodes' /\ n \in Nat /\ n >= 2
    BY DEF Nodes
  <2> QED
    BY <2>1, <2>2 DEF Nodes
<1> SUFFICES ASSUME NEW n \in 2..Len(nodes')
             PROVE  LET parent == nodes'[n].parent IN
                      /\ n \in ToSet(nodes'[parent].children)
                      /\ Within(nodes'[parent].path, nodes'[n].path)
                      /\ \A m \in Nodes' : Within(nodes'[m].path, nodes'[n].path)
                                             => Under(nodes'[m].path, nodes'[parent].path)
  BY DEF Hanging
<1>6. CASE n \in Nodes
  <2> DEFINE q == nodes[n].parent
  <2>1. n \in 2..Len(nodes)
    BY <1>5, <1>6
  <2>2. q \in Nodes
    <3>1. q \in 0..(n - 1) /\ q # 0
      BY <1>1, <1>6, <2>1 DEF LinksTyped
    <3> QED
      BY <2>1, <3>1, <1>5 DEF Nodes
  <2>3. /\ n \in ToSet(nodes[q].children) /\ Within(nodes[q].path, nodes[n].path)
        /\ \A m \in Nodes : Within(nodes[m].path, nodes[n].path) => Under(nodes[m].path, nodes[q].path)
    BY <2>1, <1>1 DEF Hanging
  <2>4. /\ nodes'[n].parent = q /\ nodes'[n].path = nodes[n].path /\ nodes'[q].path = nodes[q].path
        /\ n \in ToSet(nodes'[q].children)
    BY <2>2, <2>3, <1>1, <1>6 DEF Rooted
  <2>5. ~Within(Here(c), nodes[n].path)
    BY <1>2, <1>3, <1>6
  <2> QED
    BY <2>3, <2>4, <2>5, <1>4
<1>7. CASE n \notin Nodes
  <2> DEFINE r == contexts[c].result
  <2>1. /\ nodes'[n].path = Here(c) /\ nodes'[n].parent = r /\ n \in ToSet(nodes'[r].children)
        /\ nodes'[r].path = nodes[r].path
    BY <1>1, <1>2, <1>5, <1>7 DEF SomethingNew, NewNode, Rooted
  <2>2. Under(nodes[r].path, contexts[c].path)
    BY <1>1 DEF Enclosed
  <2>3. Within(nodes[r].path, Here(c))
    BY <2>2, <1>2, <1>3, WithinNext
  <2>4. ASSUME NEW m \in Nodes, Within(nodes[m].path, Here(c))
        PROVE  Under(nodes[m].path, nodes[r].path)
    <3>1. Under(nodes[m].path, contexts[c].path)
      BY <2>4, <1>2, <1>3, WithinNext
    <3> QED
      BY <3>1, <1>1 DEF Enclosed
  <2>5. ~Within(Here(c), Here(c))
    BY <1>3 DEF Within
  <2> QED
    BY <2>1, <2>3, <2>4, <2>5, <1>4
<1> QED
  BY <1>6, <1>7

LEMMA PlacementGrows ==
  ASSUME NodesTyped, ContextsTyped, Ranges, TreeInv, NEW c \in Ids, SomethingNew(c)
  PROVE  Placement'
<1>1. LinksTyped /\ Enclosed /\ Placement /\ Onward /\ Rooted
  BY DEF TreeInv, SomethingNew
<1>2. /\ \A p \in Labels : p \in Seq(Nat)
      /\ contexts[c].path \in Labels /\ contexts[c].result \in Nodes /\ contexts[c].step + 1 \in Nat
      /\ \A n \in Nodes : nodes[n].path \in Labels /\ \A a \in Owned(n) : a.path \in Labels
  BY <1>1, LabelFacts
<1>3. /\ Here(c) \in Seq(Nat) /\ Here(c) = Append(contexts[c].path, contexts[c].step + 1)
      /\ \A p \in Labels : p # Here(c) /\ ~Under(Here(c), p) /\ ~Within(Here(c), p)
      /\ ~Within(Here(c), Here(c))
  BY HereIsNew DEF Within
<1>4. \A n \in Nodes' : \/ n \in Nodes /\ nodes'[n].path = nodes[n].path /\ nodes'[n].type = nodes[n].type
                        \/ n \in Nodes' \ Nodes /\ nodes'[n].path = Here(c) /\ Owned(n)' = {}
  BY <1>1 DEF Rooted, SomethingNew, NewNode
<1> SUFFICES ASSUME NEW n \in Nodes', NEW a \in Owned(n)' PROVE Around(n, a)'
  BY DEF Placement
<1>5. /\ n \in Nodes /\ nodes'[n].path = nodes[n].path /\ nodes'[n].type = nodes[n].type
  BY <1>4
<1>6. CASE a \in Owned(n)
  <2>1. Around(n, a) /\ ~Within(Here(c), a.path)
    BY <1>1, <1>2, <1>3, <1>5, <1>6 DEF Placement
  <2> QED
    BY <2>1, <1>4, <1>5 DEF Around
<1>7. CASE a.path = Here(c) /\ ~a.copied /\ HomeOf(n, contexts[c].result)
  <2> DEFINE r == contexts[c].result
  <2>1. /\ nodes[n].type # "EMPTY" /\ Under(nodes[n].path, nodes[r].path)
        /\ \A k \in Nodes : Under(nodes[k].path, nodes[r].path) /\ Within(nodes[n].path, nodes[k].path)
                              => nodes[k].type = "EMPTY"
    BY <1>7 DEF HomeOf
  <2>2. Under(nodes[r].path, contexts[c].path)
    BY <1>1 DEF Enclosed
  <2>3. nodes[n].path \in Seq(Nat) /\ nodes[r].path \in Seq(Nat) /\ contexts[c].path \in Seq(Nat)
    BY <1>2, <1>5
  <2>4. Under(nodes[n].path, contexts[c].path)
    BY <2>1, <2>2, <2>3, UnderChain
  <2>5. Within(nodes[n].path, Here(c))
    BY <2>3, <2>4, <1>2, <1>3, WithinNext
  <2>6. ASSUME NEW m \in Nodes, Within(nodes[m].path, Here(c)), Within(nodes[n].path, nodes[m].path)
        PROVE  nodes[m].type = "EMPTY"
    <3>1. Under(nodes[m].path, contexts[c].path)
      BY <2>3, <2>6, <1>2, <1>3, WithinNext
    <3>2. Under(nodes[m].path, nodes[r].path)
      BY <3>1, <1>1 DEF Enclosed
    <3> QED
      BY <2>1, <2>6, <3>2
  <2> QED
    BY <2>1, <2>5, <2>6, <1>3, <1>4, <1>5, <1>7 DEF Around
\* a copied one is at the result, and that is the innermost node there
<1>8. CASE a.path = Here(c) /\ a.copied /\ n = contexts[c].result
  <2>1. nodes[n].path \in Seq(Nat) /\ contexts[c].path \in Seq(Nat)
    BY <1>2, <1>5
  <2>2. Under(nodes[n].path, contexts[c].path)
    BY <1>1, <1>8 DEF Enclosed
  <2>3. Within(nodes[n].path, Here(c))
    BY <2>1, <2>2, <1>2, <1>3, WithinNext
  <2>4. ASSUME NEW m \in Nodes, Within(nodes[m].path, Here(c)), Within(nodes[n].path, nodes[m].path)
        PROVE  FALSE
    <3>1. Under(nodes[m].path, contexts[c].path) /\ nodes[m].path \in Seq(Nat)
      BY <2>1, <2>4, <1>2, <1>3, WithinNext
    <3>2. Under(nodes[m].path, nodes[n].path)
      BY <3>1, <1>1, <1>8 DEF Enclosed
    <3>3. Within(nodes[n].path, nodes[n].path)
      BY <2>1, <2>4, <3>1, <3>2, UnderChain
    <3> QED
      BY <2>1, <3>3 DEF Within
  <2> QED
    BY <2>3, <2>4, <1>3, <1>4, <1>5, <1>8 DEF Around
<1> QED
  BY <1>5, <1>6, <1>7, <1>8 DEF SomethingNew, NewAttribute

-----------------------------------------------------------------------------
(* Home, the way up through the slots.                                     *)

\* The nodes that are home to node m: there is one at most.
Homes(m) == {h \in Nodes : HomeOf(h, m)}

\* A node that is not a slot is its own home; a slot has that of its parent, if any.
LEMMA HomesOf ==
  ASSUME NodesTyped, ContextsTyped, Ranges, TreeInv, NEW m \in Nodes
  PROVE  /\ nodes[m].type # "EMPTY" => Homes(m) = {m}
         /\ nodes[m].type = "EMPTY" /\ nodes[m].parent = 0 => Homes(m) = {}
         /\ nodes[m].type = "EMPTY" /\ nodes[m].parent # 0 =>
              nodes[m].parent \in Nodes /\ nodes[m].parent < m /\ Homes(m) = Homes(nodes[m].parent)
<1>1. LinksTyped /\ Distinct /\ Hanging
  BY DEF TreeInv
<1>2. /\ \A n \in Nodes : nodes[n].path \in Seq(Nat)
      /\ Len(nodes) \in Nat /\ m \in Nat /\ 1 <= m /\ m <= Len(nodes)
  BY NodeFacts DEF Ranges, Nodes
<1>3. Under(nodes[m].path, nodes[m].path) /\ ~Within(nodes[m].path, nodes[m].path)
  BY <1>2, UnderSplit DEF Within
<1>4. ASSUME NEW k \in Nodes, Under(nodes[k].path, nodes[m].path)
      PROVE  k = m \/ Within(nodes[k].path, nodes[m].path)
  BY <1>1, <1>2, <1>4, UnderSplit DEF Distinct
<1>5. ASSUME nodes[m].type # "EMPTY"
      PROVE  Homes(m) = {m}
  <2>1. m \in Homes(m)
    <3>1. ASSUME NEW k \in Nodes, Under(nodes[k].path, nodes[m].path),
                 Within(nodes[m].path, nodes[k].path)
          PROVE  FALSE
      <4>1. Within(nodes[m].path, nodes[m].path)
        BY <3>1, <1>2, UnderChain
      <4> QED
        BY <4>1, <1>3
    <3> QED
      BY <3>1, <1>3, <1>5 DEF Homes, HomeOf
  <2>2. \A h \in Homes(m) : h = m
    BY <1>3, <1>4, <1>5 DEF Homes, HomeOf
  <2> QED
    BY <2>1, <2>2
<1>6. ASSUME nodes[m].type = "EMPTY", nodes[m].parent = 0
      PROVE  Homes(m) = {}
  <2>1. m = 1
    <3>1. ~(m \in 2..Len(nodes))
      BY <1>1, <1>6 DEF LinksTyped
    <3> QED
      BY <3>1, <1>2
  <2>2. nodes[m].path = <<>>
    BY <2>1, <1>1 DEF LinksTyped
  <2>3. \A h \in Nodes : ~Within(nodes[h].path, nodes[m].path)
    BY <2>2, <1>2 DEF Within
  <2> QED
    BY <2>3, <1>4, <1>6 DEF Homes, HomeOf
<1>7. ASSUME nodes[m].type = "EMPTY", nodes[m].parent # 0
      PROVE  nodes[m].parent \in Nodes /\ nodes[m].parent < m /\ Homes(m) = Homes(nodes[m].parent)
  <2> DEFINE q == nodes[m].parent
  <2>1. q \in Nodes /\ q < m
    <3>1. q \in 0..(m - 1)
      BY <1>1 DEF LinksTyped
    <3> QED
      BY <3>1, <1>2, <1>7 DEF Nodes
  <2>2. m \in 2..Len(nodes)
    BY <2>1, <1>2 DEF Nodes
  <2>3. /\ Within(nodes[q].path, nodes[m].path)
        /\ \A k \in Nodes : Within(nodes[k].path, nodes[m].path) => Under(nodes[k].path, nodes[q].path)
    BY <2>2, <1>1 DEF Hanging
  <2>4. \A k \in Nodes : Under(nodes[k].path, nodes[m].path) <=> k = m \/ Under(nodes[k].path, nodes[q].path)
    <3> TAKE k \in Nodes
    <3>1. nodes[k].path \in Seq(Nat) /\ nodes[q].path \in Seq(Nat) /\ nodes[m].path \in Seq(Nat)
      BY <1>2, <2>1
    <3>2. Under(nodes[k].path, nodes[q].path) => Within(nodes[k].path, nodes[m].path)
      BY <3>1, <2>3, UnderChain
    <3>3. Within(nodes[k].path, nodes[m].path) => Under(nodes[k].path, nodes[m].path)
      BY <3>1, UnderSplit
    <3> QED
      BY <3>2, <3>3, <1>3, <1>4, <2>3
  <2>5. ASSUME NEW h \in Nodes
        PROVE  HomeOf(h, m) <=> HomeOf(h, q)
    BY <2>4, <1>7 DEF HomeOf
  <2> QED
    BY <2>1, <2>5 DEF Homes
<1> QED
  BY <1>5, <1>6, <1>7

\* What Home finds is the home of the node; it finds nothing where there is none.
LEMMA HomeIsHome ==
  ASSUME NodesTyped, ContextsTyped, Ranges, TreeInv, NEW n \in Nodes, Home(n) # 0
  PROVE  HomeOf(Home(n), n)
<1> DEFINE IsUp(g) ==
             g = [m \in 0..Len(nodes) |-> IF m = 0 \/ nodes[m].type # "EMPTY" THEN m
                                          ELSE g[nodes[m].parent]]
           up == CHOOSE g : IsUp(g)
<1>1. Home(n) = up[n]
  BY DEF Home
<1>2. /\ Len(nodes) \in Nat /\ 0..Len(nodes) = Nodes \cup {0} /\ 0 \notin Nodes
  BY DEF Ranges, Nodes
<1>3. \A m \in Nodes :
        /\ nodes[m].type # "EMPTY" => Homes(m) = {m}
        /\ nodes[m].type = "EMPTY" /\ nodes[m].parent = 0 => Homes(m) = {}
        /\ nodes[m].type = "EMPTY" /\ nodes[m].parent # 0 =>
             nodes[m].parent \in Nodes /\ nodes[m].parent < m /\ Homes(m) = Homes(nodes[m].parent)
  BY HomesOf
\* there is such a function
<1>4. IsUp(up)
  <2> DEFINE g == [m \in 0..Len(nodes) |-> IF m = 0 \/ Homes(m) = {} THEN 0
                                           ELSE CHOOSE h \in Homes(m) : TRUE]
             f == [m \in 0..Len(nodes) |-> IF m = 0 \/ nodes[m].type # "EMPTY" THEN m
                                           ELSE g[nodes[m].parent]]
  <2>1. ASSUME NEW m \in 0..Len(nodes)
        PROVE  f[m] = g[m]
    <3>1. CASE m = 0
      BY <3>1
    <3>2. CASE m \in Nodes /\ nodes[m].type # "EMPTY"
      <4>1. Homes(m) = {m}
        BY <3>2, <1>3
      <4>2. \A h \in Homes(m) : h = m
        BY <4>1
      <4>3. (CHOOSE h \in Homes(m) : TRUE) \in Homes(m)
        BY <4>1
      <4>4. (CHOOSE h \in Homes(m) : TRUE) = m
        BY <4>2, <4>3
      <4>5. g[m] = m
        BY <3>2, <4>1, <4>4, <1>2
      <4> QED
        BY <3>2, <4>5
    <3>3. CASE m \in Nodes /\ nodes[m].type = "EMPTY" /\ nodes[m].parent = 0
      <4>1. Homes(m) = {} /\ m # 0 /\ 0 \in 0..Len(nodes)
        BY <3>3, <1>2, <1>3
      <4>2. g[m] = 0 /\ g[0] = 0
        BY <4>1
      <4>3. f[m] = g[nodes[m].parent]
        BY <3>3, <4>1
      <4> QED
        BY <3>3, <4>2, <4>3
    <3>4. CASE m \in Nodes /\ nodes[m].type = "EMPTY" /\ nodes[m].parent # 0
      <4> DEFINE q == nodes[m].parent
      <4>1. q \in Nodes /\ Homes(m) = Homes(q) /\ m # 0 /\ q # 0 /\ q \in 0..Len(nodes)
        BY <3>4, <1>2, <1>3
      <4>2. f[m] = g[q]
        BY <3>4, <4>1
      <4> HIDE DEF q
      <4>3. g[q] = g[m]
        BY <4>1
      <4> QED
        BY <4>2, <4>3
    <3> QED
      BY <3>1, <3>2, <3>3, <3>4, <1>2
  <2>2. g = f
    <3> HIDE DEF Homes
    <3>1. g = [m \in 0..Len(nodes) |-> g[m]]
      OBVIOUS
    <3>2. f = [m \in 0..Len(nodes) |-> f[m]]
      OBVIOUS
    <3> HIDE DEF g, f
    <3> QED
      BY <3>1, <3>2, <2>1
  <2>3. IsUp(g)
    BY <2>2
  <2> HIDE DEF g, IsUp
  <2> QED
    BY <2>3
<1> HIDE DEF up
<1>5. \A m \in Nodes : up[m] = IF nodes[m].type # "EMPTY" THEN m ELSE up[nodes[m].parent]
  BY <1>2, <1>4
<1>6. up[0] = 0
  BY <1>2, <1>4
<1> HIDE DEF IsUp
\* no node is the first one for which it is not as it should
<1> DEFINE Bad == {m \in Nodes : up[m] # 0 /\ up[m] \notin Homes(m)}
<1>7. Bad = {}
  <2> SUFFICES ASSUME Bad # {} PROVE FALSE
    OBVIOUS
  <2>1. Bad \subseteq Nat
    BY DEF Nodes
  <2>2. \E m \in Bad : \A k \in Bad : ~(<<k, m>> \in OpToRel(<, Nat))
    <3> HIDE DEF Bad
    <3> QED
      BY <2>1, WFMin, NatLessThanWellFounded
  <2>3. PICK m \in Bad : \A k \in Bad : ~(<<k, m>> \in OpToRel(<, Nat))
    BY <2>2
  <2>4. \A k \in Bad : ~(k < m)
    BY <2>1, <2>3, Zenon DEF OpToRel
  <2>5. CASE nodes[m].type # "EMPTY"
    BY <2>5, <1>3, <1>5
  <2>6. CASE nodes[m].type = "EMPTY" /\ nodes[m].parent = 0
    BY <2>6, <1>5, <1>6
  <2>7. CASE nodes[m].type = "EMPTY" /\ nodes[m].parent # 0
    <3>1. nodes[m].parent \in Bad /\ nodes[m].parent < m
      BY <2>7, <1>3, <1>5
    <3> QED
      BY <3>1, <2>4
  <2> QED
    BY <2>5, <2>6, <2>7
<1> QED
  BY <1>1, <1>7 DEF Homes

-----------------------------------------------------------------------------
(* The tree after each step.                                               *)
LEMMA TreeGrows ==
  ASSUME NodesTyped, ContextsTyped, Ranges, TreeInv, NEW c \in Ids, SomethingNew(c), LinksTyped'
  PROVE  TreeInv'
BY NumberedGrows, EnclosedGrows, HangingGrows, PlacementGrows DEF TreeInv

LEMMA MovedOnward ==
  ASSUME ContextsTyped, NEW c \in Ids, NEW function, NEW loop,
         Moved(contexts', c, function, loop), Ids \subseteq Ids'
  PROVE  Onward /\ contexts'[c].step = contexts[c].step + 1
<1>1. ASSUME NEW d \in Ids
      PROVE  /\ d \in Ids' /\ contexts'[d].path = contexts[d].path
             /\ contexts'[d].result = contexts[d].result
             /\ contexts'[d].step \in Nat /\ contexts[d].step <= contexts'[d].step
  <2>1. contexts'[d].path = contexts[d].path
    BY DEF Moved
  <2> QED
    BY <2>1, HereMoved
<1>2. contexts'[c].step = contexts[c].step + 1
  BY HereMoved
<1> QED
  BY <1>1, <1>2 DEF Onward

\* The attribute lists are as they were.
LEMMA OwnedKept ==
  ASSUME link' = link, NEW n, nodes'[n].attributes = nodes[n].attributes
  PROVE  Owned(n)' = Owned(n)
BY DEF Owned

LEMMA LinkedTree ==
  ASSUME NodesTyped, ContextsTyped, Ranges, TreeInv, NEW c \in Ids,
         NEW type \in {"EMPTY", "ELEMENT", "TEXT"},
         nodes' = Linked(contexts[c].result, type, Here(c)), link' = link
  PROVE  /\ Rooted /\ LinksTyped' /\ Nodes' = Nodes \cup {Len(nodes) + 1} /\ Len(nodes) + 1 \notin Nodes
         /\ \A n \in Nodes' \ Nodes : NewNode(c, n)
         /\ \A n \in Nodes : Owned(n)' = Owned(n)
<1>0. PICK new, r : new = Len(nodes) + 1 /\ r = contexts[c].result
  OBVIOUS
<1>1. /\ LinksTyped /\ r \in 1..Len(nodes) /\ r \in Nodes /\ Here(c) \in Seq(Nat)
      /\ Len(nodes) \in Nat \ {0}
  BY <1>0, HereIsNew DEF TreeInv, Ranges, Nodes
<1>2. /\ Len(nodes') = new
      /\ \A n \in 1..Len(nodes) :
           /\ nodes'[n].path = nodes[n].path
           /\ nodes'[n].children = IF n = r THEN Append(nodes[n].children, new)
                                   ELSE nodes[n].children
      /\ nodes'[new].path = Here(c)
  BY <1>0, <1>1, LinkedNodes
<1>3. /\ \A n \in 1..Len(nodes) : /\ nodes'[n].type = nodes[n].type
                                  /\ nodes'[n].parent = nodes[n].parent
                                  /\ nodes'[n].attributes = nodes[n].attributes
      /\ nodes'[new].parent = r /\ nodes'[new].attributes = <<>>
  BY <1>0, <1>1, LinkedFields
<1>4. /\ Nodes' = Nodes \cup {new} /\ new \notin Nodes /\ new \in Nat
      /\ Nodes = 1..Len(nodes) /\ 1 \in Nodes /\ r < new /\ r # 0
  BY <1>0, <1>1, <1>2 DEF Nodes
<1>5. ASSUME NEW n \in Nodes
      PROVE  ToSet(nodes[n].children) \subseteq ToSet(nodes'[n].children)
  <2>1. nodes[n].children \in Seq(Nat)
    BY <1>4, NodeFacts
  <2>2. CASE n = r
    <3>1. nodes'[n].children = Append(nodes[n].children, new)
      BY <2>2, <1>2, <1>4
    <3>2. \A k \in 1..Len(nodes[n].children) :
            /\ k \in 1..Len(nodes'[n].children)
            /\ nodes'[n].children[k] = nodes[n].children[k]
      BY <2>1, <3>1, <1>4, AppendAt
    <3>3. /\ DOMAIN nodes[n].children = 1..Len(nodes[n].children)
          /\ DOMAIN nodes'[n].children = 1..Len(nodes'[n].children)
      BY <2>1, <3>1, <1>4
    <3> QED
      BY <3>2, <3>3 DEF ToSet
  <2>3. CASE n # r
    BY <2>3, <1>2, <1>4
  <2> QED
    BY <2>2, <2>3
<1>6. new \in ToSet(nodes'[r].children)
  <2>1. nodes[r].children \in Seq(Nat) /\ nodes'[r].children = Append(nodes[r].children, new)
    BY <1>1, <1>2, NodeFacts
  <2>2. Append(nodes[r].children, new)[Len(nodes[r].children) + 1] = new
        /\ Len(nodes[r].children) + 1 \in DOMAIN Append(nodes[r].children, new)
    BY <2>1, <1>4
  <2> QED
    BY <2>1, <2>2 DEF ToSet
<1>7. Rooted
  BY <1>2, <1>3, <1>4, <1>5 DEF Rooted
<1>8. \A n \in Nodes : Owned(n)' = Owned(n)
  BY <1>3, <1>4, OwnedKept
<1>9. Owned(new)' = {}
  <2>1. ToSet(nodes'[new].attributes) = {}
    BY <1>3 DEF ToSet
  <2>2. {u \in Threads : link[u] # <<>> /\ link[u][1] = new} = {}
    BY <1>1, <1>4 DEF LinksTyped
  <2> QED
    BY <2>1, <2>2 DEF Owned
<1>10. NewNode(c, new)
  BY <1>0, <1>2, <1>3, <1>6, <1>9 DEF NewNode
<1>11. LinksTyped'
  <2>1. nodes'[1].path = <<>> /\ DOMAIN link' = Threads
    BY <1>1, <1>2, <1>4 DEF LinksTyped
  <2>2. \A n \in Nodes' : nodes'[n].parent \in 0..(n - 1) /\ nodes'[n].attributes \in Seq(Records)
    <3>1. ASSUME NEW n \in Nodes
          PROVE  nodes'[n].parent \in 0..(n - 1) /\ nodes'[n].attributes \in Seq(Records)
      BY <1>1, <1>3, <1>4 DEF LinksTyped
    <3>2. nodes'[new].parent \in 0..(new - 1) /\ nodes'[new].attributes \in Seq(Records)
      <4>1. r \in Nat
        BY <1>1 DEF Nodes
      <4> QED
        BY <4>1, <1>3, <1>4
    <3> QED
      BY <3>1, <3>2, <1>4
  <2>3. \A n \in 2..Len(nodes') : nodes'[n].parent # 0
    <3>1. \A n \in 2..Len(nodes') : n = new \/ (n \in 2..Len(nodes) /\ n \in 1..Len(nodes))
      <4>1. Len(nodes') = Len(nodes) + 1 /\ Len(nodes) \in Nat /\ new = Len(nodes) + 1
        BY <1>0, <1>1, <1>2
      <4> QED
        BY <4>1
    <3> QED
      BY <3>1, <1>1, <1>3, <1>4 DEF LinksTyped
  <2>4. \A t \in Threads : link'[t] # <<>> => link'[t][1] \in Nodes' /\ link'[t][2] \in Seq(Records)
    BY <1>1, <1>4 DEF LinksTyped
  <2> QED
    BY <2>1, <2>2, <2>3, <2>4 DEF LinksTyped
<1> QED
  BY <1>0, <1>4, <1>7, <1>8, <1>10, <1>11

\* Where the list of nodes stays as it is.
LEMMA SameNodes ==
  ASSUME nodes' = nodes
  PROVE  Nodes' = Nodes /\ Len(nodes') = Len(nodes) /\ Rooted
BY DEF Nodes, Rooted

\* An instruction that writes a text.
LEMMA LeafTree ==
  ASSUME OutputInv, TreeInv, NEW t \in Threads, Leaf(t)
  PROVE  TreeInv'
<1>0. PICK c : c = Current(t)
  OBVIOUS
<1>1. NodesTyped /\ ContextsTyped /\ Ranges /\ Placed
  BY DEF OutputInv
<1>2. PICK function \in FunctionNames :
        /\ stack[t] # <<>> /\ link' = link
        /\ nodes' = Linked(contexts[c].result, "TEXT", Here(c))
        /\ contexts' = Advanced(c, function, 0)
  <2>1. /\ stack[t] # <<>> /\ link' = link
        /\ nodes' = Linked(contexts[c].result, "TEXT", Here(c))
        /\ contexts' = Advanced(c, IF contexts[c].function = "node" THEN "default"
                                   ELSE contexts[c].function, 0)
        /\ contexts[c].function \in {"apply", "node", "default"}
    BY <1>0 DEF Leaf, At
  <2> QED
    BY <2>1 DEF FunctionNames
<1>3. c \in Ids
  BY <1>0, <1>1, <1>2, Top DEF OnTop
<1>4. /\ Rooted /\ LinksTyped' /\ \A n \in Nodes' \ Nodes : NewNode(c, n)
      /\ \A n \in Nodes : Owned(n)' = Owned(n)
  BY <1>1, <1>2, <1>3, LinkedTree
<1>5. Ids' = Ids /\ Moved(contexts', c, function, 0)
  BY <1>1, <1>2, <1>3, AdvancedContexts DEF Ids
<1>6. SomethingNew(c)
  <2>1. Onward /\ contexts'[c].step = contexts[c].step + 1
    BY <1>1, <1>3, <1>5, MovedOnward
  <2> QED
    BY <2>1, <1>4, <1>5 DEF SomethingNew
<1> QED
  BY <1>1, <1>3, <1>4, <1>6, TreeGrows

\* An instruction that makes a context, and a node for it or not.
LEMMA MakeTree ==
  ASSUME OutputInv, TreeInv, NEW t \in Threads, stack[t] # <<>>,
         NEW type \in {"none", "EMPTY", "ELEMENT", "TEXT"}, NEW locals \in Nat,
         NEW function \in FunctionNames, NEW as \in Ways, NEW next \in FunctionNames,
         NEW loop \in Nat, Make(t, type, locals, function, as, next, loop)
  PROVE  TreeInv'
<1>0. PICK c, e : c = Current(t) /\ e = Len(contexts) + 1
  OBVIOUS
<1>1. NodesTyped /\ ContextsTyped /\ Ranges /\ Placed /\ LinksTyped
  BY DEF OutputInv, TreeInv
<1>2. c \in Ids /\ link' = link
  BY <1>0, <1>1, Top DEF OnTop, Make
<1>3. /\ Ids' = Ids \cup {e} /\ e \notin Ids /\ Moved(contexts', c, next, loop)
      /\ contexts'[e].result = ResultFor(c, type) /\ contexts'[e].path = Here(c)
      /\ contexts'[e].step = 0
  <2>1. Made(t, c, e, type, locals, function, as, next, loop)
    BY <1>0, <1>1, MadeContexts
  <2> QED
    BY <2>1 DEF Made
<1>4. Onward /\ contexts'[c].step = contexts[c].step + 1
  BY <1>1, <1>2, <1>3, MovedOnward
<1>5. CASE type = "none"
  <2>1. nodes' = nodes
    BY <1>5 DEF Make
  <2>2. Nodes' = Nodes /\ Rooted
    BY <2>1, SameNodes
  <2>3. \A n \in Nodes : Owned(n)' = Owned(n)
    BY <2>1, <1>2, OwnedKept
  <2>4. NewContext(c, e)
    BY <1>0, <1>3, <1>5, <2>2 DEF NewContext, ResultFor
  <2>5. SomethingNew(c)
    BY <1>3, <1>4, <2>2, <2>3, <2>4 DEF SomethingNew
  <2>6. LinksTyped'
    BY <1>1, <1>2, <2>1 DEF LinksTyped, Nodes
  <2> QED
    BY <1>1, <1>2, <2>5, <2>6, TreeGrows
<1>6. CASE type # "none"
  <2>1. nodes' = Linked(contexts[c].result, type, Here(c)) /\ type \in {"EMPTY", "ELEMENT", "TEXT"}
    BY <1>0, <1>6 DEF Make
  <2>2. /\ Rooted /\ LinksTyped' /\ Nodes' = Nodes \cup {Len(nodes) + 1} /\ Len(nodes) + 1 \notin Nodes
        /\ \A n \in Nodes' \ Nodes : NewNode(c, n)
        /\ \A n \in Nodes : Owned(n)' = Owned(n)
    BY <2>1, <1>1, <1>2, LinkedTree
  <2>3. contexts'[e].result \in Nodes' \ Nodes
    BY <2>2, <1>3, <1>6 DEF ResultFor
  <2>4. NewContext(c, e)
    BY <1>0, <1>3, <2>3 DEF NewContext
  <2>5. SomethingNew(c)
    BY <1>3, <1>4, <2>2, <2>4 DEF SomethingNew
  <2> QED
    BY <1>1, <1>2, <2>2, <2>5, TreeGrows
<1> QED
  BY <1>5, <1>6

\* The look at an attribute list: what is about to be written was there, or is new.
LEMMA LookTree ==
  ASSUME OutputInv, TreeInv, NEW t \in Threads, stack[t] # <<>>, NEW c, c = Current(t),
         NEW home, NEW list, Look(t, home, list),
         home # 0 => \E a \in Records :
           /\ home \in Nodes /\ NewAttribute(c, home, a) /\ list \in Seq(Records)
           /\ ToSet(list) \subseteq ToSet(nodes[home].attributes) \cup {a}
  PROVE  TreeInv'
<1>1. NodesTyped /\ ContextsTyped /\ Ranges /\ Placed /\ LinksTyped
  BY DEF OutputInv, TreeInv
<1>2. c \in Ids
  BY <1>1, Top DEF OnTop
<1>3. /\ nodes' = nodes /\ contexts' = Advanced(c, "apply", 0)
      /\ link' = [link EXCEPT ![t] = IF home = 0 THEN <<>> ELSE <<home, list>>]
  BY DEF Look
<1>4. Ids' = Ids /\ Moved(contexts', c, "apply", 0)
  BY <1>1, <1>2, <1>3, AdvancedContexts DEF Ids, FunctionNames
<1>5. Onward /\ contexts'[c].step = contexts[c].step + 1
  BY <1>1, <1>2, <1>4, MovedOnward
<1>6. Nodes' = Nodes /\ Rooted
  BY <1>3, SameNodes
<1>7. /\ DOMAIN link' = Threads /\ \A u \in Threads : u # t => link'[u] = link[u]
      /\ home = 0 => link'[t] = <<>>
      /\ home # 0 => link'[t] # <<>> /\ link'[t][1] = home /\ link'[t][2] = list
  BY <1>1, <1>3 DEF LinksTyped
<1>8. ASSUME NEW n \in Nodes, NEW a \in Owned(n)'
      PROVE  a \in Owned(n) \/ NewAttribute(c, n, a)
  <2>1. CASE a \in ToSet(nodes[n].attributes)
    BY <2>1 DEF Owned
  <2>2. CASE \E u \in Threads : link'[u] # <<>> /\ link'[u][1] = n /\ a \in ToSet(link'[u][2])
    <3>1. PICK u \in Threads : link'[u] # <<>> /\ link'[u][1] = n /\ a \in ToSet(link'[u][2])
      BY <2>2
    <3>2. CASE u = t
      <4>1. home # 0 /\ home = n /\ a \in ToSet(list)
        BY <3>1, <3>2, <1>7
      <4> QED
        BY <4>1 DEF Owned
    <3>3. CASE u # t
      BY <3>1, <3>3, <1>7 DEF Owned
    <3> QED
      BY <3>2, <3>3
  <2>3. nodes'[n].attributes = nodes[n].attributes
    BY <1>3
  <2> QED
    BY <2>1, <2>2, <2>3 DEF Owned
<1>9. SomethingNew(c)
  BY <1>4, <1>5, <1>6, <1>8 DEF SomethingNew
<1>10. LinksTyped'
  <2>1. \A u \in Threads : link'[u] # <<>> => link'[u][1] \in Nodes /\ link'[u][2] \in Seq(Records)
    BY <1>1, <1>7 DEF LinksTyped
  <2> QED
    BY <2>1, <1>1, <1>3, <1>6, <1>7 DEF LinksTyped
<1> QED
  BY <1>1, <1>2, <1>9, <1>10, TreeGrows

LEMMA ListFacts ==
  ASSUME NEW S, NEW p \in S, NEW s \in Seq(S)
  PROVE  /\ <<p>> \o s \in Seq(S) /\ ToSet(<<p>> \o s) \subseteq ToSet(s) \cup {p}
         /\ <<p>> \in Seq(S) /\ ToSet(<<p>>) = {p}
         /\ s # <<>> => /\ <<Head(s), p>> \in Seq(S)
                        /\ ToSet(<<Head(s), p>>) \subseteq ToSet(s) \cup {p}
<1>1. <<p>> \in Seq(S) /\ ToSet(<<p>>) = {p}
  BY DEF ToSet
<1> DEFINE u == <<p>>
           w == u \o s
<1>2. u \in Seq(S) /\ Len(u) = 1 /\ u[1] = p
  BY <1>1
<1> HIDE DEF u
<1>3. w \in Seq(S) /\ Len(w) = Len(s) + 1 /\ Len(s) \in Nat
  BY <1>2, ConcatProperties
<1>4. ASSUME NEW k \in 1..Len(w)
      PROVE  w[k] \in ToSet(s) \cup {p}
  <2>1. CASE k = 1
    BY <2>1, <1>2
  <2>2. CASE k # 1
    <3>1. k - 1 \in 1..Len(s) /\ w[k] = s[k - 1]
      BY <2>2, <1>2, <1>3
    <3> QED
      BY <3>1 DEF ToSet
  <2> QED
    BY <2>1, <2>2
<1>5. ToSet(w) \subseteq ToSet(s) \cup {p}
  <2> HIDE DEF w
  <2>1. DOMAIN w = 1..Len(w)
    BY <1>3
  <2> QED
    BY <2>1, <1>4 DEF ToSet
<1>6. ASSUME s # <<>>
      PROVE  /\ <<Head(s), p>> \in Seq(S)
             /\ ToSet(<<Head(s), p>>) \subseteq ToSet(s) \cup {p}
  <2>1. Head(s) = s[1] /\ 1 \in DOMAIN s /\ Head(s) \in S
    BY <1>6
  <2>2. Head(s) \in ToSet(s)
    BY <2>1 DEF ToSet
  <2> PICK h : h = Head(s)
    OBVIOUS
  <2>3. <<h, p>> \in Seq(S) /\ ToSet(<<h, p>>) = {h, p}
    BY <2>1 DEF ToSet
  <2> QED
    BY <2>2, <2>3
<1> QED
  BY <1>1, <1>3, <1>5, <1>6 DEF u

\* What the records of attributes are.
LEMMA AttributeRecords ==
  ASSUME NEW p \in Seq(Nat)
  PROVE  /\ ByName(p) \in Records /\ ByName(p).path = p /\ ByName(p).copied = FALSE
         /\ ByCopyOf(p) \in Records /\ ByCopyOf(p).path = p /\ ByCopyOf(p).copied = TRUE
BY DEF ByName, ByCopyOf, Records

\* xsl:attribute goes to the home of the result, xsl:copy to one at most a slot
\* away, xsl:copy-of to the result itself.
LEMMA AttributeTree ==
  ASSUME OutputInv, TreeInv, NEW t \in Threads,
         Attribute(t) \/ CopyAttribute(t) \/ CopyOfAttribute(t)
  PROVE  TreeInv'
<1>0. PICK c, r, a, b : /\ c = Current(t) /\ r = contexts[c].result
                        /\ a = ByName(Here(c)) /\ b = ByCopyOf(Here(c))
  OBVIOUS
<1>1. NodesTyped /\ ContextsTyped /\ Ranges /\ Placed /\ LinksTyped
  BY DEF OutputInv, TreeInv
<1>2. stack[t] # <<>>
  BY DEF Attribute, CopyAttribute, CopyOfAttribute, At
<1>3. c \in Ids /\ r \in Nodes /\ Here(c) \in Seq(Nat)
  <2>1. c \in Ids
    BY <1>0, <1>1, <1>2, Top DEF OnTop
  <2> QED
    BY <2>1, <1>0, <1>1, HereIsNew DEF Ranges, Nodes
<1>4. \A n \in Nodes : nodes[n].attributes \in Seq(Records)
  BY <1>1 DEF LinksTyped
<1>a. /\ a \in Records /\ b \in Records /\ \A n : HomeOf(n, r) => NewAttribute(c, n, a)
      /\ NewAttribute(c, r, b)
  BY <1>0, <1>3, AttributeRecords DEF NewAttribute
<1>5. CASE Attribute(t)
  <2>0. PICK home : home = Home(r)
    OBVIOUS
  <2> DEFINE list == IF home = 0 THEN <<>> ELSE <<a>> \o nodes[home].attributes
  <2>1. Look(t, home, list)
    BY <1>0, <1>5, <2>0 DEF Attribute
  <2>2. ASSUME home # 0
        PROVE  /\ home \in Nodes /\ NewAttribute(c, home, a) /\ list \in Seq(Records)
               /\ ToSet(list) \subseteq ToSet(nodes[home].attributes) \cup {a}
    <3>1. HomeOf(home, r) /\ home \in Nodes
      BY <1>1, <1>3, <2>0, <2>2, HomeIsHome DEF HomeOf
    <3>2. nodes[home].attributes \in Seq(Records) /\ list = <<a>> \o nodes[home].attributes
      BY <3>1, <1>4, <2>2
    <3> HIDE DEF list
    <3> QED
      BY <3>1, <3>2, <1>a, ListFacts
  <2> HIDE DEF list
  <2> QED
    BY <1>0, <1>2, <1>a, <2>1, <2>2, LookTree
<1>6. CASE CopyAttribute(t)
  <2>0. PICK up : up = IF nodes[r].type = "EMPTY" THEN nodes[r].parent ELSE r
    OBVIOUS
  <2>00. PICK home : home = IF up = 0 \/ nodes[up].type # "ELEMENT" THEN 0 ELSE up
    OBVIOUS
  <2> DEFINE list == IF home = 0 \/ nodes[home].attributes = <<>> THEN <<a>>
                     ELSE <<Head(nodes[home].attributes), a>>
  <2>1. Look(t, home, list)
    BY <1>0, <1>6, <2>0, <2>00 DEF CopyAttribute
  <2>2. ASSUME home # 0
        PROVE  /\ home \in Nodes /\ NewAttribute(c, home, a) /\ list \in Seq(Records)
               /\ ToSet(list) \subseteq ToSet(nodes[home].attributes) \cup {a}
    <3>1. home = up /\ up # 0 /\ nodes[up].type # "EMPTY"
      BY <2>2, <2>00
    <3>2. HomeOf(home, r)
      <4>1. CASE nodes[r].type = "EMPTY"
        <5>1. up = nodes[r].parent /\ up \in Nodes /\ Homes(r) = Homes(up)
          BY <4>1, <3>1, <2>0, <1>1, <1>3, HomesOf
        <5>2. Homes(up) = {up}
          BY <5>1, <3>1, <1>1, HomesOf
        <5> QED
          BY <5>1, <5>2, <3>1 DEF Homes
      <4>2. CASE nodes[r].type # "EMPTY"
        <5>1. up = r /\ Homes(r) = {r}
          BY <4>2, <2>0, <1>1, <1>3, HomesOf
        <5> QED
          BY <5>1, <3>1 DEF Homes
      <4> QED
        BY <4>1, <4>2
    <3>3. home \in Nodes /\ NewAttribute(c, home, a) /\ nodes[home].attributes \in Seq(Records)
      BY <3>2, <1>4, <1>a DEF HomeOf
    <3>4. CASE nodes[home].attributes = <<>>
      <4>1. list = <<a>>
        BY <3>4
      <4> HIDE DEF list
      <4> QED
        BY <4>1, <3>3, <1>a, ListFacts
    <3>5. CASE nodes[home].attributes # <<>>
      <4>1. list = <<Head(nodes[home].attributes), a>>
        BY <2>2, <3>5
      <4> HIDE DEF list
      <4> QED
        BY <4>1, <3>3, <3>5, <1>a, ListFacts
    <3> QED
      BY <3>4, <3>5
  <2> HIDE DEF list
  <2> QED
    BY <1>0, <1>2, <1>a, <2>1, <2>2, LookTree
<1>7. CASE CopyOfAttribute(t)
  <2> DEFINE list == <<b>> \o nodes[r].attributes
  <2>1. Look(t, r, list)
    BY <1>0, <1>7 DEF CopyOfAttribute
  <2>2. /\ r \in Nodes /\ list \in Seq(Records)
        /\ ToSet(list) \subseteq ToSet(nodes[r].attributes) \cup {b}
    BY <1>3, <1>4, <1>a, ListFacts
  <2> HIDE DEF list
  <2> QED
    BY <1>0, <1>2, <1>a, <2>1, <2>2, LookTree
<1> QED
  BY <1>5, <1>6, <1>7

\* The write of a list: what it holds was the node's already.
LEMMA LinkTree ==
  ASSUME OutputInv, TreeInv, NEW t \in Threads, Link(t)
  PROVE  TreeInv'
<1>1. NodesTyped /\ ContextsTyped /\ Ranges /\ LinksTyped
  BY DEF OutputInv, TreeInv
<1>2. PICK h, list : h = link[t][1] /\ list = link[t][2]
  OBVIOUS
<1>3. /\ link[t] # <<>> /\ nodes' = [nodes EXCEPT ![h].attributes = list]
      /\ link' = [link EXCEPT ![t] = <<>>] /\ contexts' = contexts
      /\ h \in Nodes /\ list \in Seq(Records)
  BY <1>1, <1>2 DEF Link, LinksTyped
<1>4. PICK A : nodes \in Seq(NodeRecords(A))
  BY <1>1 DEF NodesTyped
<1>5. /\ Len(nodes) \in Nat /\ nodes \in [Nodes -> NodeRecords(A)] /\ DOMAIN nodes = Nodes
      /\ \A n \in Nodes : nodes[n] \in NodeRecords(A)
  BY <1>4 DEF Nodes
<1> DEFINE new == [nodes[h] EXCEPT !.attributes = list]
<1>6. /\ new.path = nodes[h].path /\ new.type = nodes[h].type /\ new.parent = nodes[h].parent
      /\ new.children = nodes[h].children /\ new.attributes = list
  BY <1>3, <1>5 DEF NodeRecords
<1>7. nodes' = [nodes EXCEPT ![h] = new]
  BY <1>3
<1> HIDE DEF new
<1>8. /\ nodes'[h] = new /\ \A n \in Nodes : n # h => nodes'[n] = nodes[n]
      /\ DOMAIN nodes' = Nodes
  BY <1>3, <1>5, <1>7
<1>9. Len(nodes') = Len(nodes) /\ Nodes' = Nodes
  <2>1. nodes \in Seq(NodeRecords(A) \cup {new}) /\ h \in 1..Len(nodes)
    BY <1>3, <1>4 DEF Nodes
  <2>2. Len(nodes') = Len(nodes)
    BY <2>1, <1>7, ExceptSeq
  <2> QED
    BY <2>2 DEF Nodes
<1>10. \A n \in Nodes : /\ nodes'[n].path = nodes[n].path /\ nodes'[n].type = nodes[n].type
                        /\ nodes'[n].parent = nodes[n].parent
                        /\ nodes'[n].children = nodes[n].children
                        /\ nodes'[n].attributes = IF n = h THEN list ELSE nodes[n].attributes
  BY <1>6, <1>8
<1>11. Rooted
  BY <1>9, <1>10 DEF Rooted
<1>12. link'[t] = <<>> /\ DOMAIN link' = Threads /\ \A u \in Threads : u # t => link'[u] = link[u]
  BY <1>1, <1>3 DEF LinksTyped
<1>13. ASSUME NEW n \in Nodes, NEW a \in Owned(n)'
       PROVE  a \in Owned(n)
  <2>1. CASE a \in ToSet(nodes'[n].attributes)
    <3>1. CASE n = h
      <4>1. a \in ToSet(link[t][2]) /\ link[t] # <<>> /\ link[t][1] = n
        BY <2>1, <3>1, <1>2, <1>3, <1>10
      <4> QED
        BY <4>1 DEF Owned
    <3>2. CASE n # h
      <4>1. a \in ToSet(nodes[n].attributes)
        BY <2>1, <3>2, <1>10
      <4> QED
        BY <4>1 DEF Owned
    <3> QED
      BY <3>1, <3>2
  <2>2. CASE \E u \in Threads : link'[u] # <<>> /\ link'[u][1] = n /\ a \in ToSet(link'[u][2])
    <3>1. PICK u \in Threads : link'[u] # <<>> /\ link'[u][1] = n /\ a \in ToSet(link'[u][2])
      BY <2>2
    <3>2. link'[u] = link[u]
      BY <3>1, <1>12
    <3> QED
      BY <3>1, <3>2 DEF Owned
  <2> QED
    BY <2>1, <2>2 DEF Owned
<1>14. Onward /\ Ids' = Ids
  <2>1. Ids' = Ids
    BY <1>3 DEF Ids
  <2>2. \A d \in Ids : contexts[d].step \in Nat /\ contexts[d].step <= contexts[d].step
    BY <1>1, LabelFacts
  <2> QED
    BY <2>1, <2>2, <1>3 DEF Onward
<1>15. Numbered' /\ Distinct' /\ Enclosed' /\ Hanging' /\ Placement'
  BY <1>1, <1>9, <1>11, <1>13, <1>14, NothingNew
<1>16. LinksTyped'
  <2>1. nodes'[1].path = <<>>
    <3>1. 1 \in Nodes
      BY <1>1 DEF Ranges, Nodes
    <3> QED
      BY <3>1, <1>1, <1>10 DEF LinksTyped
  <2>2. \A n \in Nodes : nodes'[n].parent \in 0..(n - 1) /\ nodes'[n].attributes \in Seq(Records)
    BY <1>1, <1>3, <1>10 DEF LinksTyped
  <2>3. \A n \in 2..Len(nodes) : nodes'[n].parent # 0
    <3>1. \A n \in 2..Len(nodes) : n \in Nodes
      BY <1>5 DEF Nodes
    <3> QED
      BY <3>1, <1>1, <1>10 DEF LinksTyped
  <2>4. \A u \in Threads : link'[u] # <<>> => link'[u][1] \in Nodes /\ link'[u][2] \in Seq(Records)
    BY <1>1, <1>12 DEF LinksTyped
  <2> QED
    BY <2>1, <2>2, <2>3, <2>4, <1>9, <1>12 DEF LinksTyped
<1> QED
  BY <1>15, <1>16 DEF TreeInv

\* A context that is taken, or returns: the tree does not know.
LEMMA StateTree ==
  ASSUME OutputInv, TreeInv, NEW c \in Ids, NEW state \in {"queued", "running", "done"},
         contexts' = [contexts EXCEPT ![c].state = state], nodes' = nodes, link' = link
  PROVE  TreeInv'
<1>1. NodesTyped /\ ContextsTyped /\ Ranges /\ LinksTyped
  BY DEF OutputInv, TreeInv
<1>2. Onward /\ Ids' = Ids
  <2>1. /\ Ids' = Ids
        /\ \A d \in Ids : /\ contexts'[d].result = contexts[d].result
                          /\ contexts'[d].path = contexts[d].path
                          /\ contexts'[d].step = contexts[d].step
    BY <1>1, StateSet
  <2>2. \A d \in Ids : contexts[d].step \in Nat /\ contexts[d].step <= contexts[d].step
    BY <1>1, LabelFacts
  <2> QED
    BY <2>1, <2>2 DEF Onward
<1>3. Nodes' = Nodes /\ Len(nodes') = Len(nodes) /\ Rooted
  BY SameNodes
<1>4. \A n \in Nodes : Owned(n)' \subseteq Owned(n)
  BY OwnedKept
<1>5. Numbered' /\ Distinct' /\ Enclosed' /\ Hanging' /\ Placement'
  BY <1>1, <1>2, <1>3, <1>4, NothingNew
<1>6. LinksTyped'
  BY <1>1, <1>3 DEF LinksTyped
<1> QED
  BY <1>5, <1>6 DEF TreeInv

LEMMA InitTree ==
  Init => TreeInv
<1> SUFFICES ASSUME Init PROVE TreeInv
  OBVIOUS
<1> DEFINE node == Node("EMPTY", 0, <<>>)
           root == Context(1, 1, <<>>, "node", "queued")
<1>1. node.path = <<>> /\ node.parent = 0 /\ node.attributes = <<>>
  BY DEF Node
<1>2. root.path = <<>> /\ root.result = 1
  BY DEF Context
<1>3. nodes = <<node>> /\ contexts = <<root>> /\ link = [t \in Threads |-> <<>>]
  BY DEF Init
<1> HIDE DEF node, root
<1>4. /\ Nodes = {1} /\ Len(nodes) = 1 /\ nodes[1] = node /\ Ids = {1} /\ contexts[1] = root
  BY <1>3 DEF Nodes, Ids
<1>5. DOMAIN link = Threads /\ \A t \in Threads : link[t] = <<>>
  BY <1>3
<1>6. Owned(1) = {}
  <2>1. ToSet(nodes[1].attributes) = {}
    BY <1>1, <1>4 DEF ToSet
  <2> QED
    BY <2>1, <1>5 DEF Owned
<1>7. LinksTyped
  <2>1. <<>> \in Seq(Records) /\ 0 \in 0..(1 - 1) /\ 2..1 = {}
    OBVIOUS
  <2> QED
    BY <2>1, <1>1, <1>4, <1>5 DEF LinksTyped
<1>8. Labels = {<<>>} /\ ~Within(<<>>, <<>>)
  BY <1>1, <1>2, <1>4, <1>6 DEF Labels, Within
<1>9. Numbered /\ Distinct
  BY <1>2, <1>4, <1>8 DEF Numbered, Distinct
<1>10. Enclosed
  BY <1>1, <1>2, <1>4 DEF Enclosed, Under
<1>11. Hanging
  BY <1>4 DEF Hanging
<1>12. Placement
  BY <1>4, <1>6 DEF Placement
<1> QED
  BY <1>7, <1>9, <1>10, <1>11, <1>12 DEF TreeInv

LEMMA NextTree ==
  OutputInv /\ TreeInv /\ [Next]_vars => TreeInv'
<1> SUFFICES ASSUME OutputInv, TreeInv, [Next]_vars PROVE TreeInv'
  OBVIOUS
<1>1. NodesTyped /\ ContextsTyped /\ Ranges /\ Placed
  BY DEF OutputInv
<1>2. CASE UNCHANGED vars
  <2>1. nodes' = nodes /\ contexts' = contexts /\ link' = link
    BY <1>2 DEF vars
  <2>2. Ids' = Ids /\ Nodes' = Nodes /\ \A n : Owned(n)' = Owned(n)
    BY <2>1 DEF Ids, Nodes, Owned
  <2>3. Labels' = Labels
    BY <2>1, <2>2 DEF Labels
  <2>4. LinksTyped' /\ Numbered' /\ Distinct'
    BY <2>1, <2>2, <2>3 DEF TreeInv, LinksTyped, Numbered, Distinct
  <2>5. Enclosed' /\ Hanging'
    BY <2>1, <2>2 DEF TreeInv, Enclosed, Hanging
  <2>6. Placement'
    BY <2>1, <2>2 DEF TreeInv, Placement, Around
  <2> QED
    BY <2>4, <2>5, <2>6 DEF TreeInv
<1>3. CASE Next
  <2>1. PICK t \in Threads :
          \/ Leaf(t) \/ Attribute(t) \/ CopyAttribute(t) \/ CopyOfAttribute(t) \/ Link(t) \/ Branch(t)
          \/ LiteralElement(t) \/ Copy(t) \/ Element(t) \/ Slot(t) \/ ApplyTemplates(t)
          \/ ProcessTemplate(t) \/ DefaultChild(t) \/ Return(t)
          \/ \E c \in Ids : TakeTask(t, c)
    BY <1>3 DEF Next, Ids
  <2>2. CASE Leaf(t)
    BY <2>2, LeafTree
  <2>3. CASE Attribute(t) \/ CopyAttribute(t) \/ CopyOfAttribute(t)
    BY <2>3, AttributeTree
  <2>4. CASE Link(t)
    BY <2>4, LinkTree
  \* all that make a context
  <2>5. CASE \/ Branch(t) \/ LiteralElement(t) \/ Copy(t) \/ Element(t) \/ Slot(t)
             \/ ApplyTemplates(t) \/ ProcessTemplate(t) \/ DefaultChild(t)
    <3>0. PICK c : c = Current(t)
      OBVIOUS
    <3>1. stack[t] # <<>>
      BY <2>5 DEF Branch, LiteralElement, Copy, Element, Slot, ApplyTemplates, ProcessTemplate,
                  DefaultChild, At
    <3>2. Fresh \in Nat /\ contexts[c].locals \in Nat /\ contexts[c].loop \in Nat
      <4>1. c \in Ids
        BY <1>1, <3>0, <3>1, Top DEF OnTop
      <4>2. contexts[c] \in ContextRecords /\ Len(contexts) \in Nat
        BY <4>1, <1>1 DEF ContextsTyped, Ids
      <4> QED
        BY <4>2 DEF ContextRecords, Fresh
    <3>a. /\ "apply" \in FunctionNames /\ "node" \in FunctionNames /\ "default" \in FunctionNames
          /\ "template" \in FunctionNames /\ "call" \in Ways /\ 0 \in Nat
      BY DEF Ways, FunctionNames
    <3>b. ASSUME NEW type \in {"none", "EMPTY", "ELEMENT", "TEXT"}, NEW locals \in Nat,
                 NEW function \in FunctionNames, NEW as \in Ways, NEW next \in FunctionNames,
                 NEW loop \in Nat, Make(t, type, locals, function, as, next, loop)
          PROVE  TreeInv'
      BY <3>1, <3>b, MakeTree
    <3>3. CASE Branch(t)
      <4>1. Make(t, "none", contexts[c].locals, "apply", "call", "apply", 0)
        BY <3>0, <3>3 DEF Branch
      <4> QED
        BY <4>1, <3>2, <3>a, <3>b
    <3>4. CASE LiteralElement(t)
      <4>1. Make(t, "ELEMENT", Fresh, "apply", "call", "apply", 0)
        BY <3>4 DEF LiteralElement
      <4> QED
        BY <4>1, <3>2, <3>a, <3>b
    <3>5. CASE Copy(t)
      <4>1. PICK type \in {"ELEMENT", "TEXT"} :
              Make(t, type, contexts[c].locals, "apply", "call", "apply", 0)
        BY <3>0, <3>5 DEF Copy
      <4> QED
        BY <4>1, <3>2, <3>a, <3>b
    <3>6. CASE Element(t) \/ Slot(t)
      <4>1. PICK type \in {"ELEMENT", "EMPTY"}, as \in Ways :
              Make(t, type, Fresh, "apply", as, "apply", 0)
        BY <3>6 DEF Element, Slot
      <4> QED
        BY <4>1, <3>2, <3>a, <3>b
    <3>7. CASE ApplyTemplates(t)
      <4>1. PICK list \in {Fresh} \cup ({contexts[c].loop} \ {0}), as \in Ways :
              Make(t, "EMPTY", list, "node", as, "apply", list)
        BY <3>0, <3>7 DEF ApplyTemplates
      <4>2. list \in Nat
        BY <3>2
      <4> QED
        BY <4>1, <4>2, <3>a, <3>b
    <3>8. CASE ProcessTemplate(t)
      <4>1. Make(t, "none", Fresh, "apply", "call", "template", 0)
        BY <3>8 DEF ProcessTemplate
      <4> QED
        BY <4>1, <3>2, <3>a, <3>b
    <3>9. CASE DefaultChild(t)
      <4>1. Make(t, "EMPTY", Fresh, "node", "call", "default", 0)
        BY <3>9 DEF DefaultChild
      <4> QED
        BY <4>1, <3>2, <3>a, <3>b
    <3> QED
      BY <2>5, <3>3, <3>4, <3>5, <3>6, <3>7, <3>8, <3>9
  <2>6. CASE Return(t)
    <3>1. stack[t] # <<>> /\ nodes' = nodes /\ link' = link
          /\ contexts' = [contexts EXCEPT ![Current(t)].state = "done"]
      BY <2>6 DEF Return
    <3>2. Current(t) \in Ids
      <4> PICK c : c = Current(t)
        OBVIOUS
      <4> QED
        BY <1>1, <3>1, Top DEF OnTop
    <3> QED
      BY <3>1, <3>2, StateTree
  <2>7. CASE \E c \in Ids : TakeTask(t, c)
    <3>1. PICK c \in Ids : /\ nodes' = nodes /\ link' = link
                           /\ contexts' = [contexts EXCEPT ![c].state = "running"]
      BY <2>7 DEF TakeTask
    <3> QED
      BY <3>1, StateTree
  <2> QED
    BY <2>1, <2>2, <2>3, <2>4, <2>5, <2>6, <2>7
<1> QED
  BY <1>2, <1>3

LEMMA TreeInvariant ==
  Spec => [](OutputInv /\ TreeInv)
<1>1. OutputInv /\ TreeInv /\ [Next]_vars => (OutputInv /\ TreeInv)'
  BY NextOutput, NextTree
<1> QED
  BY <1>1, InitOutput, InitTree, PTL DEF Spec

\* The prefixes of SequencesExt.
LEMMA PrefixIsUnder ==
  ASSUME NEW p \in Seq(Nat), NEW q \in Seq(Nat)
  PROVE  (IsPrefix(p, q) <=> Under(p, q)) /\ (IsStrictPrefix(p, q) <=> Within(p, q))
<1>1. Len(p) \in Nat /\ Len(q) \in Nat
  OBVIOUS
<1>2. IsPrefix(p, q) <=> Under(p, q)
  <2>1. CASE Len(p) <= Len(q)
    <3> DEFINE s == SubSeq(p, 1, Len(p))
               u == SubSeq(q, 1, Len(p))
    <3>1. /\ s \in Seq(Nat) /\ u \in Seq(Nat) /\ Len(s) = Len(p) /\ Len(u) = Len(p)
          /\ \A k \in 1..Len(p) : s[k] = p[k] /\ u[k] = q[k]
      BY <1>1, <2>1
    <3>2. IsPrefix(p, q) <=> s = u
      BY <2>1 DEF IsPrefix
    <3> HIDE DEF s, u
    <3>3. s = u <=> \A k \in 1..Len(p) : q[k] = p[k]
      <4>1. (\A k \in 1..Len(s) : s[k] = u[k]) => s = u
        BY <3>1, SeqEqual
      <4> QED
        BY <3>1, <4>1
    <3> QED
      BY <2>1, <3>2, <3>3 DEF Under
  <2>2. CASE ~(Len(p) <= Len(q))
    BY <2>2 DEF IsPrefix, Under
  <2> QED
    BY <2>1, <2>2
<1>3. Under(p, q) /\ p # q <=> Within(p, q)
  <2>1. ~Within(p, p)
    BY <1>1 DEF Within
  <2> QED
    BY <2>1, UnderSplit
<1> QED
  BY <1>2, <1>3 DEF IsStrictPrefix

(***************************************************************************)
(* Every node hangs below the innermost node whose instruction encloses    *)
(* its own, however the tasks are interleaved: a context writes to the     *)
(* node made for it or to that of its maker (instructions.c:53-67 and      *)
(* 131-144), and nothing is made where another instruction is.             *)
(***************************************************************************)
THEOREM NodesUnderInnermost ==
  Spec => []UnderInnermost
<1>1. OutputInv /\ TreeInv => UnderInnermost
  <2> SUFFICES ASSUME OutputInv, TreeInv, NEW n \in 2..Len(nodes)
               PROVE  /\ n \in ToSet(nodes[nodes[n].parent].children)
                      /\ IsStrictPrefix(nodes[nodes[n].parent].path, nodes[n].path)
                      /\ \A m \in 1..Len(nodes) :
                           IsStrictPrefix(nodes[m].path, nodes[n].path)
                             => IsPrefix(nodes[m].path, nodes[nodes[n].parent].path)
    BY DEF UnderInnermost
  <2> DEFINE q == nodes[n].parent
  <2>1. /\ n \in ToSet(nodes[q].children) /\ Within(nodes[q].path, nodes[n].path)
        /\ \A m \in Nodes : Within(nodes[m].path, nodes[n].path) => Under(nodes[m].path, nodes[q].path)
    BY DEF TreeInv, Hanging
  <2>2. n \in Nodes /\ q \in Nodes
    <3>1. Len(nodes) \in Nat /\ n \in Nodes
      BY DEF OutputInv, Ranges, Nodes
    <3>2. q \in 0..(n - 1) /\ q # 0
      BY <3>1 DEF TreeInv, LinksTyped
    <3> QED
      BY <3>1, <3>2 DEF Nodes
  <2>3. \A m \in Nodes : nodes[m].path \in Seq(Nat)
    BY NodeFacts DEF OutputInv, Nodes
  <2> HIDE DEF q
  <2>4. IsStrictPrefix(nodes[q].path, nodes[n].path)
    BY <2>1, <2>2, <2>3, PrefixIsUnder
  <2>5. ASSUME NEW m \in Nodes, IsStrictPrefix(nodes[m].path, nodes[n].path)
        PROVE  IsPrefix(nodes[m].path, nodes[q].path)
    BY <2>1, <2>2, <2>3, <2>5, PrefixIsUnder
  <2> QED
    BY <2>1, <2>4, <2>5 DEF q, Nodes
<1> QED
  BY <1>1, TreeInvariant, PTL

(***************************************************************************)
(* An attribute of xsl:attribute or xsl:copy reaches the innermost node    *)
(* around it that is not a slot, through any number of slots               *)
(* (instructions.c:158-175); one of xsl:copy-of stays at the innermost     *)
(* node, be it a slot (transform.c:62-68).  No other thread can come       *)
(* between: neither a slot nor an element appears above a node that is     *)
(* there, and what races for a list is meant for the same node.            *)
(***************************************************************************)
THEOREM AttributesAreHome ==
  Spec => []AttributeIsHome
<1>1. OutputInv /\ TreeInv => AttributeIsHome
  <2> SUFFICES ASSUME OutputInv, TreeInv, NEW n \in Nodes, NEW a \in ToSet(nodes[n].attributes)
               PROVE  /\ IsStrictPrefix(nodes[n].path, a.path)
                      /\ a.copied \/ nodes[n].type # "EMPTY"
                      /\ \A m \in Nodes :
                           IsStrictPrefix(nodes[m].path, a.path)
                             /\ IsStrictPrefix(nodes[n].path, nodes[m].path)
                             => nodes[m].type = "EMPTY" /\ ~a.copied
    BY DEF AttributeIsHome, Nodes
  <2>1. a \in Owned(n)
    BY DEF Owned
  <2>2. Around(n, a)
    BY <2>1 DEF TreeInv, Placement
  <2>3. a.path \in Seq(Nat) /\ \A m \in Nodes : nodes[m].path \in Seq(Nat)
    <3>1. \A m \in Nodes : nodes[m].path \in Labels /\ \A x \in Owned(m) : x.path \in Labels
      BY LabelFacts DEF OutputInv, TreeInv
    <3> QED
      BY <3>1, <2>1, LabelFacts DEF OutputInv, TreeInv
  <2>4. (a.copied \/ nodes[n].type # "EMPTY") /\ IsStrictPrefix(nodes[n].path, a.path)
    BY <2>2, <2>3, PrefixIsUnder DEF Around
  <2>5. ASSUME NEW m \in Nodes, IsStrictPrefix(nodes[m].path, a.path),
               IsStrictPrefix(nodes[n].path, nodes[m].path)
        PROVE  nodes[m].type = "EMPTY" /\ ~a.copied
    BY <2>2, <2>3, <2>5, PrefixIsUnder DEF Around
  <2> QED
    BY <2>4, <2>5
<1> QED
  BY <1>1, TreeInvariant, PTL
=============================================================================
