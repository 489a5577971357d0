----------------------------- MODULE XPathNodes -----------------------------
(***************************************************************************)
(* The node selections of xpath.c: a path is evaluated step by step, from  *)
(* one selection to the next.  A selection is a list of copies: a copy     *)
(* shares parent and children with what it was made from, has a position   *)
(* and remembers its original.  The original of a copy of a copy is not    *)
(* the node of the document but a member of the selection before, and its  *)
(* siblings are the members of that selection.  A member that is lost is   *)
(* not met by a walk along next, only by one back along prev.              *)
(***************************************************************************)
EXTENDS Integers, Sequences, FiniteSets, SequencesExt

CONSTANTS Nodes,      \* ids of a document: [type, name, parent, children, attributes],
                      \* the last two sequences of ids
          StartNodes, \* the context nodes
          Kinds,      \* node tests: "*", "text()", "node()" or a name
          SortKeys,   \* what xsl:sort may sort by: an integer for each node
          MaxSteps,
          NoNode

VARIABLES start,     \* the context node
          steps,     \* the path so far
          selection  \* what it selects

nodesVars == <<start, steps, selection>>

\* a copy: the node, its position, whether it has no prev, whether it is lost, and its
\* original: nothing for a document node, else the selection and the place in it
Copy(n, position, first, original) ==
    [node |-> n, position |-> position, first |-> first, lost |-> FALSE, original |-> original]

NoOriginal == [list |-> <<>>, at |-> 0]

NoCopies(ns) == [i \in DOMAIN ns |-> [node |-> ns[i], original |-> NoOriginal]]

\* add_to_selection, for all of a list
add_to_selection(items) ==
    [i \in DOMAIN items |-> Copy(items[i].node, i, i = 1, items[i].original)]

\* the members of a selection as originals of further copies
Members(list) == [i \in DOMAIN list |-> [node |-> list[i].node, original |-> [list |-> list, at |-> i]]]

\* the places that a walk along next comes to, and what is there
Walk(list) == SelectSeq([i \in DOMAIN list |-> i], LAMBDA i : ~list[i].lost)
InList(list) == SelectSeq(list, LAMBDA copy : ~copy.lost)

xpath_node_kind(n, kind) ==
    CASE kind = "*" -> Nodes[n].type \in {"ELEMENT", "ATTRIBUTE"}
      [] kind = "text()" -> Nodes[n].type = "TEXT"
      [] kind = "node()" -> TRUE
      [] OTHER -> Nodes[n].type = "ELEMENT" /\ Nodes[n].name = kind

Fit(items, kind) == SelectSeq(items, LAMBDA item : xpath_node_kind(item.node, kind))

Selected(items, kind) == add_to_selection(Fit(items, kind))

-----------------------------------------------------------------------------
\* add_all_children: an empty node is passed through
RECURSIVE add_all_children(_)
add_all_children(ns) ==
    FlattenSeq([i \in DOMAIN ns |->
        (IF Nodes[ns[i]].type = "EMPTY" THEN <<>> ELSE <<ns[i]>>)
        \o add_all_children(Nodes[ns[i]].children)])

CalledRoot(n) == Nodes[n].name = "root"

\* up to the first node whose name is root
RECURSIVE Above(_)
Above(n) == LET up == Nodes[n].parent
            IN  IF up = NoNode \/ CalledRoot(up) THEN <<>> ELSE <<up>> \o Above(up)

SiblingsOf(n) == IF Nodes[n].parent = NoNode THEN <<n>> ELSE Nodes[Nodes[n].parent].children

IndexIn(seq, n) == CHOOSE i \in DOMAIN seq : seq[i] = n

\* what original->next leads to, the nearest first; from a lost member to the others
After(item) ==
    IF item.original = NoOriginal
    THEN LET s == SiblingsOf(item.node)
         IN  NoCopies(SubSeq(s, IndexIn(s, item.node) + 1, Len(s)))
    ELSE LET list == item.original.list i == item.original.at
             next == SelectSeq([k \in 1..(Len(list) - i) |-> i + k],
                               LAMBDA j : list[j].lost => \A k \in i..j : list[k].lost)
         IN  [k \in DOMAIN next |-> Members(list)[next[k]]]

\* what original->prev leads to, the nearest first; a list that was put together
\* from several has no prev where they meet
Before(item) ==
    IF item.original = NoOriginal
    THEN LET s == SiblingsOf(item.node)
         IN  NoCopies(Reverse(SubSeq(s, 1, IndexIn(s, item.node) - 1)))
    ELSE LET list == item.original.list i == item.original.at
             from == CHOOSE j \in 1..i : list[j].first /\ \A k \in (j + 1)..i : ~list[k].first
         IN  Reverse(SubSeq(Members(list), from, i - 1))

\* this is what a copy of the item has as its original
xpath_get_self(this, kind) == Selected(<<this>>, kind)
xpath_get_parent(item, kind) ==
    Selected(NoCopies(LET up == Above(item.node) IN IF up = <<>> THEN up ELSE <<Head(up)>>), kind)
xpath_get_child(item, kind) == Selected(NoCopies(Nodes[item.node].children), kind)
xpath_get_descendant(item, kind) ==
    Selected(NoCopies(add_all_children(Nodes[item.node].children)), kind)
xpath_get_ancestor(item, kind) == Selected(NoCopies(Above(item.node)), kind)
xpath_get_following_sibling(item, kind) == Selected(After(item), kind)
xpath_get_preceding_sibling(item, kind) == Selected(Before(item), kind)

\* only the head of a list has no prev
Chain(list) == [i \in DOMAIN list |-> [list[i] EXCEPT !.first = i = 1]]

\* the node itself is put in front, the positions behind it stay
xpath_get_descendant_or_self(item, this, kind) ==
    Chain(xpath_get_self(this, kind) \o xpath_get_descendant(item, kind))
xpath_get_ancestor_or_self(item, this, kind) ==
    Chain(xpath_get_self(this, kind) \o xpath_get_ancestor(item, kind))

\* Siblings are counted through, the descendants of each for themselves
SiblingItself(items, i, kind) ==
    IF xpath_node_kind(items[i].node, kind)
    THEN <<Copy(items[i].node, Len(Fit(SubSeq(items, 1, i), kind)), FALSE, items[i].original)>>
    ELSE <<>>

\* itself[i] and below[i]: what the i-th sibling gives.  Where the list begins with
\* descendants, since the siblings so far do not fit, it is handed out from the last of
\* these on: the ones before it are lost
HandedOut(itself, below) ==
    LET Begins(i) == itself[i] = <<>> /\ \A j \in 1..(i - 1) : itself[j] \o below[j] = <<>>
    IN  Chain(FlattenSeq([i \in DOMAIN below |->
            itself[i] \o [k \in DOMAIN below[i] |->
                             [below[i][k] EXCEPT !.lost = Begins(i) /\ k < Len(below[i])]]]))

WithDescendants(items, kind) ==
    HandedOut([i \in DOMAIN items |-> SiblingItself(items, i, kind)],
              [i \in DOMAIN items |-> xpath_get_descendant(items[i], kind)])

xpath_get_following(item, kind) == WithDescendants(After(item), kind)
xpath_get_preceding(item, kind) == WithDescendants(Before(item), kind)

AxisNames == {"self", "parent", "child", "descendant", "ancestor", "descendant-or-self",
              "ancestor-or-self", "following-sibling", "preceding-sibling", "following",
              "preceding"}

Selector(axis, item, this, kind) ==
    CASE axis = "self" -> xpath_get_self(this, kind)
      [] axis = "parent" -> xpath_get_parent(item, kind)
      [] axis = "child" -> xpath_get_child(item, kind)
      [] axis = "descendant" -> xpath_get_descendant(item, kind)
      [] axis = "ancestor" -> xpath_get_ancestor(item, kind)
      [] axis = "descendant-or-self" -> xpath_get_descendant_or_self(item, this, kind)
      [] axis = "ancestor-or-self" -> xpath_get_ancestor_or_self(item, this, kind)
      [] axis = "following-sibling" -> xpath_get_following_sibling(item, kind)
      [] axis = "preceding-sibling" -> xpath_get_preceding_sibling(item, kind)
      [] axis = "following" -> xpath_get_following(item, kind)
      [] axis = "preceding" -> xpath_get_preceding(item, kind)

\* the selections of all members one behind the other
xpath_apply_selector(list, axis, kind) ==
    LET walk == Walk(list)
    IN  FlattenSeq([k \in DOMAIN walk |->
                       Selector(axis, list[walk[k]], Members(list)[walk[k]], kind)])

-----------------------------------------------------------------------------
StartItem == [node |-> start, original |-> NoOriginal]

NodesInit == /\ start \in StartNodes
             /\ steps = <<>>
             /\ selection = <<>>

Step(s, result) == /\ Len(steps) < MaxSteps
                   /\ steps' = Append(steps, s)
                   /\ selection' = result
                   /\ UNCHANGED start

Ended == steps # <<>> /\ Last(steps).axis \in {"attribute", "sort"}

\* the first step selects from the context node, the others from the selection
xpath_select_common(axis, kind) ==
    /\ ~Ended
    /\ Step([axis |-> axis, kind |-> kind],
            IF steps = <<>> THEN Selector(axis, StartItem, StartItem, kind)
            ELSE xpath_apply_selector(selection, axis, kind))

\* @*, counted through; attributes lead nowhere
xpath_get_attrs ==
    /\ ~Ended
    /\ LET from == IF steps = <<>> THEN <<StartItem>> ELSE InList(selection)
       IN  Step([axis |-> "attribute", kind |-> "node()"],
                add_to_selection(NoCopies(FlattenSeq(
                    [i \in DOMAIN from |-> Nodes[from[i].node].attributes]))))

xpath_filter_rank(test) ==
    /\ steps # <<>> /\ Last(steps).axis # "sort"
    /\ ~\E i \in DOMAIN selection : Nodes[selection[i].node].type = "EMPTY"
    /\ LET kept == SelectSeq(Walk(selection),
                             LAMBDA i : IF test.kind = "position" THEN i = test.number
                                        ELSE xpath_get_child(selection[i], test.kind) # <<>>)
       IN  Step([axis |-> "filter", kind |-> test.kind, number |-> test.number],
                add_to_selection([i \in DOMAIN kept |-> Members(selection)[kept[i]]]))

\* [k], and a test for a child; a position is that which the copy was given
xpath_filter(test) ==
    /\ steps # <<>> /\ Last(steps).axis # "sort"
    /\ ~\E i \in DOMAIN selection : Nodes[selection[i].node].type = "EMPTY"
    /\ LET Passes(item) == IF test.kind = "position" THEN item.position = test.number
                           ELSE xpath_get_child(item, test.kind) # <<>>
           kept == SelectSeq(Walk(selection), LAMBDA i : Passes(selection[i]))
       IN  Step([axis |-> "filter", kind |-> test.kind, number |-> test.number],
                add_to_selection([i \in DOMAIN kept |-> Members(selection)[kept[i]]]))

\* xml_add_siblings, for the selections that a union puts together: all but the last
\* node of each are counted through
Counted(list, pos) ==
    [i \in DOMAIN list |->
        IF i = Len(list) \/ list[i].lost THEN list[i]
        ELSE [list[i] EXCEPT !.position = pos + Len(Walk(SubSeq(list, 1, i)))]]

Together(mine, other) ==
    IF mine = <<>> THEN Counted(other, 0)
    ELSE mine \o [i \in DOMAIN other |->
                     [Counted(other, Len(Walk(mine)) - 1)[i] EXCEPT !.first = FALSE]]

xml_add_siblings(axis, kind) ==
    /\ steps # <<>> /\ ~Ended
    /\ Step([axis |-> "union", kind |-> kind, with |-> axis],
            Together(Counted(selection, 0), Selector(axis, StartItem, StartItem, kind)))

-----------------------------------------------------------------------------
Swapped(list, i) == SubSeq(list, 1, i - 2) \o <<list[i], list[i - 1]>> \o SubSeq(list, i + 1, Len(list))

Behind(l, r, sort) == sort.order * (sort.key[l.node] - sort.key[r.node]) > 0

Pass(list, sort) ==
    FoldLeft(LAMBDA l, i : IF i > 1 /\ Behind(l[i - 1], l[i], sort) THEN Swapped(l, i) ELSE l,
             list, [i \in DOMAIN list |-> i])

\* pass after pass, until one changes nothing
RECURSIVE Sorted(_, _)
Sorted(list, sort) == LET next == Pass(list, sort)
                      IN  IF next = list THEN list ELSE Sorted(next, sort)

Relinked(list) ==
    [i \in DOMAIN list |-> Copy(list[i].node, i, i = 1, list[i].original)]

\* xsl:sort: the selection itself is put in order; a further xsl:sort does it again
xpath_sort_selection(sort) ==
    /\ Len(InList(selection)) > 1
    /\ Step([axis |-> "sort", kind |-> "", by |-> sort, of |-> InList(selection)],
            Relinked(Sorted(InList(selection), sort)))

NodesNext ==
    \/ \E key \in SortKeys, order \in {1, -1} : xpath_sort_selection([key |-> key, order |-> order])
    \/ \E axis \in AxisNames, kind \in Kinds : xpath_select_common(axis, kind)
    \/ xpath_get_attrs
    \/ \E k \in 1..2 : xpath_filter([kind |-> "position", number |-> k])
    \/ \E kind \in Kinds : xpath_filter([kind |-> kind, number |-> 0])
    \/ \E axis \in {"child", "ancestor"}, kind \in Kinds : xml_add_siblings(axis, kind)

-----------------------------------------------------------------------------
(* What XPath says of the same path.  The nodes below a node called root   *)
(* are not seen to have it above them, that much is taken from the code.   *)
Up == [n \in DOMAIN Nodes |-> Nodes[n].parent]
IsAbove[m, n \in DOMAIN Nodes] == Up[n] # NoNode /\ (Up[n] = m \/ IsAbove[m, Up[n]])
Ordinary(n) == Nodes[n].type \notin {"EMPTY", "ATTRIBUTE"}

\* the older sibling has the smaller place
Earlier(m, n) == /\ Up[m] = Up[n] /\ Up[m] # NoNode
                 /\ LET s == Nodes[Up[m]].children
                    IN  m # n /\ {m, n} \subseteq ToSet(s) /\ IndexIn(s, m) < IndexIn(s, n)

DocumentOrder(m, n) == \/ IsAbove[m, n]
                       \/ \E p, q \in DOMAIN Nodes : /\ p = m \/ IsAbove[p, m]
                                                     /\ q = n \/ IsAbove[q, n]
                                                     /\ Earlier(p, q)

RECURSIVE Visible(_, _)
Visible(m, n) == LET up == Up[n] IN up # NoNode /\ ~CalledRoot(up) /\ (up = m \/ Visible(m, up))

OnAxis(axis, n, m) ==
    CASE axis = "self" -> m = n
      [] axis = "parent" -> m = Up[n] /\ Visible(m, n)
      [] axis = "child" -> Up[m] = n /\ Nodes[m].type # "ATTRIBUTE"
      [] axis = "descendant" -> IsAbove[n, m] /\ Ordinary(m)
      [] axis = "ancestor" -> Visible(m, n)
      [] axis = "descendant-or-self" -> m = n \/ (IsAbove[n, m] /\ Ordinary(m))
      [] axis = "ancestor-or-self" -> m = n \/ Visible(m, n)
      [] axis = "following-sibling" -> Earlier(n, m)
      [] axis = "preceding-sibling" -> Earlier(m, n)
      [] axis = "following" -> DocumentOrder(n, m) /\ ~IsAbove[n, m] /\ Nodes[m].type # "ATTRIBUTE"
      [] axis = "preceding" -> DocumentOrder(m, n) /\ ~IsAbove[m, n] /\ Nodes[m].type # "ATTRIBUTE"
      [] axis = "attribute" -> Up[m] = n /\ Nodes[m].type = "ATTRIBUTE"

On(axis, n, kind) == {m \in DOMAIN Nodes : OnAxis(axis, n, m) /\ xpath_node_kind(m, kind)}

\* the nodes of an axis up to m, the nearest first
Rank(axis, n, kind, m) ==
    Cardinality({o \in On(axis, n, kind) :
        o = m \/ IF axis \in {"ancestor", "preceding-sibling"} THEN DocumentOrder(m, o)
                 ELSE DocumentOrder(o, m)})

(* What the code gives of an axis.  Of following and preceding it misses   *)
(* what is not at or below a sibling; and where the nearest siblings do    *)
(* not fit, of the nodes below the first that has any only the last in     *)
(* document order is there                                                 *)
GivenOf(on, axis, n) ==
    LET Nearer(s, t) == IF axis = "following" THEN Earlier(s, t) ELSE Earlier(t, s)
        At(s) == {m \in on : m = s \/ (IsAbove[s, m] /\ Ordinary(m))}
        giving == {s \in DOMAIN Nodes : Nearer(n, s) /\ At(s) # {}}
        Left(m, s) == /\ s \notin At(s) /\ \A t \in giving \ {s} : Nearer(s, t)
                         /\ \E o \in At(s) : DocumentOrder(m, o)
    IN  UNION {{m \in At(s) : ~Left(m, s)} : s \in giving}

GivenOn(axis, n, kind) ==
    IF axis \in {"following", "preceding"} THEN GivenOf(On(axis, n, kind), axis, n)
    ELSE On(axis, n, kind)

RECURSIVE Meant(_)
Meant(path) ==
    IF path = <<>> THEN {start}
    ELSE LET s == Last(path) before == Front(path) IN
         CASE s.axis = "filter" /\ s.kind = "position" ->
                 LET on == Last(before) IN
                 UNION {{m \in On(on.axis, n, on.kind) : Rank(on.axis, n, on.kind, m) = s.number}
                        : n \in Meant(Front(before))}
           [] s.axis = "filter" /\ s.kind # "position" ->
                 {n \in Meant(before) : On("child", n, s.kind) # {}}
           [] s.axis = "union" -> Meant(before) \cup On(s.with, start, s.kind)
           [] OTHER -> UNION {GivenOn(s.axis, n, s.kind) : n \in Meant(before)}

Sideways == {"following-sibling", "preceding-sibling", "following", "preceding"}

\* After a filter or self the originals are members of a selection, and a step
\* sideways stays in it; positions are those of one axis only before a
\* filter or union has counted again, and not where a node is put in front
Plainly(path) ==
    \A i \in 2..Len(path) :
        /\ path[i].axis \in Sideways =>
               path[i - 1].axis \notin {"filter", "self", "descendant-or-self",
                                        "ancestor-or-self", "union"}
        /\ path[i].axis = "filter" /\ path[i].kind = "position" =>
               path[i - 1].axis \notin {"filter", "union", "descendant-or-self", "attribute",
                                        "ancestor-or-self", "following", "preceding"}

(* The nodes that a path selects are those that XPath says, through any    *)
(* sequence of axes, filters and unions: steps see the document and not    *)
(* the copies, [k] counts per node selected from and the nearest first,    *)
(* and empty nodes hide no descendants.  Of following and preceding the    *)
(* code gives the part that GivenOn says, never anything else              *)
(* (xpath.c:114-482, 600-709).                                             *)
SelectsAsXPath ==
    LET path == SelectSeq(steps, LAMBDA s : s.axis # "sort")
    IN  path # <<>> /\ Plainly(path) =>
            {copy.node : copy \in ToSet(InList(selection))} = Meant(path)

(* xsl:sort leaves what it sorts in the order of its key, equal nodes as   *)
(* they stood, so that the last of several is the first criterion and the  *)
(* ones before it decide its ties; nothing is lost or doubled and          *)
(* position() counts anew (xpath.c:490-576).                               *)
SortsStably ==
    steps # <<>> /\ Last(steps).axis = "sort" =>
        LET sort == Last(steps).by
            before == Last(steps).of
            Of(i) == sort.order * sort.key[before[i].node]
            \* how many stand in front of the i-th
            Place(i) == Cardinality({j \in DOMAIN before :
                            Of(j) < Of(i) \/ (Of(j) = Of(i) /\ j <= i)})
        IN  /\ Len(selection) = Len(before)
            /\ \A i \in DOMAIN before : /\ selection[Place(i)].node = before[i].node
                                        /\ selection[Place(i)].original = before[i].original
                                        /\ selection[i].position = i

(* A selection has the nodes that the path means, in the order asked for.  *)
SelectionsHold == SelectsAsXPath /\ SortsStably
=============================================================================
