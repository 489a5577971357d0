----------------------------- MODULE Templates -----------------------------
(***************************************************************************)
(* templates.c: the templates of a stylesheet and the choice of one for a  *)
(* node.  A pattern that ends in a name goes into a tree of names, read    *)
(* from the last step to the first; any other stands in a list with its    *)
(* weight, the newest first; "/" and "*" have a place of their own.  Modes *)
(* keep apart, templates without a match have a table by name.             *)
(***************************************************************************)
EXTENDS Null, Integers, Sequences, FiniteSets, SequencesExt, TLC

CONSTANTS TemplateNames, Modes, \* NULL stands for no mode
          Patterns,        \* parts of a match, trimmed
          Expression,      \* what xpath.c makes of each: records with type, name and
                           \* children; FILTER and the comparisons have a test as
                           \* well, [position] or [holds], the nodes that pass it
          Stylesheets,     \* the templates in document order: sequences of
                           \* [name, match, mode, content], match NULL or a sequence
                           \* of patterns (what stood between the bars)
          Document, root_node  \* nodes: [type, name, parent, position]

VARIABLES rest,        \* what precompile_templates has yet to read
          templates,   \* per mode an entry, or NULL
          named_templ, \* per name the content, or NULL
          given        \* model only: the templates read so far

templateVars == <<rest, templates, named_templ, given>>

\* direct: the tree, from the names that lead to a tree node to its template
Entry == [head |-> <<>>, root |-> NULL, always |-> NULL, direct |-> (<<>> :> NULL)]

TemplatesInit ==
    /\ rest \in Stylesheets
    /\ templates = [m \in Modes |-> IF m = NULL THEN Entry ELSE NULL]
    /\ named_templ = [n \in TemplateNames |-> NULL]
    /\ given = <<>>

template_map_get_entry(m) == IF templates[m] = NULL THEN Entry ELSE templates[m]

-----------------------------------------------------------------------------
\* an expression, its first child, the first child of that, and so on
RECURSIVE Chain(_)
Chain(e) == <<e>> \o IF e.children = <<>> THEN <<>> ELSE Chain(Head(e.children))

Weight(p) == Len(Chain(Expression[p]))

\* only the last step of the pattern is looked at
IsDirect(p) == Expression[p].type \in {"SELECT", "ROOT"}

\* the names of a direct pattern; filters and "//" on the way are passed over
Path(p) == LET named == SelectSeq(Chain(Expression[p]),
                                  LAMBDA e : e.type \in {"SELECT", "ROOT"})
           IN  [i \in DOMAIN named |-> IF named[i].type = "ROOT" THEN "/" ELSE named[i].name]

Template(p, c) == [match |-> p, content |-> c]

\* template_map_find_template, and the new content in its place
Replaced(entry, p, c) ==
    [entry EXCEPT
        !.head = [i \in DOMAIN @ |-> IF @[i].match = p THEN Template(p, c) ELSE @[i]],
        !.direct = [path \in DOMAIN @ |->
            IF @[path] # NULL /\ @[path].match = p THEN Template(p, c) ELSE @[path]]]

Exists(entry, p) ==
    \/ \E i \in DOMAIN entry.head : entry.head[i].match = p
    \/ \E path \in DOMAIN entry.direct :
          entry.direct[path] # NULL /\ entry.direct[path].match = p

Planted(tree, path, t) ==
    (path :> t) @@ tree @@ [prefix \in Prefixes(path) |-> NULL]

add_templ_match(entry, p, c) ==
    IF Exists(entry, p) THEN Replaced(entry, p, c)
    ELSE IF p = "/" THEN [entry EXCEPT !.root = Template(p, c)]
    ELSE IF p = "*" THEN [entry EXCEPT !.always = Template(p, c)]
    ELSE IF IsDirect(p) THEN [entry EXCEPT !.direct = Planted(@, Path(p), Template(p, c))]
    ELSE [entry EXCEPT !.head = <<Template(p, c)>> \o @]

\* one template element; a name says nothing where there is a match
add_template ==
    /\ rest # <<>>
    /\ LET t == Head(rest) IN
          /\ IF t.match = NULL
             THEN /\ named_templ' = [named_templ EXCEPT ![t.name] = t.content]
                  /\ UNCHANGED templates
             ELSE /\ templates' = [templates EXCEPT ![t.mode] =
                        FoldLeft(LAMBDA entry, p : add_templ_match(entry, p, t.content),
                                 template_map_get_entry(t.mode), t.match)]
                  /\ UNCHANGED named_templ
          /\ given' = Append(given, t)
    /\ rest' = Tail(rest)

TemplatesNext == add_template

-----------------------------------------------------------------------------
Of(node) == Document[node]

select_match_with_filter(node, test) ==
    IF "position" \in DOMAIN test THEN Of(node).position = test.position
    ELSE node \in test.holds

\* no type is looked at for "*", and a context matches every node there is
RECURSIVE select_match(_, _)
select_match(node, e) ==
    LET First(n) == e.children = <<>> \/ select_match(n, Head(e.children))
    IN  CASE node = NULL -> FALSE
          [] e.type = "CONTEXT" -> TRUE
          [] e.type = "ROOT" -> node = root_node
          [] e.type = "SELECT" -> Of(node).name = e.name /\ First(Of(node).parent)
          [] e.type = "ALL" -> First(Of(node).parent)
          [] e.type = "SELF" -> First(node)
          [] e.type = "FILTER" -> First(node) /\ select_match_with_filter(node, e.test)
          [] e.type \in {"UNION", "OR"} ->
                \E i \in DOMAIN e.children : select_match(node, e.children[i])
          [] e.type = "AND" -> \A i \in DOMAIN e.children : select_match(node, e.children[i])
          [] e.type = "CALL" -> e.name = "node" \/ (e.name = "text" /\ Of(node).type = "TEXT")
          [] e.type \in {"NOT", "EQ", "NE", "LT", "LE", "GT", "GE"} -> node \in e.test.holds
          [] OTHER -> FALSE

\* from the node up, as far as the tree of names goes
RECURSIVE Deepest(_, _, _)
Deepest(tree, path, node) ==
    IF node = NULL THEN path
    ELSE LET name == IF Of(node).type = "ELEMENT" THEN Of(node).name ELSE "/"
             further == Append(path, name)
         IN  IF further \in DOMAIN tree THEN Deepest(tree, further, Of(node).parent) ELSE path

find_select_template_last(entry, node) ==
    LET direct == entry.direct[Deepest(entry.direct, <<>>, node)]
    IN  FoldLeft(LAMBDA best, t : IF /\ select_match(node, Expression[t.match])
                                     /\ \/ best = NULL
                                        \/ Weight(t.match) >= Weight(best.match)
                                  THEN t ELSE best,
                 direct, entry.head)

\* the list is read from the newest to the oldest, and only more weight wins
find_select_template(entry, node) ==
    LET direct == entry.direct[Deepest(entry.direct, <<>>, node)]
    IN  FoldLeft(LAMBDA best, t : IF /\ select_match(node, Expression[t.match])
                                     /\ \/ best = NULL
                                        \/ Weight(t.match) > Weight(best.match)
                                  THEN t ELSE best,
                 direct, entry.head)

find_template(node, m) ==
    LET entry == templates[m]
        selected == find_select_template(entry, node)
    IN  IF entry = NULL THEN NULL
        ELSE IF node = root_node /\ entry.root # NULL THEN entry.root.content
        ELSE IF selected # NULL THEN selected.content
        ELSE IF node = root_node \/ entry.always = NULL THEN NULL
        ELSE entry.always.content

template_byname(n) == named_templ[n]

-----------------------------------------------------------------------------
(* The answer in terms of what the stylesheet says *)
Parts(m) ==
    FlattenSeq([i \in DOMAIN given |->
        IF given[i].match = NULL \/ given[i].mode # m THEN <<>>
        ELSE [j \in DOMAIN given[i].match |-> Template(given[i].match[j], given[i].content)]])

\* the content that came last, of the parts that satisfy P
Latest(parts, P(_)) ==
    LET of == SelectSeq(parts, P) IN IF of = <<>> THEN NULL ELSE Last(of)

RECURSIVE NamesUp(_)
NamesUp(node) == IF node = NULL THEN <<>>
                 ELSE <<IF Of(node).type = "ELEMENT" THEN Of(node).name ELSE "/">>
                      \o NamesUp(Of(node).parent)

\* the template whose names are the longest beginning of the names above the node
\* that any pattern begins with; none if no pattern ends there
DirectFor(parts, node) ==
    LET direct == {p \in {parts[i].match : i \in DOMAIN parts} \ {"/", "*"} : IsDirect(p)}
        up == NamesUp(node)
        common == {k \in 0..Len(up) :
                      k = 0 \/ \E p \in direct : IsPrefix(SubSeq(up, 1, k), Path(p))}
        k == CHOOSE k \in common : \A l \in common : l <= k
    IN  Latest(parts, LAMBDA t : t.match \in direct /\ Path(t.match) = SubSeq(up, 1, k))

\* of the other patterns that match, the heaviest, and of those the one that was
\* first seen last
ListedFor(parts, node) ==
    LET At(p) == SelectInSeq(parts, LAMBDA t : t.match = p)
        fit == {p \in {parts[i].match : i \in DOMAIN parts} \ {"/", "*"} :
                    ~IsDirect(p) /\ select_match(node, Expression[p])}
        best == CHOOSE p \in fit : \A q \in fit \ {p} :
                    \/ Weight(p) > Weight(q)
                    \/ Weight(p) = Weight(q) /\ At(p) > At(q)
    IN  IF fit = {} THEN NULL ELSE Latest(parts, LAMBDA t : t.match = best)

Answer(m, node) ==
    LET parts == Parts(m)
        direct == DirectFor(parts, node)
        listed == ListedFor(parts, node)
        root == Latest(parts, LAMBDA t : t.match = "/")
        always == Latest(parts, LAMBDA t : t.match = "*")
        t == IF node = root_node /\ root # NULL THEN root
             ELSE IF listed # NULL /\ (direct # NULL =>
                                          Weight(listed.match) > Weight(direct.match))
             THEN listed
             ELSE IF direct # NULL THEN direct
             ELSE IF node # root_node THEN always ELSE NULL
    IN  IF t = NULL THEN NULL ELSE t.content

(* For every node and mode the structure of list, tree and extra places    *)
(* gives what the sequence of templates says: a later template of the same *)
(* pattern and mode replaces the earlier one wherever it stands, nothing   *)
(* else of the order matters but the tie of two listed patterns of one     *)
(* weight, and no mode sees another's (templates.c:104-221, 435-487).      *)
LookupIsOfDefinitions ==
    \A m \in Modes, node \in DOMAIN Document : find_template(node, m) = Answer(m, node)

(* xsl:call-template reaches the template without a match that came last   *)
(* under its name (templates.c:223-265).                                   *)
NamedIsLatest ==
    \A n \in TemplateNames :
        LET t == Latest(given, LAMBDA g : g.match = NULL /\ g.name = n)
        IN  template_byname(n) = IF t = NULL THEN NULL ELSE t.content

(* Templates are found as the stylesheet defines them, by match and by     *)
(* name.                                                                   *)
FoundAsDefined == LookupIsOfDefinitions /\ NamedIsLatest
=============================================================================
