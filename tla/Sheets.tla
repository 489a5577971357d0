------------------------------- MODULE Sheets -------------------------------
(***************************************************************************)
(* How XSLTNewProcessor puts a stylesheet together from its files          *)
(* (transform.c): xsl_preprocess takes in what is included, reads          *)
(* xsl:output and drops blank texts, process_imports takes in what is      *)
(* imported, precompile_templates and process_global_flags collect         *)
(* templates, keys and flags.  Each is a walk over the tree, the first two *)
(* over one that grows under them; a walk is here a list of jobs, one for  *)
(* each node that is still to be visited.                                  *)
(***************************************************************************)
EXTENDS Null, Naturals, Sequences, FiniteSets, SequencesExt, TLC

CONSTANTS main_file, \* the file given to XSLTNewProcessor
          Sheets, \* what the files may hold: file -> sequence of items, or NULL if it
                  \* cannot be read; an item is [name, ref, noescape, children], where
                  \* ref is the file it refers to or the name of a key, and no file
                  \* leads back to itself
          KeyNames

VARIABLES sheet,     \* the files
          tree,      \* the nodes of the stylesheet: path -> [item, type, children]
          jobs,      \* the rest of the walks: sequence of [walk, node]
          output,    \* doctype, encoding, method ...: the item they were read from
          compiled,  \* the nodes handed to add_template
          keys,      \* pctx->keys, the newest first
          noescape,  \* the nodes with XML_FLAG_NOESCAPE
          found      \* what key() found last

sheetVars == <<sheet, tree, jobs, output, compiled, keys, noescape, found>>

Job(walk, node) == [walk |-> walk, node |-> node]

Children(node, items) == [i \in DOMAIN items |-> Append(node, i)]

\* the nodes that the parser makes of items, below a node
RECURSIVE Below(_, _)
Below(node, items) ==
    FoldLeft(LAMBDA nodes, i :
                LET n == Append(node, i) item == items[i]
                IN  nodes @@ Below(n, item.children)
                    @@ (n :> [item |-> item, children |-> Children(n, item.children),
                              type |-> IF item.name = "blank" THEN "TEXT" ELSE "ELEMENT"]),
             <<>>, [i \in DOMAIN items |-> i])

TheSheet == <<>>
MainDocument == [item |-> [name |-> "root", ref |-> NULL, noescape |-> FALSE, children |-> <<>>],
                 type |-> "EMPTY", children |-> Children(TheSheet, sheet[main_file])]

Item(node) == tree[node].item
Refers(node, name) == Item(node).name = name /\ sheet[Item(node).ref] # NULL

\* the element turns empty, with what was parsed below it
TakenIn(node) ==
    LET items == sheet[Item(node).ref]
    IN  (node :> [tree[node] EXCEPT !.type = "EMPTY", !.children = Children(node, items)])
        @@ tree @@ Below(node, items)

SheetsInit ==
    /\ sheet \in Sheets
    /\ tree = (TheSheet :> MainDocument) @@ Below(TheSheet, sheet[main_file])
    /\ jobs = <<Job("preprocess", TheSheet), Job("imports", TheSheet), Job("templates", TheSheet),
                Job("flags", TheSheet)>>
    /\ output = NULL /\ compiled = <<>> /\ keys = <<>> /\ noescape = {} /\ found = NULL

Walk(walk) == jobs # <<>> /\ Head(jobs).walk = walk
This == Head(jobs).node

\* the nodes next, then what was to come
Continue(walk, nodes) == jobs' = [i \in DOMAIN nodes |-> Job(walk, nodes[i])] \o Tail(jobs)

-----------------------------------------------------------------------------
(* xsl_preprocess *)
Blank(node) == Item(node).name = "blank" /\ Item(Front(node)).name # "xsl:text"

IncludeFile ==
    /\ Walk("preprocess") /\ Refers(This, "xsl:include")
    /\ tree' = TakenIn(This)
    /\ Continue("preprocess", Children(This, sheet[Item(This).ref]))
    /\ UNCHANGED <<sheet, output, compiled, keys, noescape, found>>

DropBlank ==
    /\ Walk("preprocess") /\ Blank(This)
    /\ tree' = [tree EXCEPT ![Front(This)].children = SelectSeq(@, LAMBDA n : n # This)]
    /\ Continue("preprocess", <<>>)
    /\ UNCHANGED <<sheet, output, compiled, keys, noescape, found>>

\* only the first xsl:output that is met is read
ReadOutput(item) == IF output = NULL THEN item ELSE output

\* any other node, also an include of what cannot be read
Preprocess ==
    /\ Walk("preprocess") /\ ~Refers(This, "xsl:include") /\ ~Blank(This)
    /\ output' = IF Item(This).name = "xsl:output" THEN ReadOutput(Item(This)) ELSE output
    /\ Continue("preprocess", tree[This].children)
    /\ UNCHANGED <<sheet, tree, compiled, keys, noescape, found>>

-----------------------------------------------------------------------------
(* process_imports *)
ImportFile_plain ==
    /\ Walk("imports") /\ Refers(This, "xsl:import")
    /\ tree' = TakenIn(This)
    /\ Continue("imports", Children(This, sheet[Item(This).ref]))
    /\ UNCHANGED <<sheet, output, compiled, keys, noescape, found>>

\* what is imported is preprocessed first and then searched for imports of its own
ImportFile ==
    /\ Walk("imports") /\ Refers(This, "xsl:import")
    /\ tree' = TakenIn(This)
    /\ LET new == Children(This, sheet[Item(This).ref])
       IN  jobs' = [i \in DOMAIN new |-> Job("preprocess", new[i])]
                   \o <<Job("imported", This)>> \o Tail(jobs)
    /\ UNCHANGED <<sheet, output, compiled, keys, noescape, found>>

Imported ==
    /\ Walk("imported")
    /\ Continue("imports", tree[This].children)
    /\ UNCHANGED <<sheet, tree, output, compiled, keys, noescape, found>>

SearchImports ==
    /\ Walk("imports") /\ ~Refers(This, "xsl:import")
    /\ Continue("imports", IF Item(This).name = "xsl:import" THEN <<>> ELSE tree[This].children)
    /\ UNCHANGED <<sheet, tree, output, compiled, keys, noescape, found>>

-----------------------------------------------------------------------------
precompile_templates ==
    /\ Walk("templates")
    /\ compiled' = IF Item(This).name = "xsl:template" THEN Append(compiled, Item(This))
                   ELSE compiled
    /\ Continue("templates", tree[This].children)
    /\ UNCHANGED <<sheet, tree, output, keys, noescape, found>>

\* a new key goes in front
process_global_flags ==
    /\ Walk("flags")
    /\ keys' = IF Item(This).name = "xsl:key" THEN <<Item(This)>> \o keys ELSE keys
    /\ noescape' = IF Item(This).noescape THEN noescape \cup {This} ELSE noescape
    /\ Continue("flags", tree[This].children)
    /\ UNCHANGED <<sheet, tree, output, compiled, found>>

KeysNamed(name) == SelectSeq(keys, LAMBDA k : k.ref = name)

\* key(): the first of the list that has the name, or nothing
xf_key(name) ==
    /\ jobs = <<>>
    /\ found' = [name |-> name, key |-> IF KeysNamed(name) = <<>> THEN NULL ELSE Head(KeysNamed(name))]
    /\ UNCHANGED <<sheet, tree, jobs, output, compiled, keys, noescape>>

SheetsNext == \/ IncludeFile \/ DropBlank \/ Preprocess
              \/ ImportFile \/ Imported \/ SearchImports
              \/ precompile_templates \/ process_global_flags
              \/ \E name \in KeyNames : xf_key(name)

-----------------------------------------------------------------------------
\* the items of a file and of all that it takes in by elements of the given names,
\* in document order
RECURSIVE ItemsOf(_, _, _)
ItemsOf(items, above, by) ==
    FlattenSeq([i \in DOMAIN items |->
        LET item == items[i] IN
        IF item.name \in {"xsl:include", "xsl:import"} /\ sheet[item.ref] # NULL
        THEN IF item.name \in by THEN ItemsOf(sheet[item.ref], item.name, by) ELSE <<>>
        ELSE IF item.name = "blank" /\ above # "xsl:text" THEN <<>>
        ELSE <<item>> \o ItemsOf(item.children, item.name, by)])

All == ItemsOf(sheet[main_file], "root", {"xsl:include", "xsl:import"})
Own == ItemsOf(sheet[main_file], "root", {"xsl:include"})
Called(items, name) == SelectSeq(items, LAMBDA item : item.name = name)

RECURSIVE Standing(_)
Standing(nodes) ==
    FlattenSeq([i \in DOMAIN nodes |->
        (IF tree[nodes[i]].type = "EMPTY" THEN <<>> ELSE <<Item(nodes[i])>>)
        \o Standing(tree[nodes[i]].children)])

(* When a processor is ready its tree holds what its files say: every      *)
(* include and import is resolved, wherever it stands and whatever it      *)
(* stands in, each place once, and no blank text is left but in xsl:text;  *)
(* no template and no flag is missed or taken twice                        *)
(* (transform.c:209-312, 319-358; templates.c:497-514).                    *)
TreeIsComplete ==
    jobs = <<>> =>
        /\ Standing(<<TheSheet>>) = All
        /\ compiled = Called(All, "xsl:template")
        /\ Cardinality(noescape) = Len(SelectSeq(All, LAMBDA item : item.noescape))

(* What is nearer to the main file goes first: an imported xsl:output does *)
(* not touch the settings of the main file and its includes, and key()     *)
(* takes the definition that comes last in the document, after those that  *)
(* the imports at the top have brought in (transform.c:218-240, 347-348;   *)
(* functions.c:1140-1150).                                                 *)
NearestCounts ==
    /\ jobs = <<>> /\ Called(Own, "xsl:output") # <<>> =>
           output = Head(Called(Own, "xsl:output"))
    /\ jobs = <<>> => (output = NULL <=> Called(All, "xsl:output") = <<>>)
    /\ found # NULL =>
           LET named == SelectSeq(Called(All, "xsl:key"), LAMBDA k : k.ref = found.name)
           IN  found.key = IF named = <<>> THEN NULL ELSE Last(named)

(* The stylesheet is what its files say. *)
SheetLoaded == TreeIsComplete /\ NearestCounts
=============================================================================
