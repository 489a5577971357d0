------------------------------ MODULE Documents ------------------------------
(***************************************************************************)
(* Documents as linked nodes and as text: the XMLCreate and XMLAdd         *)
(* functions of nodes.c, XMLOutput (output.c) and the parser (parse.c),    *)
(* one action for each state of do_parse's loop.  A text is a sequence of  *)
(* tokens: a part of a name, a blank, a mark or an entity each; a name is  *)
(* a sequence of the tokens in NameTokens.                                 *)
(***************************************************************************)
EXTENDS Null, Integers, Sequences, FiniteSets, SequencesExt, TLC

CONSTANTS NameTokens, ElementNames, AttributeNames,
          Contents,    \* what the application gives as text or value
          Fragments,   \* what it gives to XMLAddChildFromString
          Texts,       \* documents that come from elsewhere
          html_empty, script, \* names: those of is_html_empty_tag, and "script"
          MaxEdits,    \* bound on the calls that build the document
          MaxNodes     \* bound on the nodes where the parser adds attributes for ever

VARIABLES node,      \* the nodes, by address
          edits,     \* model only: calls so far
          text,      \* what do_parse reads
          parser,    \* its variables, NULL when it does not run
          written,   \* what XMLOutput wrote, with its mode, or NULL
          parsed     \* what XMLParse returned for it, 0 for NULL; -1 before

ASSUME DocumentsConstants ==
    \A t \in Texts : [mode |-> "elsewhere", text |-> t] # NULL

documentVars == <<node, edits, text, parser, written, parsed>>

\* addresses; the document is the first node there is
Nothing == 0
TheDocument == 1

xml_new_node(type, name) ==
    [type |-> type, name |-> name, content |-> NULL, noescape |-> FALSE, position |-> 0,
     parent |-> Nothing, prev |-> Nothing, next |-> Nothing,
     children |-> Nothing, attributes |-> Nothing]

RootNode == xml_new_node("EMPTY", <<"root">>)

DocumentsInit == /\ node = <<RootNode>> \* XMLCreateDocument
                 /\ edits = 0
                 /\ text = <<>> /\ parser = NULL
                 /\ written = NULL
                 /\ parsed = -1

NextAddress == Len(node) + 1

\* a node and those after it, of which there are at most Len(node)
Siblings(n) ==
    LET from[k \in 0..Len(node)] ==
            [m \in 0..Len(node) |-> IF k = 0 \/ m = Nothing THEN <<>>
                                    ELSE <<m>> \o from[k - 1][node[m].next]]
    IN  from[Len(node)][n]

-----------------------------------------------------------------------------
xml_add_child_unlinked(heap, parent, child) ==
    LET linked == [heap EXCEPT ![child].parent = parent]
        last == Last(Siblings(heap[parent].children))
    IN  IF heap[parent].children = Nothing THEN [linked EXCEPT ![parent].children = child]
        ELSE [linked EXCEPT ![last].next = child]

\* the list goes behind the last child; only its first node learns its parent
xml_add_child(heap, parent, child) ==
    LET linked == [heap EXCEPT ![child].parent = parent]
        last == Last(Siblings(heap[parent].children))
    IN  IF heap[parent].children = Nothing THEN [linked EXCEPT ![parent].children = child]
        ELSE [linked EXCEPT ![child].prev = last, ![last].next = child]

Elements == {n \in DOMAIN node : node[n].type = "ELEMENT"}

Edit == /\ edits < MaxEdits /\ parser = NULL /\ written = NULL
        /\ edits' = edits + 1
        /\ UNCHANGED <<written, parsed>>

XMLCreateElement(parent, name) ==
    /\ Edit
    /\ node' = xml_add_child(Append(node, xml_new_node("ELEMENT", name)), parent, NextAddress)
    /\ UNCHANGED <<text, parser>>

XMLAddText(element, content) ==
    /\ Edit
    /\ node' = xml_add_child(Append(node, [xml_new_node("TEXT", NULL) EXCEPT !.content = content]),
                             element, NextAddress)
    /\ UNCHANGED <<text, parser>>

\* the attribute goes in front of the others
XMLAddAttribute(element, name, value) ==
    /\ Edit
    /\ node' = [Append(node, [xml_new_node("ATTRIBUTE", name) EXCEPT
                                 !.content = value, !.parent = element,
                                 !.next = node[element].attributes])
                EXCEPT ![element].attributes = NextAddress]
    /\ UNCHANGED <<text, parser>>

\* use: the element that the nodes go to, or Nothing for XMLParse
do_parse(t, use) ==
    /\ text' = t
    /\ node' = Append(node, RootNode)
    /\ parser' = [use |-> use, state |-> "INIT", p |-> 1, c |-> 1, ret |-> NextAddress,
                  current |-> Nothing, attr |-> Nothing, previous |-> Nothing]

XMLAddChildFromString(element, value) == Edit /\ do_parse(value, element)

-----------------------------------------------------------------------------
\* "&#" is taken for the beginning of an entity, and stays
Quoted(content, marks) ==
    FlattenSeq([i \in DOMAIN content |->
        IF content[i] \in DOMAIN marks /\ (content[i] = "&" => i = Len(content) \/ content[i + 1] # "#")
        THEN <<marks[content[i]]>> ELSE <<content[i]>>])

add_quoted_str(content) ==
    Quoted(content, "<" :> "&lt;" @@ ">" :> "&gt;" @@ "&" :> "&amp;")

\* an attribute that was given no value has none
add_quoted_attribute_value(value) ==
    IF value = NULL THEN <<>>
    ELSE Quoted(value, "<" :> "&lt;" @@ ">" :> "&gt;" @@ "&" :> "&amp;" @@ "\"" :> "&quot;")

AttributeText(a) == <<" ">> \o node[a].name \o <<"=", "\"">>
                    \o add_quoted_attribute_value(node[a].content) \o <<"\"">>

\* raw: ctx->rawout is not zero
output_node_rec(n, mode, raw) ==
    LET output[m \in 0..Len(node), asIs \in BOOLEAN] ==
        IF m = Nothing THEN <<>>
        ELSE LET this == node[m]
                 open == <<"<">> \o this.name
                         \o FlattenSeq([i \in DOMAIN Siblings(this.attributes) |->
                                           AttributeText(Siblings(this.attributes)[i])])
                 close == <<"<", "/">> \o this.name \o <<">">>
             IN  (CASE this.type = "ELEMENT" /\ mode = "HTML" /\ this.name \in html_empty ->
                          open \o <<">">>
                    [] this.type = "ELEMENT" /\ this.children # Nothing ->
                          open \o <<">">>
                          \o output[this.children,
                                    asIs \/ (mode = "HTML" /\ this.name = script)]
                          \o close
                    [] this.type = "ELEMENT" -> IF mode = "XML" THEN open \o <<"/", ">">>
                                                ELSE open \o <<">">> \o close
                    [] this.type = "TEXT" -> IF this.noescape \/ asIs THEN this.content
                                             ELSE add_quoted_str(this.content)
                    [] OTHER -> output[this.children, asIs])
                 \o output[this.next, asIs]
    IN  output[n, raw]

\* no document type is set: what is written for one has no end that do_parse knows
XMLOutput(mode) ==
    /\ parser = NULL /\ written = NULL
    /\ written' = [mode |-> mode,
                   text |-> (IF mode = "XML" THEN <<"<", "?", "x", "?", ">", " ">> ELSE <<>>)
                            \o output_node_rec(TheDocument, mode, FALSE)]
    /\ UNCHANGED <<node, edits, text, parser, parsed>>

entities == "&lt;" :> "<" @@ "&gt;" :> ">" @@ "&amp;" :> "&" @@ "&quot;" :> "\""
            @@ "&apos;" :> "'" @@ "&#60;" :> "<"

\* a node, those after it and all below them, which are at most Len(node) links away
Descendants(n) ==
    LET from[k \in 0..Len(node)] ==
            [m \in 0..Len(node) |->
                IF k = 0 \/ m = Nothing THEN {}
                ELSE {m} \cup from[k - 1][node[m].children] \cup from[k - 1][node[m].next]]
    IN  from[Len(node)][n]

Values(as) == [i \in DOMAIN as |-> [name |-> node[as[i]].name,
                                    value |-> IF node[as[i]].content = NULL THEN <<>>
                                              ELSE node[as[i]].content]]

\* what is not written as it is read: the marks of a section that came in as CDATA, those
\* in a script, an element that HTML does not close, and "&#"
Plain(n, mode) ==
    CASE node[n].type = "TEXT" -> /\ node[n].noescape => ToSet(node[n].content) \cap ({"<"} \cup DOMAIN entities) = {}
                                  /\ \A i \in 2..Len(node[n].content) :
                                        node[n].content[i] = "#" => node[n].content[i - 1] # "&"
      [] node[n].type = "ELEMENT" ->
            /\ mode = "HTML" => node[n].name \notin html_empty \cup {script}
            /\ \A i \in DOMAIN Values(Siblings(node[n].attributes)) :
                  LET value == Values(Siblings(node[n].attributes))[i].value
                  IN  \A j \in 2..Len(value) : value[j] = "#" => value[j - 1] # "&"
      [] OTHER -> TRUE

\* what was written, or a text from elsewhere
XMLParse ==
    /\ parser = NULL /\ parsed = -1
    /\ \/ /\ written # NULL
          /\ do_parse(written.text, Nothing)
          /\ UNCHANGED written
       \/ \E t \in Texts : /\ written = NULL /\ edits = 0
                           /\ do_parse(t, Nothing)
                           /\ written' = [mode |-> "elsewhere", text |-> t]
    /\ UNCHANGED <<edits, parsed>>

-----------------------------------------------------------------------------
\* decode_entity; "&#" without a number gives "?", an unknown entity its "&"
make_unescaped_string(s) ==
    FlattenSeq([i \in DOMAIN s |->
        IF s[i] \in DOMAIN entities THEN <<entities[s[i]]>>
        ELSE IF s[i] = "&" /\ i < Len(s) /\ s[i + 1] = "#" THEN <<"?">>
        ELSE IF s[i] = "#" /\ i > 1 /\ s[i - 1] = "&" THEN <<>>
        ELSE <<s[i]>>])

Look(k) == IF k <= Len(text) THEN text[k] ELSE "(end)"

\* the first place from p on that satisfies P; one behind the text if none does
FirstFrom(p, P(_)) == CHOOSE k \in p..(Len(text) + 1) :
                         /\ k > Len(text) \/ P(k)
                         /\ \A j \in p..(k - 1) : ~P(j)

skip_spaces(p) == FirstFrom(p, LAMBDA k : text[k] # " ")
NameEnd(p) == FirstFrom(p, LAMBDA k : text[k] \notin NameTokens)
Part(p, c) == SubSeq(text, p, c - 1)

Turn(state) == /\ parser # NULL /\ parser.state = state /\ parser.p <= Len(text)
               /\ UNCHANGED <<edits, text, written, parsed>>

Goes(state, p) == parser' = [parser EXCEPT !.state = state, !.p = p]

\* where do_parse reads on behind the end of its text, or through a NULL pointer, the
\* model stops
Within(end, state) == IF end <= Len(text) THEN state ELSE "UNDEFINED"

\* a node behind previous, or as the first child of ret; there is one of the two
Insert(n) ==
    LET heap == Append(node, [n EXCEPT !.prev = parser.previous, !.parent = parser.ret])
    IN  node' = IF parser.previous # Nothing THEN [heap EXCEPT ![parser.previous].next = NextAddress]
                ELSE [heap EXCEPT ![parser.ret].children = NextAddress]

INIT == /\ Turn("INIT")
        /\ Goes(IF Look(parser.p) = "<" THEN "OPEN" ELSE "INIT", parser.p + 1)
        /\ UNCHANGED node

XMLDECL == /\ Turn("XMLDECL")
           /\ LET e == FirstFrom(parser.p, LAMBDA k : Look(k) = "?" /\ Look(k + 1) = ">")
              IN  Goes(Within(e, "INIT"), e + 2)
           /\ UNCHANGED node

DOCTYPE == /\ Turn("DOCTYPE")
           /\ LET e == FirstFrom(parser.p, LAMBDA k : Look(k) = "]>")
              IN  Goes(Within(e, "TEXT"), e + 1)
           /\ UNCHANGED node

COMMENT == /\ Turn("COMMENT")
           /\ Goes(IF Look(parser.p) = "-->" THEN "TEXT" ELSE "COMMENT", parser.p + 1)
           /\ UNCHANGED node

Marks == [mark \in {"?", "!--", "![CDATA[", "!DOCTYPE", "/"} |->
             CASE mark = "?" -> "XMLDECL"
               [] mark = "!--" -> "COMMENT"
               [] mark = "![CDATA[" -> "CDATA"
               [] mark = "!DOCTYPE" -> "DOCTYPE"
               [] mark = "/" -> "CLOSE"]

\* any other "!" ends do_parse at once; an element that opens where none is open any more,
\* because the root has been closed, goes behind what was closed last and has what follows
\* below it
OPEN ==
    /\ Turn("OPEN")
    /\ LET mark == Look(parser.p)
           begin == skip_spaces(parser.p)
           end == NameEnd(begin)
       IN  IF mark \in DOMAIN Marks THEN Goes(Marks[mark], parser.p + 1) /\ UNCHANGED node
           ELSE IF mark = "!" THEN Goes("ERROR", parser.p) /\ UNCHANGED node
           ELSE /\ Insert(xml_new_node("ELEMENT", Part(begin, end)))
                /\ parser' = [parser EXCEPT !.state = "INSIDE_TAG", !.p = skip_spaces(end),
                                            !.current = NextAddress,
                                            !.ret = IF @ = Nothing THEN NextAddress ELSE @]

Close(previous) ==
    /\ Turn("CLOSE")
    /\ LET begin == skip_spaces(parser.p)
           end == NameEnd(begin)
           mark == FirstFrom(end, LAMBDA k : Look(k) = ">")
       IN  IF parser.ret = Nothing THEN Goes("UNDEFINED", begin)
           ELSE IF IsPrefix(Part(begin, end), node[parser.ret].name)
           THEN parser' = [parser EXCEPT !.state = Within(mark, "TEXT"), !.p = mark + 1,
                                         !.previous = previous, !.ret = node[parser.ret].parent]
           ELSE Goes("ERROR", begin)
    /\ UNCHANGED node

CLOSE_unmoved == Close(parser.previous)

\* the name that is closed need only be a beginning of the name that is open, and the root,
\* which every element is in, can be closed as well
CLOSE == Close(parser.ret)

\* inside a tag, before what is neither a part of a name, a blank, "=" nor an end of the
\* tag, each turn adds an attribute without a name
Stuck == /\ parser.state = "INSIDE_TAG" /\ parser.p <= Len(text)
         /\ text[parser.p] \notin NameTokens \cup {" ", "=", ">"}
         /\ ~(text[parser.p] = "/" /\ Look(parser.p + 1) = ">")

INSIDE_TAG ==
    /\ Turn("INSIDE_TAG") /\ (Stuck => Len(node) < MaxNodes)
    /\ LET begin == skip_spaces(parser.p)
           end == NameEnd(begin)
           then == skip_spaces(end)
       IN  IF Look(parser.p) = ">"
           THEN /\ parser' = [parser EXCEPT !.state = "TEXT", !.p = @ + 1, !.ret = parser.current,
                                            !.current = Nothing, !.previous = Nothing]
                /\ UNCHANGED node
           ELSE IF Look(parser.p) = "/" /\ Look(parser.p + 1) = ">"
           THEN /\ parser' = [parser EXCEPT !.state = "TEXT", !.p = @ + 2, !.previous = parser.current]
                /\ UNCHANGED node
           ELSE /\ node' = [Append(node, [xml_new_node("ATTRIBUTE", Part(begin, end)) EXCEPT
                                             !.parent = parser.current,
                                             !.next = node[parser.current].attributes])
                            EXCEPT ![parser.current].attributes = NextAddress]
                /\ parser' = [parser EXCEPT
                        !.attr = NextAddress, !.c = end,
                        !.state = IF Look(then) = "=" THEN "ATTR_VALUE" ELSE "INSIDE_TAG",
                        !.p = IF Look(then) = "=" THEN skip_spaces(then + 1) ELSE then]

\* without a quotation mark the error is forgotten, and the tag is read on from one
\* behind the name of the attribute
ATTR_VALUE ==
    /\ Turn("ATTR_VALUE")
    /\ LET quote == Look(parser.p)
           end == FirstFrom(parser.p + 1, LAMBDA k : Look(k) = quote)
       IN  IF quote \notin {"\"", "'", "(backquote)"}
           THEN Goes("INSIDE_TAG", skip_spaces(parser.c + 1)) /\ UNCHANGED node
           ELSE IF end > Len(text) THEN Goes("UNDEFINED", end) /\ UNCHANGED node
           ELSE /\ node' = [node EXCEPT ![parser.attr].content =
                                            make_unescaped_string(Part(parser.p + 1, end))]
                /\ Goes("INSIDE_TAG", skip_spaces(end + 1))

\* an empty section is not left: its end is read as text
CDATA ==
    /\ Turn("CDATA")
    /\ LET end == FirstFrom(parser.p, LAMBDA k : Look(k) = "]]>")
       IN  IF end > parser.p
           THEN /\ Insert([xml_new_node("TEXT", NULL) EXCEPT !.content = Part(parser.p, end),
                                                             !.noescape = TRUE])
                /\ parser' = [parser EXCEPT !.state = Within(end, "TEXT"), !.p = end + 1,
                                            !.current = NextAddress, !.previous = NextAddress]
           ELSE Goes("TEXT", parser.p) /\ UNCHANGED node

TEXT_again == /\ Turn("TEXT")
              /\ Goes("TEXT", FirstFrom(parser.p, LAMBDA k : Look(k) = "<"))
              /\ UNCHANGED node

TEXT ==
    /\ Turn("TEXT")
    /\ LET end == FirstFrom(parser.p, LAMBDA k : Look(k) = "<")
       IN  IF end > parser.p
           THEN /\ Insert([xml_new_node("TEXT", NULL) EXCEPT
                              !.content = make_unescaped_string(Part(parser.p, end))])
                /\ parser' = [parser EXCEPT !.state = "INIT", !.p = end,
                                            !.current = NextAddress, !.previous = NextAddress]
           ELSE Goes("INIT", end) /\ UNCHANGED node

\* texts are not counted, nor is what stands before the node it begins with
Ordinal(first, n) ==
    LET number[m \in DOMAIN node] ==
            (IF node[m].type = "TEXT" THEN 0 ELSE 1)
            + (IF m = first \/ node[m].prev = Nothing THEN 0 ELSE number[node[m].prev])
    IN  number[n]

\* heap: the nodes, once those of the string are linked; the numbers are counted before
renumber_children(heap, n) ==
    [m \in DOMAIN heap |->
        IF m \in Descendants(n) /\ heap[m].type # "TEXT"
        THEN [heap[m] EXCEPT !.position = Ordinal(n, m)]
        ELSE heap[m]]

\* the innermost element that is open is what is returned; an element whose string
\* cannot be parsed, or has no nodes, stays as it is
DoParseEnds ==
    /\ parser # NULL /\ parser.state # "UNDEFINED"
    /\ parser.state = "ERROR" \/ parser.p > Len(text)
    /\ LET ret == IF parser.state = "ERROR" THEN Nothing ELSE parser.ret
           child == IF ret = Nothing \/ parser.use = Nothing THEN Nothing ELSE node[ret].children
           linked == IF child = Nothing THEN node ELSE xml_add_child(node, parser.use, child)
       IN  /\ node' = IF ret = Nothing THEN node ELSE renumber_children(linked, ret)
           /\ parsed' = IF parser.use = Nothing THEN ret ELSE parsed
    /\ parser' = NULL
    /\ UNCHANGED <<edits, text, written>>

ParserStep == INIT \/ XMLDECL \/ DOCTYPE \/ COMMENT \/ OPEN \/ CLOSE \/ INSIDE_TAG \/ ATTR_VALUE
              \/ CDATA \/ TEXT \/ DoParseEnds

DocumentsNext ==
    \/ \E name \in ElementNames, parent \in Elements \cup {TheDocument} : XMLCreateElement(parent, name)
    \/ \E e \in Elements, content \in Contents : XMLAddText(e, content)
    \/ \E e \in Elements, name \in AttributeNames, value \in Contents : XMLAddAttribute(e, name, value)
    \/ \E e \in Elements, value \in Fragments : XMLAddChildFromString(e, value)
    \/ \E mode \in {"XML", "HTML"} : XMLOutput(mode)
    \/ XMLParse
    \/ ParserStep

DocumentsSpec == DocumentsInit /\ [][DocumentsNext]_documentVars

-----------------------------------------------------------------------------
(* What a list of nodes says: texts that meet are one, empty ones none *)
Joined(a, b) ==
    IF a = <<>> \/ b = <<>> \/ "text" \notin DOMAIN Last(a) \/ "text" \notin DOMAIN Head(b)
    THEN a \o b
    ELSE Front(a) \o <<[text |-> Last(a).text \o Head(b).text]>> \o Tail(b)

Forest(n, turned) ==
    LET forest[m \in 0..Len(node)] ==
        IF m = Nothing THEN <<>>
        ELSE LET this == node[m]
                 attributes == Values(Siblings(this.attributes))
                 first ==
                    CASE this.type = "TEXT" -> IF this.content = <<>> THEN <<>>
                                               ELSE <<[text |-> this.content]>>
                      [] this.type = "ELEMENT" ->
                            <<[name |-> this.name,
                               attributes |-> IF turned THEN Reverse(attributes) ELSE attributes,
                               children |-> forest[this.children]]>>
                      [] OTHER -> forest[this.children]
             IN  Joined(first, forest[this.next])
    IN  forest[n]

(* A document that is written and parsed again is the same document: no    *)
(* element changes its place or its name, no text or value is lost, joined *)
(* or taken for markup, in either mode, and the attributes stand in the    *)
(* opposite order, if there is nothing in it that is written as markup     *)
(* (output.c:17-140, parse.c:107-326).                                     *)
ReadBack ==
    /\ parsed # -1 /\ written.mode # "elsewhere"
    /\ \A n \in Descendants(TheDocument) : Plain(n, written.mode)
    => parsed # Nothing /\ Forest(parsed, FALSE) = Forest(TheDocument, TRUE)

Shown == Descendants(TheDocument) \cup (IF parsed > 0 THEN Descendants(parsed) ELSE {})

(* The three ways in which a node is reached agree, in a document under    *)
(* construction as in one that was parsed, well-formed or not: the one     *)
(* behind knows the one before, and a child its parent, but for the nodes  *)
(* that came in with a string: those behind the first keep the parent they *)
(* had in the string, which is in no document (nodes.c:41-67, 150-161;     *)
(* parse.c:176-187, 196-203, 246-287).                                     *)
Linked ==
    \A n \in Shown :
        /\ node[n].children # Nothing => node[node[n].children].prev = Nothing
        /\ node[n].next # Nothing => node[node[n].next].prev = n
        /\ \A i \in DOMAIN Siblings(node[n].children) :
              LET parent == node[Siblings(node[n].children)[i]].parent
              IN  parent = n \/ parent \notin Shown

(* The parser comes to its end, unless it reads past the end of its text   *)
(* or through a NULL pointer, or meets such a place in a tag: no other     *)
(* state is left to the same place in the text for ever (parse.c:122-307). *)
ParserEnds == parser # NULL ~> parser = NULL \/ parser.state = "UNDEFINED" \/ Stuck
=============================================================================
