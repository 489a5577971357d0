---------------------------- MODULE MCDocuments ----------------------------
(***************************************************************************)
(* Instances of the components below and around a document: its memory,    *)
(* strings, nodes and text, what XPath selects from it and computes, and   *)
(* the picture of the tasks of a run.  They share no state, so they are    *)
(* checked side by side, one in each behaviour.                            *)
(***************************************************************************)
EXTENDS AllocatorEntry, Strings, Documents, XPathNodes, XPathFunctions, TaskGraph

VARIABLE subject \* the component that takes steps

-----------------------------------------------------------------------------
(* Documents *)
a == <<"a">>
ab == <<"a", "b">>
br == <<"br">>
MCElementNames == {a, ab, br, <<"script">>}
MCAttributeNames == {a}
MCContents == {<<"a">>, <<"<">>, <<"&", "\"">>, <<"&", "#">>, <<"a", " ">>}
MCFragments ==
    {<<"<", "a", ">", "a", "<", "/", "a", ">", "<", "b", "/", ">">>,
     <<"<", "a", ">", "<", "![CDATA[", "&", "a", ">", "]]>", "<", "!", "-->">>,
     <<"a", "<", "!--", "<", "-->", "a", "<", "![CDATA[", "&", "a", ">", "]]>">>,
     <<"<", "b", "/", ">", "<", "a", ">", "a", "<", "b", "/", ">">>}
MCTexts ==
    {<<"<", "?", "x", "?", ">", "<", "!DOCTYPE", "a", "]>",
       "<", "a", " ", "b", " ", "=", "'", "&#60;", "\"", "'", ">", "<", "!--", "<", "a", "-->", "a",
       "<", "a", "b", "/", ">", "<", "?", "a", "?", ">", "a", "<", "/", "a", ">">>,
     <<"<", " ", "a", "b", " ", "a", "=", "b", " ", "a", ">", "<", "/", "a", ">", "a">>,
     <<"<", "a", ">", "<", "![CDATA[", "]]>", "<", "b", ">", "a", "<", "/", "a", ">", "a">>,
     \* the root is closed as well; what opens then has the rest below it, or behind it
     <<"<", "a", ">", "<", "/", "a", ">", "<", "/", "root", ">", "a", "<", "b", "/", ">", "a",
       "<", "a", " ", "b", ">", "a", "<", "/", "a", ">", "a", "<", "/", "b", ">", "<", "x", ">">>,
     <<"<", "/", ">", "<", "a", ">", "<", "b", "/", ">", "<", "/", ">", "<", "b", ">", "<", "/", ">">>,
     <<"a", "<", "/", ">", "<", "a", "/", ">", "a", "<", "b", "/", ">", "<", "b", ">", "<", "/", "b", ">">>,
     \* and no more than that
     <<"<", "/", ">", "a", "<", "/", "a", ">">>,
     \* marks without an end
     <<"<", "?", "x">>, <<"<", "!DOCTYPE", "x">>, <<"<", "a", ">", "a", "<", "![CDATA[", "a">>,
     <<"<", "a", " ", "b", "=", "'", "a">>, <<"<", "a", ">", "<", "b", ">", "<", "/", "b">>,
     <<"<", "a", ">", "<", "!--", "a">>, <<"<", "a", " ", "b", "=">>, <<"<", "a", " ">>,
     \* a tag that is not left
     <<"<", "a", ">", "<", "b", " ", "<", "/", "a", ">">>, <<"<", "a", "/", "b", ">">>}
MCEmpty == {br}
MCScript == <<"script">>

-----------------------------------------------------------------------------
(* XPathNodes: elements of one name at several depths, attributes, a text, *)
(* an empty node with two children, and an element that is called root     *)
Of_(t, n, p, c, as) == [type |-> t, name |-> n, parent |-> p, children |-> c, attributes |-> as]
MCNodes ==
    <<Of_("EMPTY", "root", 0, <<2>>, <<>>), Of_("ELEMENT", "a", 1, <<3, 4, 6>>, <<7>>),
      Of_("ELEMENT", "b", 2, <<5>>, <<8>>), Of_("EMPTY", "", 2, <<9, 12>>, <<>>),
      Of_("TEXT", "", 3, <<>>, <<>>), Of_("ELEMENT", "b", 2, <<10>>, <<>>),
      Of_("ATTRIBUTE", "x", 2, <<>>, <<>>), Of_("ATTRIBUTE", "x", 3, <<>>, <<>>),
      Of_("ELEMENT", "b", 4, <<>>, <<>>), Of_("ELEMENT", "root", 6, <<11>>, <<>>),
      Of_("ELEMENT", "b", 10, <<>>, <<>>), Of_("ELEMENT", "b", 4, <<>>, <<>>)>>

MCSortKeys == {[n \in DOMAIN MCNodes |-> n % 2], [n \in DOMAIN MCNodes |-> (7 * n) % 5]}

-----------------------------------------------------------------------------
(* XPathFunctions: values of every type, among them texts that are numbers *)
(* and patterns of format-number                                           *)
Element(s) == [kind |-> "ELEMENT", text |-> s]
Attribute(s) == [kind |-> "ATTRIBUTE", text |-> s]
MCOperands ==
    {Null, Bool(TRUE), Integer(1), Integer(2), Number(950), Number(-50), Number(996), NaN}
    \cup {String(s) : s \in {<<>>, <<"a">>, <<"2">>, <<"a", "b">>, <<" ", "a", " ", " ", "b", " ">>,
                             <<"b", "a", "b", "a">>, <<"0", ".", "0">>,
                             <<"#", ",", "0", "0", ".", "0", "0">>, <<"0">>}}
    \cup {NodeSet(s) : s \in {<<>>, <<Element(<<"2">>), Element(<<"a">>)>>,
                              <<Attribute(<<"2">>), Attribute(<<"a">>)>>,
                              <<Element(<<"a">>)>>, <<Attribute(<<"a">>)>>}}
MCOperations ==
    {"=", "!=", "<", "<=", ">", ">=", "and", "or", "not", "+", "-", "*", "div",
     "mod",
     "number", "string", "boolean", "floor", "ceiling", "round", "concat", "substring",
     "contains", "starts-with", "substring-before", "substring-after", "normalize-space",
     "string-length", "translate", "count", "sum", "format-number"}

-----------------------------------------------------------------------------
MCInit ==
    /\ subject \in {"allocator", "strings", "documents", "nodes", "functions", "tasks"}
    /\ Init
    /\ subject # "allocator" => areas[1].data_size = 0
    /\ StringsInit
    /\ subject # "strings" => string = xmls_new_string(0)
    /\ DocumentsInit
    /\ NodesInit
    /\ subject # "nodes" => start = CHOOSE n \in StartNodes : TRUE
    /\ FunctionsInit
    /\ TaskGraphInit

Only(c) == subject = c /\ UNCHANGED subject

MCNext ==
    \/ /\ Only("allocator") /\ Next
       /\ UNCHANGED <<stringVars, documentVars, nodesVars, functionVars, graphVars>>
    \/ /\ Only("strings") /\ StringsNext
       /\ UNCHANGED <<vars, documentVars, nodesVars, functionVars, graphVars>>
    \/ /\ Only("documents") /\ DocumentsNext
       /\ UNCHANGED <<vars, stringVars, nodesVars, functionVars, graphVars>>
    \/ /\ Only("nodes") /\ NodesNext
       /\ UNCHANGED <<vars, stringVars, documentVars, functionVars, graphVars>>
    \/ /\ Only("functions") /\ FunctionsNext
       /\ UNCHANGED <<vars, stringVars, documentVars, nodesVars, graphVars>>
    \/ /\ Only("tasks") /\ TaskGraphNext
       /\ UNCHANGED <<vars, stringVars, documentVars, nodesVars, functionVars>>

MCVars == <<subject, vars, stringVars, documentVars, nodesVars, functionVars, graphVars>>

(* Only the parser has to go on *)
MCSpec == /\ MCInit /\ [][MCNext]_MCVars
          /\ WF_MCVars(/\ Only("documents") /\ ParserStep
                       /\ UNCHANGED <<vars, stringVars, nodesVars, functionVars, graphVars>>)
=============================================================================
