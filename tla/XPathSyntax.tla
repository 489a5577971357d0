---------------------------- MODULE XPathSyntax ----------------------------
(***************************************************************************)
(* xpath_compile: the recursive descent over an expression.  The text is a *)
(* sequence of tokens, as skip_ws, match and the scans of names, literals  *)
(* and numbers cut it: [is, of], a symbol, name, axis, variable, integer   *)
(* or literal.  Blanks are tokens only behind the operators that are       *)
(* words, where match looks at them.  A tree node is [type, name,          *)
(* children]; what the C code keeps in children->next stands behind the    *)
(* first child.                                                            *)
(***************************************************************************)
EXTENDS Naturals, Sequences, FiniteSets, SequencesExt, TLC

CONSTANTS StepNames,   \* names of elements, attributes and functions
          MaxOperators \* bound on the operators of an expression

VARIABLES expression,  \* the tree the author of a stylesheet has in mind
          operators    \* model only: how many operators it has

syntaxVars == <<expression, operators>>

Node(t, n, c) == [type |-> t, name |-> n, children |-> c]
Leaf(t, n) == Node(t, n, <<>>)
Context == Leaf("CONTEXT", "")
Root == Leaf("ROOT", "")

Symbol(s) == [is |-> "symbol", of |-> s]
At(ts, s) == ts # <<>> /\ Head(ts) = Symbol(s)
AtA(ts, kind) == ts # <<>> /\ Head(ts).is = kind
Parsed(t, ts) == [tree |-> t, rest |-> ts]

Malformed == Leaf("NULL", "")

-----------------------------------------------------------------------------
(* The levels of the grammar, the loosest first.  A chain has one node for *)
(* all its operands; the others pair what stands left with the next one.   *)
do_or_expr == [chain |-> TRUE, types |-> ("or" :> "OR")]
do_and_expr == [chain |-> TRUE, types |-> ("and" :> "AND")]
do_eq_expr == [chain |-> FALSE, types |-> ("=" :> "EQ" @@ "!=" :> "NE")]
do_rel_expr == [chain |-> FALSE,
                types |-> ("<=" :> "LE" @@ ">=" :> "GE" @@ "<" :> "LT" @@ ">" :> "GT")]
do_add_expr == [chain |-> FALSE, types |-> ("+" :> "ADD" @@ "-" :> "SUB")]
do_mul_expr == [chain |-> FALSE, types |-> ("*" :> "MUL" @@ "div" :> "DIV" @@ "mod" :> "MOD")]
do_union_expr == [chain |-> TRUE, types |-> ("|" :> "UNION")]

Keywords == {"or", "and", "div", "mod"}

Levels == <<do_or_expr, do_and_expr, do_eq_expr, do_rel_expr, do_add_expr, do_mul_expr,
            [chain |-> FALSE, types |-> <<>>], \* do_not_expr
            do_union_expr>>
NotLevel == 7
UnionLevel == 8

RECURSIVE Level(_, _), Further(_, _, _), Steps(_, _), Arguments(_, _)

\* one step without what it selects from; here a word is a name
do_select_expr(ts) ==
    LET after == Tail(ts) IN
    IF At(ts, "*") THEN Parsed(Leaf("ALL", ""), after)
    ELSE IF At(ts, "..") THEN Parsed(Leaf("PARENT", ""), after)
    ELSE IF At(ts, ".") THEN Parsed(Leaf("SELF", ""), after)
    ELSE IF At(ts, "/") THEN Parsed(Leaf("DESCENDANT", ""), IF At(after, "*") THEN Tail(after) ELSE ts)
    ELSE IF At(ts, "@") THEN
        IF At(after, "*") THEN Parsed(Leaf("ATTR_ALL", ""), Tail(after))
        ELSE Parsed(Leaf("ATTR", Head(after).of), Tail(after))
    ELSE IF AtA(ts, "axis") THEN
        IF At(after, "*") THEN Parsed(Leaf(Head(ts).of, ""), Tail(after))
        ELSE IF At(Tail(after), "(") \* the closing parenthesis stays
        THEN Parsed(Leaf(Head(ts).of, Head(after).of \o "()"), Tail(Tail(after)))
        ELSE Parsed(Leaf(Head(ts).of, Head(after).of), Tail(after))
    ELSE IF AtA(ts, "name") \/ (AtA(ts, "symbol") /\ Head(ts).of \in Keywords) THEN
        IF At(after, "(")
        THEN LET args == Arguments(Tail(after), <<>>)
             IN  Parsed(Node("CALL", Head(ts).of, args.list), args.rest)
        ELSE Parsed(Leaf("SELECT", Head(ts).of), after)
    ELSE Parsed(Malformed, ts)

\* never comes back where the text ends before the call does
Arguments(ts, list) ==
    IF At(ts, ")") THEN [list |-> list, rest |-> Tail(ts)]
    ELSE LET arg == Level(1, ts)
         IN  Arguments(IF At(arg.rest, ",") THEN Tail(arg.rest) ELSE arg.rest,
                       Append(list, arg.tree))

\* only a name and "//" start from something that is said: the root or the context
do_node2_expr(ts) ==
    IF ts = <<>> THEN Parsed(Malformed, ts)
    ELSE IF Head(ts).is \in {"integer", "literal", "variable"}
    THEN Parsed(Leaf(CASE Head(ts).is = "integer" -> "INT" [] Head(ts).is = "literal" -> "TEXT"
                       [] OTHER -> "VAR", Head(ts).of), Tail(ts))
    ELSE IF At(ts, "(")
    THEN LET inner == Level(1, Tail(ts))
         IN  Parsed(inner.tree, IF At(inner.rest, ")") THEN Tail(inner.rest) ELSE inner.rest)
    ELSE LET step == do_select_expr(IF At(ts, "/") THEN Tail(ts) ELSE ts)
             from == IF At(ts, "/") THEN Root ELSE Context
         IN  IF step.tree.type \in {"SELECT", "DESCENDANT"}
             THEN Parsed([step.tree EXCEPT !.children = <<from>>], step.rest)
             ELSE step

\* the steps and filters that follow
Steps(tree, ts) ==
    IF At(ts, "/")
    THEN LET step == do_select_expr(Tail(ts))
         IN  Steps([step.tree EXCEPT !.children = <<tree>>], step.rest)
    ELSE IF At(ts, "[")
    THEN LET filter == Level(1, Tail(ts))
         IN  Steps(Node("FILTER", "", <<tree, filter.tree>>),
                   IF At(filter.rest, "]") THEN Tail(filter.rest) ELSE filter.rest)
    ELSE Parsed(tree, ts)

do_node_expr(ts) == LET first == do_node2_expr(ts) IN Steps(first.tree, first.rest)

do_not_expr_greedy(ts) ==
    IF At(ts, "not")
    THEN LET inner == Level(3, Tail(ts)) IN Parsed(Node("NOT", "", <<inner.tree>>), inner.rest)
    ELSE Level(UnionLevel, ts)

do_not_expr(ts) ==
    IF At(ts, "not")
    THEN LET inner == Level(NotLevel, Tail(ts))
         IN  Parsed(Node("NOT", "", <<inner.tree>>), inner.rest)
    ELSE Level(UnionLevel, ts)

Level(level, ts) ==
    IF level > Len(Levels) THEN do_node_expr(ts)
    ELSE IF level = NotLevel THEN do_not_expr(ts)
    ELSE LET first == Level(level + 1, ts) IN Further(level, <<first.tree>>, first.rest)

\* match: the blank behind "and", "or", "div" and "mod" must be there, but a "(" will
\* do, and what is there is passed over
Fits(ts) == Head(ts).of \in Keywords => At(Tail(ts), " ") \/ At(Tail(ts), "(")
Behind(ts) == IF Head(ts).of \in Keywords THEN Tail(Tail(ts)) ELSE Tail(ts)

\* the loop of a level: the operands so far, and the text behind the last
Further(level, operands, ts) ==
    LET l == Levels[level]
    IN  IF AtA(ts, "symbol") /\ Head(ts).of \in DOMAIN l.types /\ Fits(ts)
        THEN LET type == l.types[Head(ts).of]
                 right == Level(level + 1, Behind(ts))
             IN  IF l.chain
                 THEN Further(level, Append(operands, right.tree), right.rest)
                 ELSE Further(level, <<Node(type, "", operands \o <<right.tree>>)>>, right.rest)
        ELSE Parsed(IF Len(operands) = 1 THEN Head(operands)
                    ELSE Node(l.types[CHOOSE s \in DOMAIN l.types : TRUE], "", operands), ts)

xpath_compile(ts) == Level(1, ts)

-----------------------------------------------------------------------------
(* Expressions as XPath writes them: the parentheses that its precedences  *)
(* ask for and no others.  A blank stands behind each operator that is a   *)
(* word; a tight text leaves it out where XPath does not need it           *)
Binary == "OR" :> [level |-> 1, symbol |-> "or"] @@ "AND" :> [level |-> 2, symbol |-> "and"]
    @@ "EQ" :> [level |-> 3, symbol |-> "="] @@ "NE" :> [level |-> 3, symbol |-> "!="]
    @@ "LT" :> [level |-> 4, symbol |-> "<"] @@ "LE" :> [level |-> 4, symbol |-> "<="]
    @@ "GT" :> [level |-> 4, symbol |-> ">"] @@ "GE" :> [level |-> 4, symbol |-> ">="]
    @@ "ADD" :> [level |-> 5, symbol |-> "+"] @@ "SUB" :> [level |-> 5, symbol |-> "-"]
    @@ "MUL" :> [level |-> 6, symbol |-> "*"] @@ "DIV" :> [level |-> 6, symbol |-> "div"]
    @@ "MOD" :> [level |-> 6, symbol |-> "mod"] @@ "UNION" :> [level |-> 8, symbol |-> "|"]

LevelOf(e) == IF e.type \in DOMAIN Binary THEN Binary[e.type].level
              ELSE IF e.type = "NOT" THEN NotLevel ELSE 9

RECURSIVE Written(_, _, _)

StepText(e) ==
    LET named == [is |-> "name", of |-> e.name] IN
    CASE e.type = "ALL" -> <<Symbol("*")>>
      [] e.type = "PARENT" -> <<Symbol("..")>>
      [] e.type = "SELF" -> <<Symbol(".")>>
      [] e.type = "SELECT" -> <<named>>
      [] e.type = "ATTR" -> <<Symbol("@"), named>>
      [] e.type = "ATTR_ALL" -> <<Symbol("@"), Symbol("*")>>
      [] OTHER -> <<[is |-> "axis", of |-> e.type]>> \o (IF e.name = "" THEN <<Symbol("*")>>
                                                         ELSE <<named>>)

\* the token cannot be taken for more of the word in front of it
EndsWord(token) ==
    token.is \in {"literal", "variable"} \/ token \in {Symbol(s) : s \in {"(", "@", "/", "*"}}

Operator(symbol, right, tight) ==
    (IF symbol \notin Keywords \/ (tight /\ EndsWord(Head(right))) THEN <<Symbol(symbol)>>
     ELSE <<Symbol(symbol), Symbol(" ")>>) \o right

\* what an expression looks like where one of at least this level is wanted
Written(e, level, tight) ==
    LET First == Head(e.children)
        FirstText == Written(First, 9, tight)
        bare ==
            CASE e.type \in DOMAIN Binary ->
                    LET b == Binary[e.type]
                        Operand(i) == Written(e.children[i],
                                              IF i = 1 /\ b.symbol \notin {"or", "and", "|"}
                                              THEN b.level ELSE b.level + 1, tight)
                    IN  Operand(1) \o FlattenSeq([i \in 1..(Len(e.children) - 1) |->
                                                     Operator(b.symbol, Operand(i + 1), tight)])
              [] e.type = "NOT" -> <<Symbol("not"), Symbol("(")>> \o Written(First, 1, tight)
                                   \o <<Symbol(")")>>
              [] e.type = "FILTER" -> FirstText \o <<Symbol("[")>>
                                      \o Written(e.children[2], 1, tight) \o <<Symbol("]")>>
              [] e.type = "CALL" ->
                    <<[is |-> "name", of |-> e.name], Symbol("(")>>
                    \o FlattenSeq([i \in DOMAIN e.children |->
                           (IF i = 1 THEN <<>> ELSE <<Symbol(",")>>) \o Written(e.children[i], 1, tight)])
                    \o <<Symbol(")")>>
              [] e.type = "INT" -> <<[is |-> "integer", of |-> e.name]>>
              [] e.type = "TEXT" -> <<[is |-> "literal", of |-> e.name]>>
              [] e.type = "VAR" -> <<[is |-> "variable", of |-> e.name]>>
              [] e.children = <<>> \/ e.children = <<Context>> -> StepText(e)
              [] e.type = "DESCENDANT" /\ e.name = "" ->
                    IF First = Root THEN <<Symbol("/"), Symbol("/"), Symbol("*")>>
                    ELSE FirstText \o <<Symbol("/"), Symbol("/"), Symbol("*")>>
              [] First = Root -> <<Symbol("/")>> \o StepText(e)
              [] First.type = "DESCENDANT" /\ First.name = "" /\ e.type # "ALL" -> \* a//b
                    Front(FirstText) \o StepText(e)
              [] OTHER -> FirstText \o <<Symbol("/")>> \o StepText(e)
    IN  IF LevelOf(e) < level THEN <<Symbol("(")>> \o bare \o <<Symbol(")")>> ELSE bare

-----------------------------------------------------------------------------
Simple == {Node("SELECT", n, <<from>>) : n \in StepNames, from \in {Context, Root}}
    \cup {Node("DESCENDANT", "", <<Root>>), Leaf("SELF", ""), Leaf("PARENT", ""), Leaf("ALL", ""),
          Leaf("ATTR_ALL", ""), Leaf("ANCESTOR", ""), Leaf("INT", "1"), Leaf("TEXT", "t"),
          Leaf("VAR", "v")}
    \cup {Leaf(t, n) : n \in StepNames, t \in {"ATTR", "CALL", "FOLLOWING_SIBLING"}}

\* a path may go on behind these
IsPath(e) == e.type \notin ({"INT", "TEXT", "NOT", "CALL"} \cup (DOMAIN Binary \ {"UNION"}))

SyntaxInit == expression \in Simple /\ operators = 0

Larger(e) == /\ operators < MaxOperators
             /\ operators' = operators + 1
             /\ expression' = e

Atoms == {Node("SELECT", n, <<Context>>) : n \in StepNames} \cup {Leaf("INT", "1")}

Join == \E t \in DOMAIN Binary, a \in Atoms :
           LET chains == t \in {"OR", "AND", "UNION"}
           IN  \/ Larger(IF chains /\ expression.type = t
                         THEN [expression EXCEPT !.children = Append(@, a)]
                         ELSE Node(t, "", <<expression, a>>))
               \/ Larger(Node(t, "", <<a, expression>>))

Wrap == \/ Larger(Node("NOT", "", <<expression>>))
        \/ \E n \in StepNames, a \in Atoms : \/ Larger(Node("CALL", n, <<expression, a>>))
                                             \/ Larger(Node("CALL", n, <<a, expression>>))
        \/ \E a \in Atoms : Larger(Node("FILTER", "", <<a, expression>>))

GoOn == /\ IsPath(expression)
        /\ \/ \E s \in StepNames, t \in {"SELECT", "ATTR", "FOLLOWING"} :
                 Larger(Node(t, s, <<expression>>))
           \/ \E t \in {"ALL", "PARENT", "SELF", "DESCENDANT", "ANCESTOR"} :
                 Larger(Node(t, "", <<expression>>))
           \/ \E a \in Atoms : Larger(Node("FILTER", "", <<expression, a>>))

SyntaxNext == Join \/ Wrap \/ GoOn

(* An expression that is written by the rules of XPath, with no more       *)
(* parentheses than its precedences ask for, is compiled to the tree the   *)
(* author meant, and nothing of the text is left over: operators of one    *)
(* level associate to the left, a filter binds to all of the path before   *)
(* it, and neither calls nor negations end early (xpath.c:1002-1605).      *)
(* A word that is an operator needs its blank: where XPath would do        *)
(* without, match takes the "(" for the blank or does not see the operator *)
(* (xpath.c:1015-1029), and something else is compiled or text left over.  *)
CompiledAsWritten ==
    LET written == Written(expression, 1, FALSE)
        tight == Written(expression, 1, TRUE)
        meant == Parsed(expression, <<>>)
    IN  /\ xpath_compile(written) = meant
        /\ tight # written => xpath_compile(tight) # meant
=============================================================================
