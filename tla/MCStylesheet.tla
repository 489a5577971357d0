---------------------------- MODULE MCStylesheet ----------------------------
(***************************************************************************)
(* Instances of the components that hold what a stylesheet and the         *)
(* application say, and of the list that the queue of the pool is made of: *)
(* no two of them share state, so they are checked side by side, one in    *)
(* each behaviour.                                                         *)
(***************************************************************************)
EXTENDS Dictionary, Settings, Variables, Templates, XPathSyntax, Sheets, LinkedQueue

CONSTANTS na, nb, nc, x, y

VARIABLE subject \* the component that takes steps

-----------------------------------------------------------------------------
(* Dictionary: three names, two of them in one bucket *)
MCBucket == [n \in Names |-> IF n = nc THEN 1 ELSE 0]

(* Settings: a catalogue with plural forms, one that lacks some, one in an *)
(* unknown language                                                        *)
Word(w) == [word |-> w]
MCWords == {Word(w) : w \in {"i", "t", "u", "e", "v", "one", "many"}}
MCCatalogs ==
    {[language |-> "ru_RU",
      messages |-> <<[id |-> <<Word("i")>>,
                      text |-> <<Placeholder("x"), Word("t"), Placeholder("y"), Placeholder("x")>>,
                      plural |-> <<<<Word("one")>>, <<Placeholder("x")>>, <<Word("many")>>>>],
                     [id |-> <<Word("i")>>, text |-> <<Word("u")>>, plural |-> <<>>]>>],
     [language |-> "en_US",
      messages |-> <<[id |-> <<Word("i")>>, text |-> <<Word("e")>>,
                      plural |-> <<<<Word("one")>>, <<Word("many")>>>>]>>],
     [language |-> "xx_XX", messages |-> <<>>]}

Given(name, value) == [name |-> name, value |-> <<value>>]
MCCalls ==
    {[id |-> <<Word("i")>>, n |-> n, pairs |-> pairs] :
        n \in {NULL, 1, 3, 11},
        pairs \in {<<>>, <<Given("x", Word("v")), Given("y", Placeholder("x"))>>,
                   <<Given("y", Placeholder("x")), Given("x", Word("v"))>>}}

(* Variables: the first global reads the second, which comes too late for it *)
MCGlobals == <<[name |-> x, ref |-> y], [name |-> y, ref |-> NULL]>>

(* Templates: patterns of each kind, as xpath.c compiles them *)
Step(t, n, c) == [type |-> t, name |-> n, children |-> c]
From == Step("CONTEXT", NULL, <<>>)
Top_of == Step("ROOT", NULL, <<>>)
Select(n, c) == Step("SELECT", n, <<c>>)
Filter(c, t) == [type |-> "FILTER", name |-> NULL, children |-> <<c>>, test |-> t]
MCExpression ==
    "a" :> Select("a", From)
    @@ "b/a" :> Select("a", Select("b", From))
    @@ "/b/a" :> Select("a", Select("b", Top_of))
    @@ "//a" :> Select("a", Step("DESCENDANT", NULL, <<Top_of>>))
    @@ "a[1]" :> Filter(Select("a", From), [position |-> 1])
    @@ "a[t]" :> Filter(Select("a", From), [holds |-> {1, 3}])
    @@ "b/*" :> Step("ALL", NULL, <<Select("b", From)>>)
    @@ "text()" :> Step("CALL", "text", <<>>)
    @@ "a[1]|b" :> Step("UNION", NULL, <<Filter(Select("a", From), [position |-> 1]), Select("b", From)>>)
    @@ "/" :> Top_of
    @@ "*" :> Step("ALL", NULL, <<>>)
    @@ "b[t]/a" :> Select("a", Filter(Select("b", From), [holds |-> {1, 3}]))
MCPatterns == DOMAIN MCExpression

(* <b> <a> <a/> </a> <a/> text </b> *)
InDocument(t, n, p, i) == [type |-> t, name |-> n, parent |-> p, position |-> i]
MCDocument ==
    0 :> InDocument("EMPTY", "root", NULL, 1) @@ 1 :> InDocument("ELEMENT", "b", 0, 1)
    @@ 2 :> InDocument("ELEMENT", "a", 1, 1) @@ 3 :> InDocument("ELEMENT", "a", 1, 2)
    @@ 4 :> InDocument("ELEMENT", "a", 2, 1) @@ 5 :> InDocument("TEXT", NULL, 1, 1)

Match(p, m, c) == [name |-> NULL, match |-> p, mode |-> m, content |-> c]
Named(c) == [name |-> "x", match |-> NULL, mode |-> NULL, content |-> c]
MCStylesheets ==
    {<<>>}
    \cup {<<Match(<<p>>, NULL, 1), Match(<<q>>, m, 2), Match(<<r>>, m, 3)>> :
        p, q, r \in MCPatterns, m \in Modes}
    \cup {<<Match(<<p, q>>, NULL, 1), Match(<<q, r>>, NULL, 2), Named(3), Named(4)>> :
        p, q, r \in {"a", "b/a", "*"}}

-----------------------------------------------------------------------------
(* Sheets: a main file that takes in two others, one of which takes in the *)
(* other, in every way; each of the two may be unreadable                  *)
Element(name, ref, of) == [name |-> name, ref |-> ref, noescape |-> FALSE, children |-> of]
Import(f) == Element("xsl:import", f, <<>>)
Include(f) == Element("xsl:include", f, <<>>)
Output(id) == Element("xsl:output", id, <<>>)
Key(id) == Element("xsl:key", "k", <<Element("use", id, <<>>)>>)
BlankText == Element("blank", NULL, <<>>)
Unescaped(name, of) == [Element(name, NULL, of) EXCEPT !.noescape = TRUE]
TemplateOf(of) == Element("xsl:template", NULL, of)

Maybe(item) == {<<>>, <<item>>}

MainSheets == {refs \o more \o out \o <<TemplateOf(<<BlankText, Unescaped("xsl:value-of", <<>>)>>)>> \o key :
                   refs \in {<<Import(f), other>> :
                                 f \in {"a", "b"},
                                 other \in {Import("b"), Include("b"), Include("a")}},
                   more \in Maybe(BlankText), out \in Maybe(Output("main")), key \in Maybe(Key("main"))}
SheetsA == {<<BlankText, ref, Output("a"), Key("a")>> : ref \in {Import("b"), Include("b")}} \cup {NULL}
SheetsB == {<<Output("b"), Key("b"), TemplateOf(<<Unescaped("xsl:text", <<BlankText>>), BlankText>>),
             BlankText>>, NULL}

NoSheet == [f \in {"main", "a", "b"} |-> <<>>]
MCSheets ==
    {NoSheet}
    \cup {"main" :> m @@ "a" :> a @@ "b" :> b : m \in MainSheets, a \in SheetsA, b \in SheetsB}

-----------------------------------------------------------------------------
\* the components that take no steps start from one fixed choice
Init ==
    /\ subject \in {"dictionary", "settings", "variables", "templates", "syntax", "sheets", "queue"}
    /\ IF subject = "settings" THEN TRUE ELSE content = [f \in Files |-> NULL]
    /\ IF subject = "templates" THEN TRUE ELSE rest = <<>>
    /\ IF subject = "syntax" THEN TRUE ELSE expression = Leaf("SELF", "")
    /\ IF subject = "sheets" THEN TRUE ELSE sheet = NoSheet
    /\ IF subject = "queue" THEN TRUE ELSE head = CHOOSE a \in Addresses : TRUE
    /\ LinkedInit
    /\ DictInit
    /\ SettingsInit
    /\ VariablesInit
    /\ TemplatesInit
    /\ SyntaxInit
    /\ SheetsInit

Only(c) == subject = c /\ UNCHANGED subject

Next ==
    \/ /\ Only("dictionary") /\ DictNext
       /\ UNCHANGED <<settingsVars, variableVars, templateVars, syntaxVars, sheetVars, linkedVars>>
    \/ /\ Only("settings") /\ SettingsNext
       /\ UNCHANGED <<dictVars, variableVars, templateVars, syntaxVars, sheetVars, linkedVars>>
    \/ /\ Only("variables") /\ VariablesNext
       /\ UNCHANGED <<dictVars, settingsVars, templateVars, syntaxVars, sheetVars, linkedVars>>
    \/ /\ Only("templates") /\ TemplatesNext
       /\ UNCHANGED <<dictVars, settingsVars, variableVars, syntaxVars, sheetVars, linkedVars>>
    \/ /\ Only("syntax") /\ SyntaxNext
       /\ UNCHANGED <<dictVars, settingsVars, variableVars, templateVars, sheetVars, linkedVars>>
    \/ /\ Only("sheets") /\ SheetsNext
       /\ UNCHANGED <<dictVars, settingsVars, variableVars, templateVars, syntaxVars, linkedVars>>
    \/ /\ Only("queue") /\ LinkedNext
       /\ UNCHANGED <<dictVars, settingsVars, variableVars, templateVars, syntaxVars, sheetVars>>

Spec == Init /\ [][Next]_<<subject, dictVars, settingsVars, variableVars, templateVars, syntaxVars,
                           sheetVars, linkedVars>>
=============================================================================
