----------------------------- MODULE Variables -----------------------------
(***************************************************************************)
(* variables.c and the instructions that make scopes: the variables of one *)
(* processor over several runs.  Globals stand in an array that lives for  *)
(* one run, locals in the list of their template context; a name is looked *)
(* up in the locals first.  xsl:if, xsl:choose and the bodies of variables *)
(* work on the list of the context around them; xsl:for-each, xsl:element  *)
(* and literal elements work on a copy of it, and the copy is reversed.    *)
(***************************************************************************)
EXTENDS Null, Naturals, Sequences, SequencesExt

CONSTANTS VariableNames,
          Globals,        \* the top-level xsl:variables in their order: [name, ref],
                          \* ref the name its select reads, or NULL
          Literals,       \* values made in templates
          MaxDepth, MaxLocals, MaxRuns \* bounds: contexts, locals of a scope, runs

\* what a name can be bound to
BoundValues == [of : {"nothing"}]
               \cup [of : {"application", "document"}, run : Nat]
               \cup [of : {"template"}, literal : Literals]

ASSUME VariablesConstants ==
    /\ NULL \notin BoundValues
    /\ Globals \in Seq([name : VariableNames, ref : VariableNames \cup {NULL}])

VARIABLES vars,   \* pctx->vars: [name, value]
          run,    \* model only: number of the run, or of the last one
          at,     \* where XSLTProcess is: "idle", "precompile", "apply"
          next,   \* the global that precompile_variables takes next
          stack   \* the template contexts: [locals, parameters, fresh, bound]

variableVars == <<vars, run, at, next, stack>>

Nothing == [of |-> "nothing"]
Parameter == [of |-> "application", run |-> run]
Computed == [of |-> "document", run |-> run]
Made(v) == [of |-> "template", literal |-> v]

Unbound == [n \in VariableNames |-> NULL]

VariablesInit == /\ vars = <<>> /\ run = 0 /\ at = "idle" /\ next = 1 /\ stack = <<>>

\* the value of the first pair with the name
Lookup(list, n) ==
    LET i == SelectInSeq(list, LAMBDA p : p.name = n)
    IN  IF i = 0 THEN Nothing ELSE list[i].value

IsIn(list, n) == \E i \in DOMAIN list : list[i].name = n

\* the value of the first pair with the name replaced
Set(list, n, v) ==
    [list EXCEPT ![SelectInSeq(list, LAMBDA p : p.name = n)] = [name |-> n, value |-> v]]

Pair(n, v) == <<[name |-> n, value |-> v]>>

\* get_variable_rv
get_variable_rv(locals, n) == IF IsIn(locals, n) THEN Lookup(locals, n) ELSE Lookup(vars, n)

-----------------------------------------------------------------------------
create_variable(n) == IF IsIn(vars, n) THEN vars ELSE vars \o Pair(n, Nothing)

\* the application sets a parameter between two runs
set_ctx_global_var(n) ==
    /\ at = "idle" /\ run < MaxRuns
    /\ vars' = Set(create_variable(n), n, Parameter)
    /\ UNCHANGED <<run, at, next, stack>>

BeginRun == /\ at = "idle" /\ run < MaxRuns
            /\ run' = run + 1
            /\ at' = "precompile"
            /\ next' = 1
            /\ UNCHANGED <<vars, stack>>

\* one turn of precompile_variables: the variable exists, empty, while its
\* select is evaluated, and one that stands further down does not exist yet
precompile_variables ==
    /\ at = "precompile" /\ next <= Len(Globals)
    /\ LET g == Globals[next]
           created == create_variable(g.name)
       IN  vars' = Set(created, g.name,
                       IF g.ref = NULL THEN Computed ELSE Lookup(created, g.ref))
    /\ next' = next + 1
    /\ UNCHANGED <<run, at, stack>>

Fresh(parameters) ==
    [locals |-> <<>>, parameters |-> parameters, fresh |-> TRUE, bound |-> Unbound]

ApplyRoot == /\ at = "precompile" /\ next > Len(Globals)
             /\ at' = "apply"
             /\ stack' = <<Fresh(<<>>)>>
             /\ UNCHANGED <<vars, run, next>>

free_variables == /\ at = "apply" /\ Len(stack) = 1
                  /\ at' = "idle"
                  /\ vars' = <<>>
                  /\ stack' = <<>>
                  /\ UNCHANGED <<run, next>>

-----------------------------------------------------------------------------
Top == Last(stack)

Scope(locals, n, v, fresh) ==
    stack' = Front(stack) \o
        <<[locals |-> locals, parameters |-> Top.parameters, fresh |-> fresh,
           bound |-> [Top.bound EXCEPT ![n] = v]]>>

\* do_local_var: a name that the list has gets a new value in its place.  A new
\* name is in the list, empty, before its select is evaluated
Declared(n) == IF IsIn(Top.locals, n) THEN Top.locals ELSE Pair(n, Nothing) \o Top.locals

do_local_var_twice(n, v, fresh) == Scope(Top.locals \o Pair(n, v), n, v, fresh)

do_local_var(n, v, fresh) == Scope(Set(Declared(n), n, v), n, v, fresh)

\* add_local_var: the parameter in front of the list, whatever the list holds
add_local_var(n) ==
    IF IsIn(Top.parameters, n)
    THEN LET v == Lookup(Top.parameters, n) IN Scope(Pair(n, v) \o Top.locals, n, v, TRUE)
    ELSE UNCHANGED stack

InTemplate == /\ at = "apply"
              /\ UNCHANGED <<vars, run, at, next>>

Room(n) == Len(Top.locals) < MaxLocals \/ IsIn(Top.locals, n)

\* xsl:variable with a value of its own, or with the value of another variable
instruction_variable(n) ==
    /\ InTemplate /\ Room(n)
    /\ \/ \E v \in Literals : do_local_var(n, Made(v), FALSE)
       \/ \E m \in VariableNames : do_local_var(n, get_variable_rv(Declared(n), m), FALSE)

\* xsl:param; a stylesheet has its parameters first in a template, each once
\* (after a second one of a name, or after a variable of the name, the list holds
\* the name twice, and the reversed copy brings the older value to the front)
instruction_param(n, has_default, v) ==
    /\ InTemplate /\ Room(n) /\ Top.fresh /\ ~IsIn(Top.locals, n)
    /\ IF ~IsIn(Top.parameters, n) /\ has_default
       THEN do_local_var(n, Made(v), TRUE)
       ELSE add_local_var(n)

\* each pair that is copied goes in front of those before it
copy_variables(locals) == Reverse(locals)

\* a turn of xsl:for-each, xsl:element, a literal element, the default rule
Nested == /\ InTemplate /\ Len(stack) < MaxDepth
          /\ stack' = Append(stack,
                 [locals |-> copy_variables(Top.locals), parameters |-> Top.parameters,
                  fresh |-> FALSE, bound |-> Top.bound])

\* the xsl:with-param elements of a call: none, or one
WithParams == {<<>>} \cup {Pair(n, Made(v)) : n \in VariableNames, v \in Literals}
              \cup {Pair(n, get_variable_rv(Top.locals, m)) : n, m \in VariableNames}

\* xsl:call-template: the parameters of the call and no others
instruction_call_template ==
    /\ InTemplate /\ Len(stack) < MaxDepth
    /\ \E p \in WithParams : stack' = Append(stack, Fresh(p))

\* xsl:apply-templates: without xsl:with-param the caller's parameters go on
instruction_apply_templates ==
    /\ InTemplate /\ Len(stack) < MaxDepth
    /\ \E p \in WithParams :
          stack' = Append(stack, Fresh(IF p = <<>> THEN Top.parameters ELSE p))

Leave == /\ InTemplate /\ Len(stack) > 1
         /\ stack' = Front(stack)

VariablesNext ==
    \/ \E n \in VariableNames : set_ctx_global_var(n)
    \/ BeginRun \/ precompile_variables \/ ApplyRoot \/ free_variables
    \/ \E n \in VariableNames : instruction_variable(n)
    \/ \E n \in VariableNames, has_default \in BOOLEAN, v \in Literals :
           instruction_param(n, has_default, v)
    \/ Nested
    \/ instruction_call_template \/ instruction_apply_templates \/ Leave

VariablesSpec == VariablesInit /\ [][VariablesNext]_variableVars

-----------------------------------------------------------------------------
(* What an expression reads under a name is what the xsl:variable or       *)
(* xsl:param that came last in its template bound it to, through any       *)
(* number of nested copies, and outside of any the global: a scope neither *)
(* leaks into the context that it was copied from, nor does the order of   *)
(* the copy bring an older value back (variables.c:137-155, 251-279).      *)
InnermostBinding ==
    \A i \in DOMAIN stack : \A n \in VariableNames :
        get_variable_rv(stack[i].locals, n) =
            IF stack[i].bound[n] # NULL THEN stack[i].bound[n] ELSE Lookup(vars, n)

(* A global holds what this run computed from its own document, or what    *)
(* the application set after the run before; nothing of an earlier run,    *)
(* whose document may be gone, is ever read (variables.c:20-29, 90-114).   *)
GlobalsOfThisRun ==
    \A i \in DOMAIN vars :
        LET v == vars[i].value IN
        /\ v.of = "document" => v.run = run /\ at # "idle"
        /\ v.of = "application" => v.run = IF at = "idle" THEN run ELSE run - 1

(* What is read is what is in scope: the innermost binding of this run.    *)
BindingsAreCurrent == InnermostBinding /\ GlobalsOfThisRun
=============================================================================
