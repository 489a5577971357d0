--------------------------- MODULE XPathFunctions ---------------------------
(***************************************************************************)
(* Values and what is computed from them: the conversions and comparisons  *)
(* of rvalue.c, the operators of xpath_execute_scalar and the functions of *)
(* functions.c that XPath defines.  A text is a sequence of characters, a  *)
(* number a count of hundredths or NaN, a node set the sequence of its     *)
(* nodes' kinds and texts.                                                 *)
(***************************************************************************)
EXTENDS Integers, Sequences, FiniteSets, SequencesExt, TLC

CONSTANTS Operands,   \* the values that expressions are made of
          Operations, \* the operators and functions of an instance
          IntMax,     \* INT_MAX; a size_t holds twice as many
          MaxCalls    \* bound on nested applications

VARIABLES stack,   \* the arguments at hand, the last one last
          calls,   \* model only: applications so far
          applied  \* the last one: [operation, arguments, result]

functionVars == <<stack, calls, applied>>

Scale == 100
Value(t, n, nan, s, nodes) == [type |-> t, n |-> n, nan |-> nan, s |-> s, nodes |-> nodes]
Null == Value("NULL", 0, FALSE, <<>>, <<>>)
Bool(b) == Value("BOOL", IF b THEN 1 ELSE 0, FALSE, <<>>, <<>>)
Integer(n) == Value("INT", n, FALSE, <<>>, <<>>)
Number(n) == Value("NUMBER", n, FALSE, <<>>, <<>>)
NaN == Value("NUMBER", 0, TRUE, <<>>, <<>>)
String(s) == Value("STRING", 0, FALSE, s, <<>>)
NodeSet(nodes) == Value("NODESET", 0, FALSE, <<>>, nodes)

NoString == <<"(null)">>
None == [operation |-> "", arguments |-> <<>>, result |-> Null]

-----------------------------------------------------------------------------
(* Characters *)
Digits == {"0", "1", "2", "3", "4", "5", "6", "7", "8", "9"}
CharOf(d) == <<"0", "1", "2", "3", "4", "5", "6", "7", "8", "9">>[d + 1]
Digit == [c \in Digits |-> CHOOSE d \in 0..9 : CharOf(d) = c]
x_is_ws == {" "}

\* how many characters of S the text begins with
Span(s, S) == CHOOSE k \in 0..Len(s) : /\ \A i \in 1..k : s[i] \in S
                                       /\ k = Len(s) \/ s[k + 1] \notin S
From(s, i) == SubSeq(s, i, Len(s))
Decimal(s) == FoldLeft(LAMBDA n, c : 10 * n + Digit[c], 0, s)

RECURSIVE Natural(_)
Natural(n) == IF n < 10 THEN <<CharOf(n)>> ELSE Natural(n \div 10) \o <<CharOf(n % 10)>>

Absolute(n) == IF n < 0 THEN -n ELSE n
Signed(n, s) == (IF n < 0 THEN <<"-">> ELSE <<>>) \o s

\* "%ld", and "%f" with its six places
Places(fraction) ==
    IF fraction = 0 THEN <<>>
    ELSE <<".", CharOf(fraction \div 10), CharOf(fraction % 10), "0", "0", "0", "0">>
TextOf(n) == Signed(n, Natural(Absolute(n) \div Scale) \o Places(Absolute(n) % Scale))

\* strtod behind the check that a number begins here; the rest is not looked at
Hundredths(places) == Decimal(SubSeq(SubSeq(places, 1, Span(places, Digits)) \o <<"0", "0">>, 1, 2))
WithPlaces(s, k) ==
    IF k = 0 /\ ~IsPrefix(<<".">>, s) THEN NaN
    ELSE Number(Scale * Decimal(SubSeq(s, 1, k)) +
                IF k < Len(s) /\ s[k + 1] = "." THEN Hundredths(From(s, k + 2)) ELSE 0)
Strtod(s) == IF s # <<>> /\ Head(s) = "-"
             THEN [WithPlaces(Tail(s), Span(Tail(s), Digits)) EXCEPT !.n = -@]
             ELSE WithPlaces(s, Span(s, Digits))
SkipBlanks(s) == From(s, Span(s, x_is_ws) + 1)
NumberIn(s) == Strtod(SkipBlanks(s))

-----------------------------------------------------------------------------
(* rvalue.c *)

\* the text of a node and, unless it is a text or an attribute, of those behind it
node2string(nodes) ==
    IF Head(nodes).kind # "ELEMENT" THEN Head(nodes).text
    ELSE FlattenSeq([i \in DOMAIN nodes |-> nodes[i].text])

rval2bool(v) == CASE v.type = "STRING" -> v.s \notin {<<>>, NoString}
                  [] v.type = "NODESET" -> v.nodes # <<>>
                  [] v.type = "NUMBER" -> v.nan \/ v.n # 0
                  [] OTHER -> v.n # 0

rval2string(v) == CASE v.type = "NULL" -> NoString
                    [] v.type = "INT" -> TextOf(Scale * v.n)
                    [] v.type = "BOOL" -> IF v.n = 1 THEN <<"t", "r", "u", "e">>
                                          ELSE <<"f", "a", "l", "s", "e">>
                    [] v.type = "NUMBER" -> IF v.nan THEN <<"n", "a", "n">> ELSE TextOf(v.n)
                    [] v.type = "STRING" -> v.s
                    [] v.type = "NODESET" -> IF v.nodes = <<>> THEN NoString
                                             ELSE node2string(v.nodes)

\* of a node set the first node with its own content, if it has any
rval2number(v) ==
    CASE v.type = "NULL" -> NaN
      [] v.type \in {"BOOL", "INT"} -> Number(Scale * v.n)
      [] v.type = "NUMBER" -> v
      [] v.type = "STRING" -> IF v.s = NoString THEN Number(0) ELSE NumberIn(v.s)
      [] v.type = "NODESET" ->
            IF v.nodes = <<>> THEN NaN
            ELSE NumberIn(IF Head(v.nodes).text = <<>> THEN node2string(v.nodes)
                          ELSE Head(v.nodes).text)

Sign(a, b) == IF a.nan \/ b.nan THEN NaN
              ELSE Number(IF a.n < b.n THEN -1 ELSE IF a.n > b.n THEN 1 ELSE 0)

\* -1, 0, 1, or NaN
rval_compare(l, r) ==
    CASE l.type = "NULL" /\ r.type = "NULL" -> Number(0)
      [] l.type = "NULL" /\ r.type # "NULL" -> Number(-1)
      [] l.type # "NULL" /\ r.type = "NULL" -> Number(1)
      [] OTHER -> Sign(rval2number(l), rval2number(r))

rval_less(l, r) == rval_compare(l, r) = Number(-1)
rval_less_or_equal(l, r) == rval_compare(l, r) \in {Number(-1), Number(0)}
rval_greater(l, r) == rval_compare(l, r) = Number(1)
rval_greater_or_equal(l, r) == rval_compare(l, r) \in {Number(1), Number(0)}

SameNumber(a, b) == ~a.nan /\ ~b.nan /\ a.n = b.n

\* some member that is, or is not, the value
nodeset_equal_common(v, set, eq) ==
    \E i \in DOMAIN set.nodes :
        LET member == NodeSet(From(set.nodes, i)) IN
        \/ /\ v.type \in {"NUMBER", "INT"}
           /\ SameNumber(rval2number(v), rval2number(member)) = eq
        \/ /\ v.type = "STRING"
           /\ (v.s = rval2string(member)) = eq

rval_equal(l, r, eq) ==
    CASE l.type = "NULL" \/ r.type = "NULL" -> FALSE
      [] l.type # "NULL" /\ r.type # "NULL" /\ "BOOL" \in {l.type, r.type} ->
            (rval2bool(l) = rval2bool(r)) = eq
      [] l.type = "NODESET" /\ r.type = "NODESET" ->
            \E i \in DOMAIN l.nodes, j \in DOMAIN r.nodes :
                (node2string(From(l.nodes, i)) = node2string(From(r.nodes, j))) = eq
      [] l.type = "NODESET" /\ r.type \in {"INT", "NUMBER", "STRING"} ->
            nodeset_equal_common(r, l, eq)
      [] r.type = "NODESET" /\ l.type \in {"INT", "NUMBER", "STRING"} ->
            nodeset_equal_common(l, r, eq)
      [] l.type = "STRING" /\ r.type = "STRING" -> (l.s = r.s) = eq
      [] OTHER -> SameNumber(rval2number(l), rval2number(r)) = eq

-----------------------------------------------------------------------------
(* Operators *)
\* C's remainder has the sign of the dividend; truncated to long first
Remainder(a, b) == LET x == Absolute(a) \div Scale y == Absolute(b) \div Scale
                   IN  Scale * (IF a < 0 THEN -(x % y) ELSE x % y)

\* a div b in hundredths, where it comes out even
Quotient(a, b) == LET q == (Scale * Absolute(a)) \div Absolute(b)
                  IN  IF (a < 0) = (b < 0) THEN q ELSE -q

Arithmetic(a, operation, b) ==
    IF a.nan \/ b.nan THEN NaN
    ELSE Number(CASE operation = "+" -> a.n + b.n
                  [] operation = "-" -> a.n - b.n
                  [] operation = "*" -> (a.n * b.n) \div Scale
                  [] operation = "div" -> Quotient(a.n, b.n)
                  [] operation = "mod" -> Remainder(a.n, b.n))

-----------------------------------------------------------------------------
(* functions.c *)
Text(v) == rval2string(v)
Missing(v) == rval2string(v) = NoString

xf_tostr(args) == String(rval2string(args[1]))
xf_tonum(args) == rval2number(args[1])
xf_tobool(args) == Bool(rval2bool(args[1]))

\* NaN stays what it is
Rounded(x, Of(_)) == IF x.nan THEN NaN ELSE Number(Of(x.n))
Floor(n) == Scale * (n \div Scale)
xf_floor(args) == Rounded(rval2number(args[1]), Floor)
xf_ceil(args) == Rounded(rval2number(args[1]), LAMBDA n : -Floor(-n))
xf_round(args) == Rounded(rval2number(args[1]), LAMBDA n : Floor(n + Scale \div 2))

xf_concat(args) ==
    LET given == SelectSeq(args, LAMBDA v : ~Missing(v))
    IN  String(IF given = <<>> THEN NoString
               ELSE FlattenSeq([i \in DOMAIN given |-> Text(given[i])]))

\* int to size_t, and the sum of two ints as the processor makes it
Unsigned(i) == IF i < 0 THEN i + 4 * IntMax + 4 ELSE i
WrappedSum(i, j) == LET s == i + j IN IF s > IntMax THEN s - 2 * IntMax - 2 ELSE s

PartOf(s, start, length) ==
    IF s = NoString \/ length < 0 THEN NoString
    ELSE LET end == Unsigned(WrappedSum(start, length))
         IN  FlattenSeq([i \in DOMAIN s |-> IF i >= Unsigned(start) /\ i < end
                                            THEN <<s[i]>> ELSE <<>>])
AsInt(v) == rval2number(v).n \div Scale

xf_substr(args) ==
    String(PartOf(Text(args[1]), AsInt(args[2]),
                  IF Len(args) = 2 THEN IntMax ELSE AsInt(args[3])))

\* strstr: where the pattern begins first, 0 if nowhere
Found(s, p) ==
    LET at == {i \in 1..(Len(s) + 1) : i + Len(p) - 1 <= Len(s)
                                       /\ SubSeq(s, i, i + Len(p) - 1) = p}
    IN  IF at = {} THEN 0 ELSE CHOOSE i \in at : \A j \in at : i <= j

Both(args) == ~Missing(args[1]) /\ ~Missing(args[2])
Place(args) == IF Both(args) THEN Found(Text(args[1]), Text(args[2])) ELSE 0

xf_contains(args) == Bool(Place(args) # 0)
xf_starts(args) == Bool(Place(args) = 1)

xf_sub_before(args) ==
    String(IF Place(args) = 0 \/ Text(args[2]) = <<>> THEN NoString
           ELSE SubSeq(Text(args[1]), 1, Place(args) - 1))
xf_sub_after(args) ==
    String(IF Place(args) = 0 \/ Text(args[2]) = <<>> THEN NoString
           ELSE From(Text(args[1]), Place(args) + Len(Text(args[2]))))

\* the first blank of each run is kept, the leading and the trailing ones are not
Squeezed(s) ==
    FlattenSeq([i \in DOMAIN s |-> IF i > 1 /\ s[i] \in x_is_ws /\ s[i - 1] \in x_is_ws
                                   THEN <<>> ELSE <<s[i]>>])
Trimmed(s) == SubSeq(s, 1, Len(s) - Span(Reverse(s), x_is_ws))
xf_normalize(args) ==
    String(IF Missing(args[1]) THEN NoString ELSE Trimmed(Squeezed(SkipBlanks(Text(args[1])))))

xf_strlen(args) == Integer(IF Missing(args[1]) THEN 0 ELSE Len(Text(args[1])))

\* a character that was replaced is looked for in the rest of the pattern; the end
\* of the replacement takes a character out
xf_translate(args) ==
    LET s == Text(args[1]) pat == Text(args[2]) sub == Text(args[3]) \o <<"(end)">>
        New(c) == FoldLeft(LAMBDA v, j : IF v = pat[j] THEN sub[j] ELSE v, c,
                           [j \in DOMAIN pat |-> j])
    IN  String(IF Missing(args[1]) THEN NoString
               ELSE SelectSeq([i \in DOMAIN s |-> New(s[i])], LAMBDA c : c # "(end)"))

xf_count(args) == Integer(Len(args[1].nodes))

xf_sum(args) ==
    LET v == args[1] IN
    IF v.type # "NODESET" THEN rval2number(v)
    ELSE Number(FoldLeft(LAMBDA d, i : d + LET n == NumberIn(node2string(From(v.nodes, i)))
                                           IN  n.n,
                         0, [i \in DOMAIN v.nodes |-> i]))

\* format-number: the digits a pattern asks for, read as the code reads them
Pattern(p) ==
    LET point == Found(p, <<".">>)
        whole == IF point = 0 THEN p ELSE SubSeq(p, 1, point - 1)
        places == IF point = 0 THEN <<>> ELSE From(p, point + 1)
        Count(s, S) == Len(SelectSeq(s, LAMBDA c : c \in S))
        comma == Found(Reverse(whole), <<",">>)
    IN  [least |-> IF Count(whole, {"0"}) = 0 THEN 1 ELSE Count(whole, {"0"}),
         group |-> IF comma = 0 THEN 0 ELSE comma - 1,
         fraction |-> places # <<>>,
         leastPlaces |-> Count(places, {"0"}), mostPlaces |-> Count(places, {"0", "#"})]

Padded(s, n) == [i \in 1..(IF n > Len(s) THEN n - Len(s) ELSE 0) |-> "0"] \o s

\* the places up to the first zero at the least length, or one more than the most;
\* the last of them rounds and goes
PlacesOf(fraction, p) ==
    LET all == [i \in 1..(p.mostPlaces + 1) |-> IF i <= Len(fraction) THEN fraction[i] ELSE "0"]
    IN  IF p.leastPlaces <= p.mostPlaces /\ all[p.leastPlaces + 1] = "0"
        THEN SubSeq(all, 1, p.leastPlaces + 1) ELSE all

Increment_lost(s) ==
    LET n == Padded(Natural(Decimal(s) + 1), Len(s)) IN From(n, Len(n) - Len(s) + 1)

\* one more in the last place of a row of digits, with the carry
Increment(s) == Padded(Natural(Decimal(s) + 1), Len(s))

Grouped(s, group) ==
    IF group = 0 \/ group >= Len(s) THEN s
    ELSE FlattenSeq([i \in DOMAIN s |-> IF (Len(s) - i + 1) % group = 0 THEN <<",", s[i]>>
                                        ELSE <<s[i]>>])

\* whole digits, and the places read of which the last one rounds
RoundedUp(whole, read) ==
    IF Digit[Last(read)] >= 5 THEN Increment(whole \o Front(read)) ELSE whole \o Front(read)

WithPoint(digits, places, group) ==
    Grouped(SubSeq(digits, 1, Len(digits) - places), group) \o <<".">>
    \o From(digits, Len(digits) - places + 1)

Formatted(a, p) ==
    LET whole == Padded(Natural(a \div Scale), p.least)
        read == PlacesOf(<<CharOf((a % Scale) \div 10), CharOf(a % 10)>>, p)
    IN  IF p.fraction THEN WithPoint(RoundedUp(whole, read), Len(read) - 1, p.group)
        ELSE Grouped(whole, p.group)

FormatNumber(v, p) == String(IF v.nan THEN <<"N", "a", "N">>
                             ELSE Signed(v.n, Formatted(Absolute(v.n), p)))
xf_format(args) == FormatNumber(rval2number(args[1]), Pattern(Text(args[2])))

-----------------------------------------------------------------------------
Result(operation, a) ==
    CASE operation = "=" -> Bool(rval_equal(a[1], a[2], TRUE))
      [] operation = "!=" -> Bool(rval_equal(a[1], a[2], FALSE))
      [] operation = "<" -> Bool(rval_less(a[1], a[2]))
      [] operation = "<=" -> Bool(rval_less_or_equal(a[1], a[2]))
      [] operation = ">" -> Bool(rval_greater(a[1], a[2]))
      [] operation = ">=" -> Bool(rval_greater_or_equal(a[1], a[2]))
      [] operation = "and" -> Bool(rval2bool(a[1]) /\ rval2bool(a[2]))
      [] operation = "or" -> Bool(rval2bool(a[1]) \/ rval2bool(a[2]))
      [] operation = "not" -> Bool(~rval2bool(a[1]))
      [] operation \in {"+", "-", "*", "div", "mod"} ->
            Arithmetic(rval2number(a[1]), operation, rval2number(a[2]))
      [] operation = "number" -> xf_tonum(a)
      [] operation = "string" -> xf_tostr(a)
      [] operation = "boolean" -> xf_tobool(a)
      [] operation = "floor" -> xf_floor(a)
      [] operation = "ceiling" -> xf_ceil(a)
      [] operation = "round" -> xf_round(a)
      [] operation = "concat" -> xf_concat(a)
      [] operation = "substring" -> xf_substr(a)
      [] operation = "contains" -> xf_contains(a)
      [] operation = "starts-with" -> xf_starts(a)
      [] operation = "substring-before" -> xf_sub_before(a)
      [] operation = "substring-after" -> xf_sub_after(a)
      [] operation = "normalize-space" -> xf_normalize(a)
      [] operation = "string-length" -> xf_strlen(a)
      [] operation = "translate" -> xf_translate(a)
      [] operation = "count" -> xf_count(a)
      [] operation = "sum" -> xf_sum(a)
      [] operation = "format-number" -> xf_format(a)

Arity(operation) ==
    CASE operation \in {"not", "number", "string", "boolean", "floor", "ceiling", "round",
                        "normalize-space", "string-length", "count", "sum"} -> {1}
      [] operation \in {"concat", "substring"} -> {2, 3}
      [] operation = "translate" -> {3}
      [] OTHER -> {2}

\* the processor's divide instruction has no remainder for zero, and a long none for
\* NaN: such calls end the process.  So does a replacement that ends too early, if
\* what lies behind it cannot be read.  Products and quotients that are no hundredths,
\* and the infinities, are left to the floating point unit
Defined(operation, a) ==
    CASE operation \in {"*", "div"} ->
            LET x == rval2number(a[1]) y == rval2number(a[2])
            IN  \/ x.nan \/ y.nan
                \/ operation = "*" /\ (x.n * y.n) % Scale = 0
                \/ operation = "div" /\ y.n # 0 /\ (Scale * x.n) % Absolute(y.n) = 0
      [] operation = "mod" -> \A i \in 1..2 : ~rval2number(a[i]).nan
                                              /\ (i = 2 => Absolute(rval2number(a[i]).n) >= Scale)
      [] operation = "substring" -> \A i \in 2..Len(a) : ~rval2number(a[i]).nan
      [] operation = "translate" -> /\ \A i \in 2..3 : ~Missing(a[i])
                                    /\ Len(Text(a[2])) <= Len(Text(a[3])) + 1
      [] operation = "format-number" -> /\ a[2].type = "STRING" /\ a[2].s # <<>>
                                        /\ ToSet(a[2].s) \subseteq {"#", "0", ",", "."}
      [] OTHER -> TRUE

FunctionsInit == stack = <<>> /\ calls = 0 /\ applied = None

Push(v) == /\ Len(stack) < 3 /\ calls < MaxCalls
           /\ stack' = Append(stack, v)
           /\ UNCHANGED <<calls, applied>>

\* the arguments are evaluated, and the function or operator is applied; what it gives
\* is the first argument of the next
Apply(operation) ==
    /\ Len(stack) \in Arity(operation) /\ calls < MaxCalls
    /\ Defined(operation, stack)
    /\ applied' = [operation |-> operation, arguments |-> stack,
                   result |-> Result(operation, stack)]
    /\ stack' = <<applied'.result>>
    /\ calls' = calls + 1

FunctionsNext == \/ \E v \in Operands : Push(v)
                 \/ \E operation \in Operations : Apply(operation)

-----------------------------------------------------------------------------
(* What XPath 1.0 says.  A value that a missing variable or attribute      *)
(* gives is not among its types, and the null pointer stands for "".       *)
TextIn(v) ==
    IF v.type = "NODESET" THEN IF v.nodes = <<>> THEN <<>> ELSE Head(v.nodes).text
    ELSE IF Missing(v) THEN <<>> ELSE Text(v)

TextsIn(v) == IF v.type = "NODESET" THEN {v.nodes[i].text : i \in DOMAIN v.nodes}
            ELSE IF v.type = "STRING" THEN {TextIn(v)} ELSE {}

\* blanks, a minus, digits with at most one point among them, blanks
BareNumeral(s) == LET b == Trimmed(SkipBlanks(s))
                  IN  IF b # <<>> /\ Head(b) = "-" THEN Tail(b) ELSE b
IsNumeral(s) == LET b == BareNumeral(s)
                IN  /\ ToSet(b) \subseteq Digits \cup {"."} /\ ToSet(b) \cap Digits # {}
                    /\ Cardinality({i \in DOMAIN b : b[i] = "."}) <= 1
\* units of so many places
InHundredths(units, places) ==
    IF places > 2 THEN units \div 10^(places - 2) ELSE units * 10^(2 - places)
Magnitude(b) ==
    InHundredths(Decimal(SelectSeq(b, LAMBDA c : c # ".")),
                 IF "." \in ToSet(b) THEN Len(b) - Found(b, <<".">>) ELSE 0)
ValueOf(s) == IF IsNumeral(s)
              THEN Number((IF "-" \in ToSet(s) THEN -1 ELSE 1) * Magnitude(BareNumeral(s)))
              ELSE NaN

NumberOf(v) ==
    CASE v.type \in {"STRING", "NODESET"} -> ValueOf(TextIn(v))
      [] v.type \in {"INT", "BOOL"} -> Number(Scale * v.n)
      [] v.type = "NUMBER" -> v

BooleanOf(v) == CASE v.type = "STRING" -> TextIn(v) # <<>>
                  [] v.type = "NODESET" -> Cardinality(DOMAIN v.nodes) > 0
                  [] v.type = "NUMBER" -> ~v.nan /\ v.n # 0
                  [] v.type \in {"INT", "BOOL"} -> v.n # 0

\* the decimal digits of a whole number
WrittenAs(s, n) == LET d == IF n < 0 THEN Tail(s) ELSE s
                   IN  /\ n < 0 => Head(s) = "-"
                       /\ d # <<>> /\ ToSet(d) \subseteq Digits /\ Decimal(d) = Absolute(n)
                       /\ Len(d) > 1 => Head(d) # "0"

Scalars(v) == IF v.type = "NODESET" THEN {String(t) : t \in TextsIn(v)} ELSE {v}

EqualScalars(a, b) ==
    IF {a.type, b.type} = {"STRING"} THEN TextIn(a) = TextIn(b)
    ELSE SameNumber(NumberOf(a), NumberOf(b))

EqualAs(a, b, eq) ==
    IF "BOOL" \in {a.type, b.type} THEN (BooleanOf(a) = BooleanOf(b)) = eq
    ELSE \E x \in Scalars(a), y \in Scalars(b) : EqualScalars(x, y) = eq

LessAs(x, y, orEqual) == ~x.nan /\ ~y.nan /\ (x.n < y.n \/ (orEqual /\ x.n = y.n))

\* the remainder of a truncating division: of the sign of x, smaller than y
IsRemainder(r, x, y) == /\ Absolute(r) < Absolute(y) /\ (x - r) % Absolute(y) = 0
                        /\ r # 0 => (r < 0 <=> x < 0)

\* round(start) <= position < round(start) + round(length), for whole arguments
Cut(s, start, length) ==
    LET k == IF start > 1 THEN start ELSE 1
        end == IF length < 0 THEN Len(s) ELSE IF start + length - 1 < Len(s)
                                         THEN start + length - 1 ELSE Len(s)
    IN  IF k > end THEN <<>> ELSE SubSeq(s, k, end)

Times(v) == NumberOf(v).n \div Scale

TranslatedAs(s, pat, sub) ==
    LET First(c) == CHOOSE i \in DOMAIN pat : pat[i] = c /\ \A j \in 1..(i - 1) : pat[j] # c
    IN  FlattenSeq([i \in DOMAIN s |->
            IF s[i] \notin ToSet(pat) THEN <<s[i]>>
            ELSE IF First(s[i]) > Len(sub) THEN <<>> ELSE <<sub[First(s[i])]>>])

\* the digits that are shown, as a number of units in the last of k places
ShownAs(s) == Decimal(SelectSeq(s, LAMBDA c : c \in Digits))
RoundedTo(a, k) == CASE k = 0 -> a \div Scale
                     [] k = 1 -> (a + 5) \div 10
                     [] OTHER -> a

Separated(s, pat, before) ==
    LET at == {i \in 1..(Len(s) + 1 - Len(pat)) : SubSeq(s, i, i + Len(pat) - 1) = pat}
        i == CHOOSE i \in at : \A j \in at : i <= j
    IN  IF pat = <<>> \/ at = {} THEN <<>>
        ELSE IF before THEN SubSeq(s, 1, i - 1) ELSE From(s, i + Len(pat))

\* what r is for the arguments a, of which the first two are the numbers x and y, and the
\* texts t and u
Given(o, a, x, y, t, u, r) ==
    LET Numeric(NaNs, P) == r.type = "NUMBER" /\ (r.nan <=> NaNs) /\ (~r.nan => P)
    IN  CASE o \in {"=", "!="} -> r = Bool(EqualAs(a[1], a[2], o = "="))
          [] o \in {"<", "<="} -> r = Bool(LessAs(x, y, o = "<="))
          [] o \in {">", ">="} -> r = Bool(LessAs(y, x, o = ">="))
          [] o = "and" -> r = Bool({BooleanOf(a[1]), BooleanOf(a[2])} = {TRUE})
          [] o = "or" -> r = Bool(TRUE \in {BooleanOf(a[1]), BooleanOf(a[2])})
          [] o = "not" -> r = Bool(BooleanOf(a[1]) = FALSE)
          [] o = "boolean" -> r = Bool(BooleanOf(a[1]))
          [] o = "+" -> Numeric(x.nan \/ y.nan, r.n - y.n = x.n)
          [] o = "-" -> Numeric(x.nan \/ y.nan, r.n + y.n = x.n)
          [] o = "*" -> Numeric(x.nan \/ y.nan, Scale * r.n = x.n * y.n)
          [] o = "div" -> Numeric(x.nan \/ y.nan, r.n * y.n = Scale * x.n)
          [] o = "mod" -> Numeric(FALSE, IsRemainder(r.n, x.n, y.n))
          [] o = "number" -> r = x
          [] o = "string" -> IF a[1].type \notin {"INT", "NUMBER"}
                             THEN IF a[1].type = "BOOL"
                                  THEN TextIn(r) = IF BooleanOf(a[1]) THEN <<"t", "r", "u", "e">>
                                                   ELSE <<"f", "a", "l", "s", "e">>
                                  ELSE TextIn(r) = t
                             ELSE IF x.n % Scale = 0 THEN WrittenAs(r.s, x.n \div Scale)
                             ELSE NumberOf(r) = x
          [] o = "floor" -> Numeric(x.nan, r.n % Scale = 0 /\ r.n <= x.n /\ x.n < r.n + Scale)
          [] o = "ceiling" -> Numeric(x.nan, r.n % Scale = 0 /\ x.n <= r.n /\ r.n < x.n + Scale)
          [] o = "round" -> Numeric(x.nan, r.n % Scale = 0 /\ 2 * r.n - Scale <= 2 * x.n
                                                           /\ 2 * x.n < 2 * r.n + Scale)
          [] o = "concat" -> TextIn(r) = FlattenSeq([i \in DOMAIN a |-> TextIn(a[i])])
          [] o = "substring" ->
                TextIn(r) = Cut(t, Times(a[2]), IF Len(a) = 2 THEN -1 ELSE Times(a[3]))
          [] o = "contains" -> r = Bool(\E i, j \in 0..Len(t) : SubSeq(t, i + 1, j) = u)
          [] o = "starts-with" -> r = Bool(IsPrefix(u, t))
          [] o = "substring-before" -> TextIn(r) = Separated(t, u, TRUE)
          [] o = "substring-after" -> TextIn(r) = Separated(t, u, FALSE)
          [] o = "normalize-space" ->
                /\ \A i \in DOMAIN TextIn(r) :
                      TextIn(r)[i] = " " => i \notin {1, Len(TextIn(r))} /\ TextIn(r)[i + 1] # " "
                /\ SelectSeq(TextIn(r), LAMBDA c : c # " ") = SelectSeq(t, LAMBDA c : c # " ")
                /\ \A i \in 2..Len(t) - 1 : \* no two words are joined
                      t[i] = " " /\ Span(From(t, i), {" "}) < Len(From(t, i)) /\ Span(t, {" "}) < i =>
                          Contains(TextIn(r), " ")
          [] o = "string-length" -> NumberOf(r) = Number(Scale * Cardinality(DOMAIN t))
          [] o = "translate" -> TextIn(r) = TranslatedAs(t, u, TextIn(a[3]))
          [] o = "count" -> NumberOf(r) = Number(Scale * Cardinality(DOMAIN a[1].nodes))
          [] o = "sum" -> NumberOf(r) = Number(MapThenFoldSet(+, 0, LAMBDA i : ValueOf(a[1].nodes[i].text).n,
                                                              LAMBDA S : CHOOSE i \in S : TRUE,
                                                              DOMAIN a[1].nodes))
          [] o = "format-number" ->
                ShownAs(r.s) = RoundedTo(Absolute(x.n), Pattern(a[2].s).mostPlaces)

GivenAs(o, a, r) ==
    Given(o, a, NumberOf(a[1]), NumberOf(a[2]), TextIn(a[1]), TextIn(a[2]), r)

-----------------------------------------------------------------------------
(* Where the code differs from XPath.  strtod reads the numeral that a     *)
(* text begins with and takes the null pointer for 0; an element of a node *)
(* set takes in the texts behind it; NaN is true                           *)
ReadAlike(v) ==
    /\ v.s # NoString
    /\ \A s \in TextsIn(v) :
          \/ IsNumeral(s)
          \/ LET b == BareNumeral(s) IN b = <<>> \/ Head(b) \notin Digits \cup {"."}

SingleTexts(v) == \A i \in DOMAIN v.nodes : v.nodes[i].kind = "ELEMENT" => Len(v.nodes) = 1

IsWhole(x) == ~x.nan /\ x.n % Scale = 0
Whole(v) == IsWhole(NumberOf(v))

\* no character of the replacement is one of the pattern further on
Unchained(pat, sub) ==
    \A i \in DOMAIN pat, j \in DOMAIN pat : i < j /\ i <= Len(sub) => pat[j] # sub[i]

Alike(o, a) ==
    /\ \A i \in DOMAIN a : a[i].type # "NULL" /\ SingleTexts(a[i])
    /\ CASE o \in {"=", "!="} ->
               \A i \in 1..2 : ReadAlike(a[i]) /\ ("BOOL" \in {a[1].type, a[2].type} => ~a[i].nan)
         [] o \in {"<", "<=", ">", ">="} -> \* a node set is its first member
               \A i \in 1..2 : ReadAlike(a[i]) /\ Cardinality(Scalars(a[i])) = 1
         [] o \in {"and", "or", "not", "boolean", "string"} -> \A i \in DOMAIN a : ~a[i].nan
         [] o \in {"+", "-", "*", "div", "number", "floor", "ceiling", "round"} ->
               \A i \in DOMAIN a : ReadAlike(a[i])
         [] o = "mod" -> \A i \in 1..2 : ReadAlike(a[i]) /\ Whole(a[i])
         [] o = "substring" ->
               \A i \in 2..Len(a) : ReadAlike(a[i]) /\ Whole(a[i]) /\ Times(a[i]) >= 0
         [] o \in {"contains", "starts-with"} -> Both(a)
         [] o = "substring-after" -> TextIn(a[2]) # <<>>
         [] o = "translate" -> Unchained(TextIn(a[2]), TextIn(a[3]))
         [] o = "count" -> a[1].type = "NODESET"
         [] o = "sum" -> a[1].type = "NODESET" /\ \A s \in TextsIn(a[1]) : IsNumeral(s)
         [] o = "format-number" -> LET p == Pattern(a[2].s)
                                   IN  /\ ReadAlike(a[1]) /\ ~NumberOf(a[1]).nan
                                       /\ p.leastPlaces = p.mostPlaces /\ p.mostPlaces <= 2
         [] o \in {"concat", "substring-before", "normalize-space", "string-length"} -> TRUE

(* Each operator and function gives what XPath gives, wherever Alike says  *)
(* that the code reads its arguments as XPath does: node sets are compared *)
(* member by member, also to be different; texts are numbers with a sign,  *)
(* places and blanks; substring counts from one although start + length    *)
(* overflows, translate replaces each character once, format-number rounds *)
(* half up with the carry through all its digits                           *)
(* (rvalue.c:37-313, functions.c:160-751, xpath.c:711-848).                *)
AsXPath == applied # None /\ Alike(applied.operation, applied.arguments) =>
              GivenAs(applied.operation, applied.arguments, applied.result)
=============================================================================
