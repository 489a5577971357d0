-------------------------- MODULE StylesheetProofs --------------------------
(***************************************************************************)
(* Proofs about Variables, for any stylesheet, any depth of contexts and   *)
(* any number of runs, and about Settings, for any tables, catalogues and  *)
(* calls.                                                                  *)
(*                                                                         *)
(* A list of variables has a name once, so the first pair of a name is the *)
(* only one: then a new pair may stand at either end, a list may be        *)
(* reversed, and what is read stays what was bound.  Listed says so of     *)
(* every list, Mirrors that the list of a context holds the bindings of    *)
(* its template and nothing else, OfThisRun that the globals are of this   *)
(* run.                                                                    *)
(*                                                                         *)
(* Texts are computed by recursive functions.  That there are such         *)
(* functions, and what holds of their values, is shown by AllNumbers,      *)
(* induction over a set of numbers.                                        *)
(***************************************************************************)
EXTENDS Settings, Variables, TLAPS, SequenceTheorems, WellFoundedInduction

Pairs == [name : VariableNames, value : BoundValues]

(* Lists that have a name once.                                            *)
Lists == {list \in Seq(Pairs) :
              \A i, j \in 1..Len(list) : list[i].name = list[j].name => i = j}

Positions(list, n) == {i \in 1..Len(list) : list[i].name = n}

Has(list, n, v) == \E i \in 1..Len(list) : list[i].name = n /\ list[i].value = v

Bindings == [VariableNames -> BoundValues \cup {NULL}]

Mirrors(list, bound) ==
    \A n \in VariableNames : \A v \in BoundValues : Has(list, n, v) <=> bound[n] = v

Contexts == {c \in [locals : Lists, parameters : Lists, fresh : BOOLEAN, bound : Bindings] :
                 Mirrors(c.locals, c.bound)}

(* A value of an earlier run is none that a global may have.               *)
OfThisRun(v, r, where) ==
    /\ v.of = "document" => v.run = r /\ where # "idle"
    /\ v.of = "application" => v.run = IF where = "idle" THEN r ELSE r - 1

GlobalsListed ==
    /\ vars \in Lists
    /\ \A i \in 1..Len(vars) : OfThisRun(vars[i].value, run, at)

VariablesInv ==
    /\ run \in Nat
    /\ at \in {"idle", "precompile", "apply"}
    /\ next \in Nat \ {0}
    /\ stack \in Seq(Contexts)
    /\ at = "apply" => Len(stack) >= 1
    /\ GlobalsListed

-----------------------------------------------------------------------------
(* Lists.                                                                  *)

LEMMA ListTyped ==
  ASSUME NEW list \in Lists
  PROVE  /\ list \in Seq(Pairs)
         /\ Len(list) \in Nat
         /\ DOMAIN list = 1..Len(list)
         /\ \A i \in 1..Len(list) : list[i] \in Pairs
         /\ \A i \in 1..Len(list) : list[i].name \in VariableNames /\ list[i].value \in BoundValues
<1>1. list \in Seq(Pairs)
  BY DEF Lists
<1>2. \A p \in Pairs : p.name \in VariableNames /\ p.value \in BoundValues
  BY DEF Pairs
<1> QED
  BY <1>1, <1>2

(***************************************************************************)
(* The first pair of a name is its only one.                               *)
(***************************************************************************)
LEMMA FirstIsOnly ==
  ASSUME NEW list \in Lists, NEW i \in 1..Len(list), NEW n, list[i].name = n
  PROVE  /\ Positions(list, n) # {}
         /\ Min(Positions(list, n)) = i
<1>1. Positions(list, n) = {i}
  BY DEF Lists, Positions
<1> QED
  BY <1>1 DEF Min

LEMMA NoneFound ==
  ASSUME NEW list \in Lists, NEW n, ~IsIn(list, n)
  PROVE  Positions(list, n) = {}
  BY ListTyped DEF IsIn, Positions

(***************************************************************************)
(* What the list has under a name is what is read under it                 *)
(* (variables.c:137-155).                                                  *)
(***************************************************************************)
LEMMA ReadsWhatItHas ==
  ASSUME NEW list \in Lists, NEW n, NEW v, Has(list, n, v)
  PROVE  IsIn(list, n) /\ Lookup(list, n) = v
<1>1. PICK i \in 1..Len(list) : list[i].name = n /\ list[i].value = v
  BY DEF Has
<1>2. Positions(list, n) # {} /\ Min(Positions(list, n)) = i
  BY <1>1, FirstIsOnly
<1>3. IsIn(list, n)
  BY <1>1, ListTyped DEF IsIn
<1>4. i # 0
  BY ListTyped
<1>5. Lookup(list, n) = list[i].value
  BY <1>2, <1>4 DEF Lookup, SelectInSeq, Positions
<1> QED
  BY <1>1, <1>3, <1>5

LEMMA NothingIsValue == Nothing \in BoundValues /\ Nothing.of = "nothing"
  BY DEF Nothing, BoundValues

LEMMA ReadIsValue ==
  ASSUME NEW list \in Lists, NEW n
  PROVE  /\ Lookup(list, n) \in BoundValues
         /\ IsIn(list, n) => Has(list, n, Lookup(list, n))
         /\ ~IsIn(list, n) => Lookup(list, n) = Nothing
<1>1. CASE IsIn(list, n)
  <2>1. PICK i \in 1..Len(list) : list[i].name = n
    BY <1>1, ListTyped DEF IsIn
  <2>2. Has(list, n, list[i].value)
    BY <2>1 DEF Has
  <2>3. Lookup(list, n) = list[i].value
    BY <2>2, ReadsWhatItHas
  <2> QED
    BY <1>1, <2>2, <2>3, ListTyped
<1>2. CASE ~IsIn(list, n)
  <2>1. Lookup(list, n) = Nothing
    BY <1>2, NoneFound DEF Lookup, SelectInSeq, Positions
  <2> QED
    BY <1>2, <2>1, NothingIsValue
<1> QED
  BY <1>1, <1>2

(***************************************************************************)
(* A value that is replaced is the only one that changes                   *)
(* (variables.c:174-181).                                                  *)
(***************************************************************************)
LEMMA SetList ==
  ASSUME NEW list \in Lists, NEW n \in VariableNames, NEW v \in BoundValues, IsIn(list, n)
  PROVE  /\ Set(list, n, v) \in Lists
         /\ Len(Set(list, n, v)) = Len(list)
         /\ \A i \in 1..Len(list) : /\ Set(list, n, v)[i].name = list[i].name
                                    /\ Set(list, n, v)[i].value =
                                           IF list[i].name = n THEN v ELSE list[i].value
<1>1. PICK i \in 1..Len(list) : list[i].name = n
  BY ListTyped DEF IsIn
<1> DEFINE p == [name |-> n, value |-> v]
           new == [list EXCEPT ![i] = p]
<1>2. Positions(list, n) # {} /\ Min(Positions(list, n)) = i
  BY <1>1, FirstIsOnly
<1>3. Set(list, n, v) = new
  BY <1>2 DEF Set, SelectInSeq, Positions
<1>4. p \in Pairs /\ p.name = n /\ p.value = v
  BY DEF Pairs
<1> HIDE DEF p
<1>5. list \in Seq(Pairs) /\ DOMAIN list = 1..Len(list) /\ Len(list) \in Nat
  BY ListTyped
<1>6. /\ new \in Seq(Pairs) /\ Len(new) = Len(list)
      /\ \A k \in 1..Len(list) : new[k] = IF k = i THEN p ELSE list[k]
  BY <1>4, <1>5, ExceptSeq
<1> HIDE DEF new
<1>7. \A k \in 1..Len(list) : new[k].name = list[k].name
  BY <1>1, <1>4, <1>6
<1>8. new \in Lists
  BY <1>6, <1>7 DEF Lists
<1>9. \A k \in 1..Len(list) : new[k].value = IF list[k].name = n THEN v ELSE list[k].value
  BY <1>1, <1>4, <1>6 DEF Lists
<1> QED
  BY <1>3, <1>6, <1>7, <1>8, <1>9

LEMMA SetHas ==
  ASSUME NEW list \in Lists, NEW n \in VariableNames, NEW v \in BoundValues, IsIn(list, n)
  PROVE  \A m \in VariableNames : \A w \in BoundValues :
             Has(Set(list, n, v), m, w) <=> IF m = n THEN w = v ELSE Has(list, m, w)
<1>1. PICK i \in 1..Len(list) : list[i].name = n
  BY ListTyped DEF IsIn
<1> DEFINE new == Set(list, n, v)
<1>2. /\ Len(new) = Len(list)
      /\ \A k \in 1..Len(list) : /\ new[k].name = list[k].name
                                 /\ new[k].value = IF list[k].name = n THEN v ELSE list[k].value
  BY SetList
<1> HIDE DEF new
<1>3. ASSUME NEW m \in VariableNames, NEW w \in BoundValues
      PROVE  Has(new, m, w) <=> IF m = n THEN w = v ELSE Has(list, m, w)
  <2>1. CASE m = n
    BY <1>1, <1>2, <2>1 DEF Has
  <2>2. CASE m # n
    BY <1>2, <2>2 DEF Has
  <2> QED
    BY <2>1, <2>2
<1> QED
  BY <1>3 DEF new

(***************************************************************************)
(* A new name may stand at either end of a list (variables.c:39-53,        *)
(* 178-182, 213-220).                                                      *)
(***************************************************************************)
LEMMA PairIs ==
  ASSUME NEW n \in VariableNames, NEW v \in BoundValues
  PROVE  /\ Pair(n, v) \in Seq(Pairs) /\ Len(Pair(n, v)) = 1
         /\ Pair(n, v)[1].name = n /\ Pair(n, v)[1].value = v
  BY DEF Pair, Pairs

LEMMA NewInFront ==
  ASSUME NEW list \in Lists, NEW n \in VariableNames, NEW v \in BoundValues, ~IsIn(list, n)
  PROVE  /\ Pair(n, v) \o list \in Lists
         /\ IsIn(Pair(n, v) \o list, n)
         /\ \A m \in VariableNames : \A w \in BoundValues :
                Has(Pair(n, v) \o list, m, w) <=> IF m = n THEN w = v ELSE Has(list, m, w)
<1> DEFINE p == Pair(n, v)
           new == p \o list
<1>1. p \in Seq(Pairs) /\ Len(p) = 1 /\ p[1].name = n /\ p[1].value = v
  BY PairIs
<1>2. list \in Seq(Pairs) /\ Len(list) \in Nat /\ \A i \in 1..Len(list) : list[i].name # n
  BY ListTyped DEF IsIn
<1> HIDE DEF p
<1>20. /\ new \in Seq(Pairs) /\ Len(new) = Len(p) + Len(list)
      /\ \A i \in 1..Len(p) + Len(list) : new[i] = IF i <= Len(p) THEN p[i] ELSE list[i - Len(p)]
  BY <1>1, <1>2, ConcatProperties
<1> HIDE DEF new
<1>3. /\ new \in Seq(Pairs) /\ Len(new) = Len(list) + 1
      /\ new[1] = p[1]
      /\ \A i \in 2..Len(list) + 1 : new[i] = list[i - 1]
  BY <1>1, <1>2, <1>20
<1>4. \A i \in 1..Len(list) : new[i + 1] = list[i]
  BY <1>2, <1>3
<1>5. ASSUME NEW i \in 1..Len(new), NEW j \in 1..Len(new), new[i].name = new[j].name
      PROVE  i = j
  <2>1. CASE i = 1 /\ j # 1
    <3>1. j - 1 \in 1..Len(list) /\ new[j] = list[j - 1]
      BY <1>2, <1>3, <2>1
    <3> QED
      BY <1>1, <1>2, <1>3, <1>5, <2>1, <3>1
  <2>2. CASE i # 1 /\ j = 1
    <3>1. i - 1 \in 1..Len(list) /\ new[i] = list[i - 1]
      BY <1>2, <1>3, <2>2
    <3> QED
      BY <1>1, <1>2, <1>3, <1>5, <2>2, <3>1
  <2>3. CASE i # 1 /\ j # 1
    <3>1. /\ i - 1 \in 1..Len(list) /\ new[i] = list[i - 1]
          /\ j - 1 \in 1..Len(list) /\ new[j] = list[j - 1]
      BY <1>2, <1>3, <2>3
    <3>2. i - 1 = j - 1
      BY <1>5, <3>1 DEF Lists
    <3> QED
      BY <1>2, <1>3, <3>2
  <2> QED
    BY <2>1, <2>2, <2>3
<1>6. new \in Lists
  BY <1>3, <1>5 DEF Lists
<1>7. 1 \in 1..Len(new)
  BY <1>2, <1>3
<1>8. IsIn(new, n)
  BY <1>1, <1>3, <1>6, <1>7, ListTyped DEF IsIn
<1>9. ASSUME NEW m \in VariableNames, NEW w \in BoundValues
      PROVE  Has(new, m, w) <=> IF m = n THEN w = v ELSE Has(list, m, w)
  <2>1. ASSUME Has(new, m, w) PROVE (m = n /\ w = v) \/ Has(list, m, w)
    <3>1. PICK i \in 1..Len(new) : new[i].name = m /\ new[i].value = w
      BY <2>1 DEF Has
    <3>2. CASE i = 1
      BY <1>1, <1>3, <3>1, <3>2
    <3>3. CASE i # 1
      <4>1. i - 1 \in 1..Len(list) /\ new[i] = list[i - 1]
        BY <1>2, <1>3, <3>3
      <4> QED
        BY <3>1, <4>1 DEF Has
    <3> QED
      BY <3>2, <3>3
  <2>2. ASSUME m = n, w = v PROVE Has(new, m, w)
    BY <1>1, <1>3, <1>7, <2>2 DEF Has
  <2>3. ASSUME Has(list, m, w) PROVE m # n /\ Has(new, m, w)
    <3>1. PICK i \in 1..Len(list) : list[i].name = m /\ list[i].value = w
      BY <2>3 DEF Has
    <3>2. i + 1 \in 1..Len(new) /\ new[i + 1] = list[i]
      BY <1>2, <1>3, <1>4
    <3> QED
      BY <1>2, <3>1, <3>2 DEF Has
  <2> QED
    BY <2>1, <2>2, <2>3
<1> QED
  BY <1>6, <1>8, <1>9 DEF new, p

LEMMA NewAtTheEnd ==
  ASSUME NEW list \in Lists, NEW n \in VariableNames, NEW v \in BoundValues, ~IsIn(list, n)
  PROVE  /\ list \o Pair(n, v) \in Lists
         /\ IsIn(list \o Pair(n, v), n)
         /\ Len(list \o Pair(n, v)) = Len(list) + 1
         /\ \A i \in 1..Len(list) : (list \o Pair(n, v))[i] = list[i]
         /\ (list \o Pair(n, v))[Len(list) + 1].value = v
<1> DEFINE p == Pair(n, v)
           new == list \o p
<1>1. p \in Seq(Pairs) /\ Len(p) = 1 /\ p[1].name = n /\ p[1].value = v
  BY PairIs
<1>2. list \in Seq(Pairs) /\ Len(list) \in Nat /\ \A i \in 1..Len(list) : list[i].name # n
  BY ListTyped DEF IsIn
<1> HIDE DEF p
<1>20. /\ new \in Seq(Pairs) /\ Len(new) = Len(list) + Len(p)
      /\ \A i \in 1..Len(list) + Len(p) : new[i] = IF i <= Len(list) THEN list[i] ELSE p[i - Len(list)]
  BY <1>1, <1>2, ConcatProperties
<1> HIDE DEF new
<1>3. /\ new \in Seq(Pairs) /\ Len(new) = Len(list) + 1
      /\ new[Len(list) + 1] = p[1]
      /\ \A i \in 1..Len(list) : new[i] = list[i]
  BY <1>1, <1>2, <1>20
<1>4. \A i, j \in 1..Len(new) : new[i].name = new[j].name => i = j
  <2>1. \A i \in 1..Len(new) : i \in 1..Len(list) \/ i = Len(list) + 1
    BY <1>2, <1>3
  <2> QED
    BY <1>1, <1>2, <1>3, <2>1 DEF Lists
<1>5. new \in Lists
  BY <1>3, <1>4 DEF Lists
<1>6. Len(list) + 1 \in 1..Len(new)
  BY <1>2, <1>3
<1>7. IsIn(new, n)
  BY <1>1, <1>3, <1>5, <1>6, ListTyped DEF IsIn
<1> QED
  BY <1>1, <1>3, <1>5, <1>7 DEF new, p

(***************************************************************************)
(* The copy of a list has the same pairs, in whatever order                *)
(* (variables.c:251-279).                                                  *)
(***************************************************************************)
LEMMA CopyHasTheSame ==
  ASSUME NEW list \in Lists
  PROVE  /\ copy_variables(list) \in Lists
         /\ \A n \in VariableNames : \A v \in BoundValues :
                Has(copy_variables(list), n, v) <=> Has(list, n, v)
<1> DEFINE new == copy_variables(list)
           k(i) == (Len(list) - i) + 1
<1>1. list \in Seq(Pairs) /\ Len(list) \in Nat
  BY ListTyped
<1>2. new = [i \in 1..Len(list) |-> list[k(i)]]
  BY DEF copy_variables, Reverse
<1>3. \A i \in 1..Len(list) : k(i) \in 1..Len(list) /\ k(k(i)) = i
  BY <1>1
<1>4. new \in Seq(Pairs) /\ Len(new) = Len(list)
  BY <1>1, <1>2, <1>3
<1> HIDE DEF new
<1>5. \A i \in 1..Len(list) : new[i] = list[k(i)]
  BY <1>2
<1>6. \A i, j \in 1..Len(list) : k(i) = k(j) => i = j
  BY <1>1
<1> HIDE DEF k
<1>7. \A i, j \in 1..Len(new) : new[i].name = new[j].name => i = j
  BY <1>3, <1>4, <1>5, <1>6 DEF Lists
<1>8. new \in Lists
  BY <1>4, <1>7 DEF Lists
<1>9. \A i \in 1..Len(list) : list[i] = new[k(i)]
  BY <1>3, <1>5
<1>10. \A n \in VariableNames : \A v \in BoundValues : Has(new, n, v) <=> Has(list, n, v)
  BY <1>3, <1>4, <1>5, <1>9 DEF Has
<1> QED
  BY <1>8, <1>10 DEF new

-----------------------------------------------------------------------------
(* The globals.                                                            *)

LEMMA NothingIsOfThisRun ==
  ASSUME NEW r, NEW where
  PROVE  OfThisRun(Nothing, r, where)
  BY NothingIsValue DEF OfThisRun

(***************************************************************************)
(* A global that is created is empty, and one that exists stays as it is   *)
(* (variables.c:31-54).                                                    *)
(***************************************************************************)
LEMMA CreatedIsListed ==
  ASSUME GlobalsListed, NEW n \in VariableNames
  PROVE  /\ create_variable(n) \in Lists
         /\ IsIn(create_variable(n), n)
         /\ \A i \in 1..Len(create_variable(n)) : OfThisRun(create_variable(n)[i].value, run, at)
<1>1. vars \in Lists /\ Len(vars) \in Nat
  BY ListTyped DEF GlobalsListed
<1>2. CASE IsIn(vars, n)
  BY <1>1, <1>2 DEF create_variable, GlobalsListed
<1>3. CASE ~IsIn(vars, n)
  <2> DEFINE new == vars \o Pair(n, Nothing)
  <2>1. /\ new \in Lists /\ IsIn(new, n) /\ Len(new) = Len(vars) + 1
        /\ \A i \in 1..Len(vars) : new[i] = vars[i]
        /\ new[Len(vars) + 1].value = Nothing
    BY <1>1, <1>3, NewAtTheEnd, NothingIsValue
  <2>2. create_variable(n) = new
    BY <1>3 DEF create_variable
  <2> HIDE DEF new
  <2>3. \A i \in 1..Len(new) : i \in 1..Len(vars) \/ i = Len(vars) + 1
    BY <1>1, <2>1
  <2>4. \A i \in 1..Len(new) : OfThisRun(new[i].value, run, at)
    BY <2>1, <2>3, NothingIsOfThisRun DEF GlobalsListed
  <2> QED
    BY <2>1, <2>2, <2>4
<1> QED
  BY <1>2, <1>3

LEMMA GlobalIsSet ==
  ASSUME GlobalsListed, NEW n \in VariableNames, NEW v \in BoundValues, OfThisRun(v, run, at)
  PROVE  /\ Set(create_variable(n), n, v) \in Lists
         /\ \A i \in 1..Len(Set(create_variable(n), n, v)) :
                OfThisRun(Set(create_variable(n), n, v)[i].value, run, at)
<1> DEFINE created == create_variable(n)
           new == Set(created, n, v)
<1>1. created \in Lists /\ IsIn(created, n)
      /\ \A i \in 1..Len(created) : OfThisRun(created[i].value, run, at)
  BY CreatedIsListed
<1> HIDE DEF created
<1>2. /\ new \in Lists /\ Len(new) = Len(created)
      /\ \A i \in 1..Len(created) :
             new[i].value = IF created[i].name = n THEN v ELSE created[i].value
  BY <1>1, SetList
<1> HIDE DEF new
<1>3. \A i \in 1..Len(new) : OfThisRun(new[i].value, run, at)
  BY <1>1, <1>2
<1> QED
  BY <1>2, <1>3 DEF new, created

(* What a select reads of the globals is of this run.                      *)
LEMMA GlobalRead ==
  ASSUME GlobalsListed, NEW n \in VariableNames, NEW m
  PROVE  /\ Lookup(create_variable(n), m) \in BoundValues
         /\ OfThisRun(Lookup(create_variable(n), m), run, at)
<1> DEFINE created == create_variable(n)
<1>1. created \in Lists
      /\ \A i \in 1..Len(created) : OfThisRun(created[i].value, run, at)
  BY CreatedIsListed
<1> HIDE DEF created
<1>2. /\ Lookup(created, m) \in BoundValues
      /\ IsIn(created, m) => Has(created, m, Lookup(created, m))
      /\ ~IsIn(created, m) => Lookup(created, m) = Nothing
  BY <1>1, ReadIsValue
<1>3. OfThisRun(Lookup(created, m), run, at)
  BY <1>1, <1>2, NothingIsOfThisRun DEF Has
<1> QED
  BY <1>2, <1>3 DEF created

-----------------------------------------------------------------------------
(* The contexts.                                                           *)

LEMMA ContextTyped ==
  ASSUME NEW c \in Contexts
  PROVE  /\ c.locals \in Lists /\ c.parameters \in Lists
         /\ c.fresh \in BOOLEAN /\ c.bound \in Bindings
         /\ Mirrors(c.locals, c.bound)
         /\ c = [locals |-> c.locals, parameters |-> c.parameters,
                 fresh |-> c.fresh, bound |-> c.bound]
  BY DEF Contexts

LEMMA ContextIs ==
  ASSUME NEW l \in Lists, NEW p \in Lists, NEW f \in BOOLEAN, NEW b \in Bindings, Mirrors(l, b)
  PROVE  [locals |-> l, parameters |-> p, fresh |-> f, bound |-> b] \in Contexts
  BY DEF Contexts

LEMMA TopIsContext ==
  ASSUME stack \in Seq(Contexts), Len(stack) >= 1
  PROVE  Top \in Contexts
  BY DEF Top, Last

LEMMA EmptyList == <<>> \in Lists
  BY DEF Lists

LEMMA PairList ==
  ASSUME NEW n \in VariableNames, NEW v \in BoundValues
  PROVE  Pair(n, v) \in Lists
  BY PairIs DEF Lists

LEMMA MadeIsValue ==
  ASSUME NEW v \in Literals
  PROVE  Made(v) \in BoundValues
  BY DEF Made, BoundValues

LEMMA FreshIsContext ==
  ASSUME NEW p \in Lists
  PROVE  Fresh(p) \in Contexts
<1>1. Mirrors(<<>>, Unbound)
  BY VariablesConstants DEF Mirrors, Has, Unbound
<1>2. Unbound \in Bindings
  BY DEF Unbound, Bindings
<1> QED
  BY <1>1, <1>2, EmptyList, ContextIs DEF Fresh

(***************************************************************************)
(* A context that takes the place of the innermost one, or is put behind   *)
(* it.                                                                     *)
(***************************************************************************)
LEMMA ReplaceTop ==
  ASSUME stack \in Seq(Contexts), Len(stack) >= 1, NEW c \in Contexts
  PROVE  /\ Front(stack) \o <<c>> \in Seq(Contexts)
         /\ Len(Front(stack) \o <<c>>) >= 1
  BY DEF Front

LEMMA PushTop ==
  ASSUME stack \in Seq(Contexts), NEW c \in Contexts
  PROVE  /\ Append(stack, c) \in Seq(Contexts)
         /\ Len(Append(stack, c)) >= 1
  OBVIOUS

(***************************************************************************)
(* A list that has the new value under its name, and under the others what *)
(* it had, mirrors the bindings with the new one (variables.c:164-224).    *)
(***************************************************************************)
LEMMA ScopeKeeps ==
  ASSUME stack \in Seq(Contexts), Len(stack) >= 1,
         NEW list \in Lists, NEW n \in VariableNames, NEW v \in BoundValues,
         NEW fresh \in BOOLEAN,
         \A m \in VariableNames : \A w \in BoundValues :
             Has(list, m, w) <=> IF m = n THEN w = v ELSE Has(Top.locals, m, w),
         Scope(list, n, v, fresh)
  PROVE  stack' \in Seq(Contexts) /\ Len(stack') >= 1
<1> DEFINE c == Top
           b == [c.bound EXCEPT ![n] = v]
           new == [locals |-> list, parameters |-> c.parameters, fresh |-> fresh, bound |-> b]
<1>1. c \in Contexts
  BY TopIsContext
<1>3. stack' = Front(stack) \o <<new>>
  BY DEF Scope
<1>4. Mirrors(c.locals, c.bound) /\ c.bound \in Bindings /\ c.parameters \in Lists
  BY <1>1, ContextTyped
<1>5. b \in Bindings /\ \A m \in VariableNames : b[m] = IF m = n THEN v ELSE c.bound[m]
  BY <1>4 DEF Bindings
<1>6. \A m \in VariableNames : \A w \in BoundValues :
          Has(list, m, w) <=> IF m = n THEN w = v ELSE Has(c.locals, m, w)
  OBVIOUS
<1> HIDE DEF b, c
<1>7. Mirrors(list, b)
  <2> SUFFICES ASSUME NEW m \in VariableNames, NEW w \in BoundValues
               PROVE  Has(list, m, w) <=> b[m] = w
    BY DEF Mirrors
  <2>1. CASE m = n
    BY <1>5, <1>6, <2>1
  <2>2. CASE m # n
    BY <1>4, <1>5, <1>6, <2>2 DEF Mirrors
  <2> QED
    BY <2>1, <2>2
<1>8. new \in Contexts
  BY <1>4, <1>5, <1>7, ContextIs
<1> HIDE DEF new
<1> QED
  BY <1>3, <1>8, ReplaceTop

-----------------------------------------------------------------------------
(* The steps.                                                              *)

(* What is read in the innermost context, with or without the empty pair   *)
(* of a new variable, is a value.                                          *)
LEMMA ReadInScope ==
  ASSUME NEW list \in Lists, GlobalsListed, NEW m
  PROVE  get_variable_rv(list, m) \in BoundValues
  BY ReadIsValue DEF get_variable_rv, GlobalsListed

LEMMA DeclaredIsListed ==
  ASSUME Top \in Contexts, NEW n \in VariableNames
  PROVE  /\ Declared(n) \in Lists
         /\ IsIn(Declared(n), n)
         /\ \A m \in VariableNames : \A w \in BoundValues :
                m # n => (Has(Declared(n), m, w) <=> Has(Top.locals, m, w))
<1>1. Top.locals \in Lists
  BY ContextTyped
<1>2. CASE IsIn(Top.locals, n)
  BY <1>1, <1>2 DEF Declared
<1>3. CASE ~IsIn(Top.locals, n)
  BY <1>1, <1>3, NewInFront, NothingIsValue DEF Declared
<1> QED
  BY <1>2, <1>3

(***************************************************************************)
(* xsl:variable and a default of xsl:param (variables.c:164-201).          *)
(***************************************************************************)
LEMMA VariableKeeps ==
  ASSUME stack \in Seq(Contexts), Len(stack) >= 1,
         NEW n \in VariableNames, NEW v \in BoundValues, NEW fresh \in BOOLEAN,
         do_local_var(n, v, fresh)
  PROVE  stack' \in Seq(Contexts) /\ Len(stack') >= 1
<1> DEFINE list == Declared(n)
           new == Set(list, n, v)
<1>1. /\ list \in Lists /\ IsIn(list, n)
      /\ \A m \in VariableNames : \A w \in BoundValues :
             m # n => (Has(list, m, w) <=> Has(Top.locals, m, w))
  BY TopIsContext, DeclaredIsListed
<1>2. Scope(new, n, v, fresh)
  BY DEF do_local_var
<1> HIDE DEF list
<1>3. new \in Lists
  BY <1>1, SetList
<1>4. \A m \in VariableNames : \A w \in BoundValues :
          Has(new, m, w) <=> IF m = n THEN w = v ELSE Has(list, m, w)
  BY <1>1, SetHas
<1> HIDE DEF new
<1>5. \A m \in VariableNames : \A w \in BoundValues :
          Has(new, m, w) <=> IF m = n THEN w = v ELSE Has(Top.locals, m, w)
  BY <1>1, <1>4
<1> QED
  BY <1>2, <1>3, <1>5, ScopeKeeps

(***************************************************************************)
(* xsl:param with the value of the call (variables.c:208-224): the name is *)
(* new in the list.                                                        *)
(***************************************************************************)
LEMMA ParameterKeeps ==
  ASSUME stack \in Seq(Contexts), Len(stack) >= 1,
         NEW n \in VariableNames, ~IsIn(Top.locals, n), add_local_var(n)
  PROVE  stack' \in Seq(Contexts) /\ Len(stack') >= 1
<1>1. Top.locals \in Lists /\ Top.parameters \in Lists
  BY TopIsContext, ContextTyped
<1>2. CASE IsIn(Top.parameters, n)
  <2> DEFINE v == Lookup(Top.parameters, n)
             new == Pair(n, v) \o Top.locals
  <2>1. v \in BoundValues
    BY <1>1, ReadIsValue
  <2>2. Scope(new, n, v, TRUE)
    BY <1>2 DEF add_local_var
  <2> HIDE DEF v
  <2>3. /\ new \in Lists
        /\ \A m \in VariableNames : \A w \in BoundValues :
               Has(new, m, w) <=> IF m = n THEN w = v ELSE Has(Top.locals, m, w)
    BY <1>1, <2>1, NewInFront
  <2> HIDE DEF new
  <2> QED
    BY <2>1, <2>2, <2>3, ScopeKeeps
<1>3. CASE ~IsIn(Top.parameters, n)
  BY <1>3 DEF add_local_var
<1> QED
  BY <1>2, <1>3

(* The copy that a nested context works on (variables.c:251-279).          *)
LEMMA CopyIsContext ==
  ASSUME Top \in Contexts
  PROVE  [locals |-> copy_variables(Top.locals), parameters |-> Top.parameters,
          fresh |-> FALSE, bound |-> Top.bound] \in Contexts
<1>1. /\ Top.locals \in Lists /\ Top.parameters \in Lists /\ Top.bound \in Bindings
      /\ Mirrors(Top.locals, Top.bound)
  BY ContextTyped
<1> DEFINE new == copy_variables(Top.locals)
<1>2. /\ new \in Lists
      /\ \A n \in VariableNames : \A v \in BoundValues : Has(new, n, v) <=> Has(Top.locals, n, v)
  BY <1>1, CopyHasTheSame
<1> HIDE DEF new
<1>3. Mirrors(new, Top.bound)
  BY <1>1, <1>2 DEF Mirrors
<1>4. [locals |-> new, parameters |-> Top.parameters, fresh |-> FALSE, bound |-> Top.bound]
          \in Contexts
  BY <1>1, <1>2, <1>3, ContextIs
<1> QED
  BY <1>4 DEF new

LEMMA WithParamsAreLists ==
  ASSUME Top \in Contexts, GlobalsListed, NEW p \in WithParams
  PROVE  p \in Lists
<1>1. Top.locals \in Lists
  BY ContextTyped
<1>2. \A m \in VariableNames : get_variable_rv(Top.locals, m) \in BoundValues
  BY <1>1, ReadInScope
<1> QED
  BY <1>2, EmptyList, PairList, MadeIsValue DEF WithParams

LEMMA VariablesStart == VariablesInit => VariablesInv
<1> SUFFICES ASSUME VariablesInit PROVE VariablesInv
  OBVIOUS
<1>1. GlobalsListed
  BY EmptyList DEF VariablesInit, GlobalsListed
<1> QED
  BY <1>1 DEF VariablesInit, VariablesInv

(* A step that leaves the contexts alone.                                  *)
LEMMA GlobalStep ==
  ASSUME VariablesInv,
         \/ \E n \in VariableNames : set_ctx_global_var(n)
         \/ BeginRun \/ precompile_variables \/ ApplyRoot \/ free_variables
  PROVE  VariablesInv'
<1> USE DEF VariablesInv
<1>1. ASSUME NEW n \in VariableNames, set_ctx_global_var(n) PROVE VariablesInv'
  <2>1. Parameter \in BoundValues /\ OfThisRun(Parameter, run, at)
    BY <1>1 DEF Parameter, BoundValues, OfThisRun, set_ctx_global_var
  <2>2. vars' = Set(create_variable(n), n, Parameter)
    BY <1>1 DEF set_ctx_global_var
  <2>3. UNCHANGED <<run, at, next, stack>>
    BY <1>1 DEF set_ctx_global_var
  <2>4. GlobalsListed'
    BY <2>1, <2>2, <2>3, GlobalIsSet DEF GlobalsListed
  <2> QED
    BY <2>3, <2>4
<1>2. CASE BeginRun
  <2>1. /\ at = "idle" /\ run' = run + 1 /\ at' = "precompile" /\ next' = 1
        /\ UNCHANGED <<vars, stack>>
    BY <1>2 DEF BeginRun
  <2>2. ASSUME NEW i \in 1..Len(vars) PROVE OfThisRun(vars[i].value, run + 1, "precompile")
    <3>1. OfThisRun(vars[i].value, run, "idle")
      BY <2>1 DEF GlobalsListed
    <3>2. run + 1 - 1 = run
      OBVIOUS
    <3> QED
      BY <3>1, <3>2 DEF OfThisRun
  <2>3. GlobalsListed'
    BY <2>1, <2>2 DEF GlobalsListed
  <2> QED
    BY <2>1, <2>3
<1>3. CASE precompile_variables
  <2> DEFINE g == Globals[next]
             v == IF g.ref = NULL THEN Computed ELSE Lookup(create_variable(g.name), g.ref)
  <2>1. /\ at = "precompile" /\ next <= Len(Globals)
        /\ vars' = Set(create_variable(g.name), g.name, v)
        /\ next' = next + 1 /\ UNCHANGED <<run, at, stack>>
    BY <1>3 DEF precompile_variables
  <2>2. g.name \in VariableNames
    <3> DEFINE T == [name : VariableNames, ref : VariableNames \cup {NULL}]
    <3>1. Globals \in Seq(T)
      BY VariablesConstants
    <3>2. \A h \in T : h.name \in VariableNames
      OBVIOUS
    <3> HIDE DEF T
    <3>3. next \in 1..Len(Globals)
      BY <2>1, <3>1
    <3> QED
      BY <3>1, <3>2, <3>3
  <2>3. Computed \in BoundValues /\ OfThisRun(Computed, run, at)
    BY <2>1 DEF Computed, BoundValues, OfThisRun
  <2> HIDE DEF g
  <2>4. v \in BoundValues /\ OfThisRun(v, run, at)
    BY <2>2, <2>3, GlobalRead
  <2> HIDE DEF v
  <2>5. GlobalsListed'
    BY <2>1, <2>2, <2>4, GlobalIsSet DEF GlobalsListed
  <2> QED
    BY <2>1, <2>5
<1>4. CASE ApplyRoot
  <2>1. /\ at = "precompile" /\ at' = "apply" /\ stack' = <<Fresh(<<>>)>>
        /\ UNCHANGED <<vars, run, next>>
    BY <1>4 DEF ApplyRoot
  <2>2. Fresh(<<>>) \in Contexts
    BY FreshIsContext, EmptyList
  <2>3. stack' \in Seq(Contexts) /\ Len(stack') >= 1
    BY <2>1, <2>2
  <2>4. GlobalsListed'
    BY <2>1 DEF GlobalsListed, OfThisRun
  <2> QED
    BY <2>1, <2>3, <2>4
<1>5. CASE free_variables
  <2>1. /\ at' = "idle" /\ vars' = <<>> /\ stack' = <<>> /\ UNCHANGED <<run, next>>
    BY <1>5 DEF free_variables
  <2>2. GlobalsListed'
    BY <2>1, EmptyList DEF GlobalsListed
  <2> QED
    BY <2>1, <2>2
<1> QED
  BY <1>1, <1>2, <1>3, <1>4, <1>5

(* A step within a template.                                               *)
LEMMA TemplateStep ==
  ASSUME VariablesInv,
         \/ \E n \in VariableNames : instruction_variable(n)
         \/ \E n \in VariableNames, has_default \in BOOLEAN, v \in Literals :
                instruction_param(n, has_default, v)
         \/ Nested
         \/ instruction_call_template \/ instruction_apply_templates \/ Leave
  PROVE  VariablesInv'
<1>1. InTemplate
  BY DEF instruction_variable, instruction_param, Nested, instruction_call_template,
         instruction_apply_templates, Leave
<1>2. at = "apply" /\ UNCHANGED <<vars, run, at, next>>
  BY <1>1 DEF InTemplate
<1>3. stack \in Seq(Contexts) /\ Len(stack) >= 1
  BY <1>2 DEF VariablesInv
<1>4. GlobalsListed /\ GlobalsListed'
  BY <1>2 DEF VariablesInv, GlobalsListed
<1>5. Top \in Contexts
  BY <1>3, TopIsContext
<1> SUFFICES stack' \in Seq(Contexts) /\ Len(stack') >= 1
  BY <1>2, <1>4 DEF VariablesInv
<1>6. ASSUME NEW n \in VariableNames, instruction_variable(n)
      PROVE  stack' \in Seq(Contexts) /\ Len(stack') >= 1
  <2>1. CASE \E v \in Literals : do_local_var(n, Made(v), FALSE)
    BY <1>3, <2>1, MadeIsValue, VariableKeeps
  <2>2. CASE \E m \in VariableNames : do_local_var(n, get_variable_rv(Declared(n), m), FALSE)
    <3>1. PICK m \in VariableNames : do_local_var(n, get_variable_rv(Declared(n), m), FALSE)
      BY <2>2
    <3>2. get_variable_rv(Declared(n), m) \in BoundValues
      BY <1>4, <1>5, DeclaredIsListed, ReadInScope
    <3> QED
      BY <1>3, <3>1, <3>2, VariableKeeps
  <2> QED
    BY <1>6, <2>1, <2>2 DEF instruction_variable
<1>7. ASSUME NEW n \in VariableNames, NEW has_default \in BOOLEAN, NEW v \in Literals,
             instruction_param(n, has_default, v)
      PROVE  stack' \in Seq(Contexts) /\ Len(stack') >= 1
  <2>1. ~IsIn(Top.locals, n)
    BY <1>7 DEF instruction_param
  <2>2. CASE do_local_var(n, Made(v), TRUE)
    BY <1>3, <2>2, MadeIsValue, VariableKeeps
  <2>3. CASE add_local_var(n)
    BY <1>3, <2>1, <2>3, ParameterKeeps
  <2> QED
    BY <1>7, <2>2, <2>3 DEF instruction_param
<1>8. CASE Nested
  BY <1>3, <1>5, <1>8, CopyIsContext, PushTop DEF Nested
<1>9. CASE instruction_call_template
  BY <1>3, <1>4, <1>5, <1>9, WithParamsAreLists, FreshIsContext, PushTop
     DEF instruction_call_template
<1>10. CASE instruction_apply_templates
  <2>1. PICK p \in WithParams :
            stack' = Append(stack, Fresh(IF p = <<>> THEN Top.parameters ELSE p))
    BY <1>10 DEF instruction_apply_templates
  <2>2. p \in Lists /\ Top.parameters \in Lists
    BY <1>4, <1>5, WithParamsAreLists, ContextTyped
  <2>3. Fresh(IF p = <<>> THEN Top.parameters ELSE p) \in Contexts
    BY <2>2, FreshIsContext
  <2> QED
    BY <1>3, <2>1, <2>3, PushTop
<1>11. CASE Leave
  <2>1. Len(stack) > 1 /\ stack' = SubSeq(stack, 1, Len(stack) - 1)
    BY <1>11 DEF Leave, Front
  <2> QED
    BY <1>3, <2>1
<1> QED
  BY <1>6, <1>7, <1>8, <1>9, <1>10, <1>11

LEMMA VariablesInvariant == VariablesSpec => []VariablesInv
<1>1. VariablesInv /\ [VariablesNext]_variableVars => VariablesInv'
  <2> SUFFICES ASSUME VariablesInv, [VariablesNext]_variableVars PROVE VariablesInv'
    OBVIOUS
  <2>1. CASE UNCHANGED variableVars
    BY <2>1 DEF variableVars, VariablesInv, GlobalsListed
  <2> QED
    BY <2>1, GlobalStep, TemplateStep DEF VariablesNext
<1> QED
  BY <1>1, VariablesStart, PTL DEF VariablesSpec

(***************************************************************************)
(* What an expression reads is the innermost binding of this run           *)
(* (BindingsAreCurrent; variables.c:90-155, 251-279), for any stylesheet,  *)
(* any number of contexts in each other and any number of runs.            *)
(***************************************************************************)
THEOREM ReadsAreCurrent == VariablesSpec => []BindingsAreCurrent
<1>1. VariablesInv => InnermostBinding
  <2> SUFFICES ASSUME VariablesInv, NEW i \in DOMAIN stack, NEW n \in VariableNames
               PROVE  get_variable_rv(stack[i].locals, n) =
                          IF stack[i].bound[n] # NULL THEN stack[i].bound[n] ELSE Lookup(vars, n)
    BY DEF InnermostBinding
  <2> DEFINE c == stack[i]
  <2>1. c \in Contexts
    BY DEF VariablesInv
  <2> HIDE DEF c
  <2>2. c.locals \in Lists /\ c.bound \in Bindings /\ Mirrors(c.locals, c.bound)
    BY <2>1, ContextTyped
  <2>3. CASE c.bound[n] # NULL
    <3>1. c.bound[n] \in BoundValues
      BY <2>2, <2>3 DEF Bindings
    <3>2. Has(c.locals, n, c.bound[n])
      BY <2>2, <3>1 DEF Mirrors
    <3>3. IsIn(c.locals, n) /\ Lookup(c.locals, n) = c.bound[n]
      BY <2>2, <3>2, ReadsWhatItHas
    <3> QED
      BY <2>3, <3>3 DEF get_variable_rv, c
  <2>4. CASE c.bound[n] = NULL
    <3>1. ASSUME IsIn(c.locals, n) PROVE FALSE
      <4>1. Lookup(c.locals, n) \in BoundValues /\ Has(c.locals, n, Lookup(c.locals, n))
        BY <2>2, <3>1, ReadIsValue
      <4>2. c.bound[n] = Lookup(c.locals, n)
        BY <2>2, <4>1 DEF Mirrors
      <4> QED
        BY <2>4, <4>1, <4>2, VariablesConstants
    <3> QED
      BY <2>4, <3>1 DEF get_variable_rv, c
  <2> QED
    BY <2>3, <2>4
<1>2. VariablesInv => GlobalsOfThisRun
  <2> SUFFICES ASSUME VariablesInv PROVE GlobalsOfThisRun
    OBVIOUS
  <2>1. DOMAIN vars = 1..Len(vars)
    BY ListTyped DEF VariablesInv, GlobalsListed
  <2> QED
    BY <2>1 DEF VariablesInv, GlobalsListed, GlobalsOfThisRun, OfThisRun
<1>3. VariablesInv => BindingsAreCurrent
  BY <1>1, <1>2 DEF BindingsAreCurrent
<1> QED
  BY <1>3, VariablesInvariant, PTL

-----------------------------------------------------------------------------
(* The texts of catalogues.                                                *)

(* Induction over a set of numbers.                                        *)
LEMMA AllNumbers ==
  ASSUME NEW A, 0 \in A, \A k \in Nat : k \in A => k + 1 \in A
  PROVE  \A k \in Nat : k \in A
<1> SUFFICES ASSUME NEW k \in Nat, k \notin A PROVE FALSE
  OBVIOUS
<1> DEFINE B == {j \in Nat : j \notin A}
<1>1. k \in B
  OBVIOUS
<1>2. PICK least \in B : \A j \in B : ~(<<j, least>> \in OpToRel(<, Nat))
  <2>1. B \subseteq Nat
    OBVIOUS
  <2> HIDE DEF B
  <2> QED
    BY <1>1, <2>1, WFMin, NatLessThanWellFounded, Zenon
<1>3. least \in Nat /\ least \notin A /\ least # 0
  OBVIOUS
<1>4. least - 1 \in Nat /\ least - 1 < least /\ (least - 1) + 1 = least
  BY <1>3
<1>5. least - 1 \in B
  BY <1>3, <1>4
<1>6. <<least - 1, least>> \in OpToRel(<, Nat)
  BY <1>3, <1>4, Zenon DEF OpToRel
<1> QED
  BY <1>2, <1>5, <1>6

(***************************************************************************)
(* What a flattened sequence holds is in one of its parts.                 *)
(***************************************************************************)
LEMMA FlattenHolds ==
  ASSUME NEW S, NEW parts \in Seq(Seq(S))
  PROVE  /\ FlattenSeq(parts) \in Seq(S)
         /\ \A e : Contains(FlattenSeq(parts), e) => \E i \in 1..Len(parts) : Contains(parts[i], e)
<1> DEFINE Is(g, n) == g = [i \in 1..n |-> IF i = 1 THEN parts[i] ELSE g[i - 1] \o parts[i]]
           flatten == CHOOSE g : Is(g, Len(parts))
           A == {n \in Nat : \E g : Is(g, n)}
           From(s, k) == \A e : Contains(s, e) => \E i \in 1..k : Contains(parts[i], e)
           B == {k \in Nat : k \in 1..Len(parts) => flatten[k] \in Seq(S) /\ From(flatten[k], k)}
<1>1. CASE Len(parts) = 0
  <2>1. FlattenSeq(parts) = parts /\ parts = <<>>
    BY <1>1 DEF FlattenSeq
  <2> QED
    BY <2>1 DEF Contains
<1>2. CASE Len(parts) # 0
  <2>1. FlattenSeq(parts) = flatten[Len(parts)]
    BY <1>2 DEF FlattenSeq
  <2>2. \A n \in Nat : n \in A
    <3>1. 0 \in A
      <4>1. Is([i \in 1..0 |-> parts], 0)
        OBVIOUS
      <4> QED
        BY <4>1
    <3>2. ASSUME NEW n \in Nat, n \in A
          PROVE  n + 1 \in A
      <4>1. PICK g : Is(g, n)
        BY <3>2
      <4> DEFINE h == [i \in 1..n + 1 |-> IF i = 1 THEN parts[i] ELSE g[i - 1] \o parts[i]]
      <4>2. \A i \in 1..n : h[i] = g[i]
        <5> DEFINE f == [i \in 1..n |-> IF i = 1 THEN parts[i] ELSE g[i - 1] \o parts[i]]
        <5>1. g = f
          BY <4>1
        <5>2. \A i \in 1..n : f[i] = h[i]
          OBVIOUS
        <5> HIDE DEF f, h
        <5> QED
          BY <5>1, <5>2
      <4>3. ASSUME NEW i \in 1..n + 1
            PROVE  h[i] = IF i = 1 THEN parts[i] ELSE h[i - 1] \o parts[i]
        <5>1. CASE i = 1
          BY <5>1
        <5>2. CASE i # 1
          <6>1. i - 1 \in 1..n
            BY <5>2
          <6>2. h[i - 1] = g[i - 1]
            BY <4>2, <6>1
          <6> QED
            BY <5>2, <6>2
        <5> QED
          BY <5>1, <5>2
      <4>4. Is(h, n + 1)
        <5>1. h = [i \in 1..n + 1 |-> h[i]]
          OBVIOUS
        <5> HIDE DEF h
        <5> QED
          BY <4>3, <5>1
      <4> HIDE DEF Is
      <4> QED
        BY <4>4
    <3> HIDE DEF A
    <3> QED
      BY <3>1, <3>2, AllNumbers
  <2>3. Is(flatten, Len(parts))
    <3>1. Len(parts) \in A
      <4>1. Len(parts) \in Nat
        OBVIOUS
      <4> HIDE DEF A
      <4> QED
        BY <2>2, <4>1
    <3>2. \E g : Is(g, Len(parts))
      BY <3>1
    <3> HIDE DEF Is
    <3> QED
      BY <3>2
  <2> HIDE DEF flatten
  <2>4. \A i \in 1..Len(parts) :
            flatten[i] = IF i = 1 THEN parts[i] ELSE flatten[i - 1] \o parts[i]
    <3> DEFINE f == [i \in 1..Len(parts) |-> IF i = 1 THEN parts[i] ELSE flatten[i - 1] \o parts[i]]
    <3>1. flatten = f
      BY <2>3
    <3>2. \A i \in 1..Len(parts) : f[i] = IF i = 1 THEN parts[i] ELSE flatten[i - 1] \o parts[i]
      OBVIOUS
    <3> HIDE DEF f
    <3> QED
      BY <3>1, <3>2
  <2> HIDE DEF Is
  <2>5. \A k \in Nat : k \in B
    <3>1. 0 \in B
      OBVIOUS
    <3>2. ASSUME NEW k \in Nat, k \in B, k + 1 \in 1..Len(parts)
          PROVE  flatten[k + 1] \in Seq(S) /\ From(flatten[k + 1], k + 1)
      <4>1. parts[k + 1] \in Seq(S) /\ k + 1 \in 1..k + 1
        BY <3>2
      <4>2. CASE k = 0
        BY <2>4, <3>2, <4>1, <4>2
      <4>3. CASE k # 0
        <5> DEFINE s == flatten[k]
                   u == parts[k + 1]
        <5>1. flatten[k + 1] = s \o u
          <6>1. k + 1 # 1 /\ (k + 1) - 1 = k
            BY <4>3
          <6>2. flatten[k + 1] = IF k + 1 = 1 THEN parts[k + 1] ELSE flatten[(k + 1) - 1] \o parts[k + 1]
            BY <2>4, <3>2
          <6> QED
            BY <6>1, <6>2
        <5>2. s \in Seq(S) /\ From(s, k)
          BY <3>2, <4>3
        <5>3. u \in Seq(S)
          BY <4>1
        <5>4. ASSUME NEW e, Contains(s \o u, e)
              PROVE  \E i \in 1..k + 1 : Contains(parts[i], e)
          <6>1. Contains(s, e) \/ Contains(u, e)
            <7> HIDE DEF s, u
            <7>1. /\ Len(s \o u) = Len(s) + Len(u)
                  /\ \A i \in 1..Len(s) + Len(u) :
                         (s \o u)[i] = IF i <= Len(s) THEN s[i] ELSE u[i - Len(s)]
              BY <5>2, <5>3, ConcatProperties
            <7>2. PICK i \in 1..Len(s) + Len(u) : (s \o u)[i] = e
              BY <5>4, <7>1 DEF Contains
            <7>3. Len(s) \in Nat /\ Len(u) \in Nat
              BY <5>2, <5>3
            <7>4. CASE i <= Len(s)
              BY <7>1, <7>2, <7>3, <7>4 DEF Contains
            <7>5. CASE i > Len(s)
              <8>1. i - Len(s) \in 1..Len(u) /\ u[i - Len(s)] = e
                BY <7>1, <7>2, <7>3, <7>5
              <8> QED
                BY <8>1 DEF Contains
            <7> QED
              BY <7>3, <7>4, <7>5
          <6>2. CASE Contains(s, e)
            <7>1. PICK i \in 1..k : Contains(parts[i], e)
              BY <5>2, <6>2
            <7>2. i \in 1..k + 1
              OBVIOUS
            <7> QED
              BY <7>1, <7>2
          <6>3. CASE Contains(u, e)
            BY <4>1, <6>3
          <6> QED
            BY <6>1, <6>2, <6>3
        <5>5. s \o u \in Seq(S)
          BY <5>2, <5>3, ConcatProperties
        <5> HIDE DEF s, u
        <5> QED
          BY <5>1, <5>4, <5>5
      <4> QED
        BY <4>2, <4>3
    <3>3. \A k \in Nat : k \in B => k + 1 \in B
      <4> HIDE DEF From
      <4> QED
        BY <3>2
    <3> HIDE DEF B
    <3> QED
      BY <3>1, <3>3, AllNumbers
  <2>6. Len(parts) \in 1..Len(parts)
    BY <1>2
  <2>7. flatten[Len(parts)] \in Seq(S) /\ From(flatten[Len(parts)], Len(parts))
    <3>1. Len(parts) \in B
      <4>1. Len(parts) \in Nat
        OBVIOUS
      <4> HIDE DEF B
      <4> QED
        BY <2>5, <4>1
    <3> HIDE DEF From
    <3> QED
      BY <2>6, <3>1
  <2> QED
    BY <2>1, <2>7
<1> QED
  BY <1>1, <1>2

(***************************************************************************)
(* After a substitution a text holds a piece that it is not for only if    *)
(* the text held it before or the value brings it, and the placeholder     *)
(* itself only if the value does (functions.c:1251-1273).                  *)
(***************************************************************************)
LEMMA SubstitutedHolds ==
  ASSUME NEW text \in Texts, NEW name, NEW value \in Texts
  PROVE  /\ Substituted(text, name, value) \in Texts
         /\ \A e : Contains(Substituted(text, name, value), e) =>
                Contains(value, e) \/ (Contains(text, e) /\ e # Placeholder(name))
<1> DEFINE p == Placeholder(name)
           parts == [i \in DOMAIN text |-> IF text[i] = p THEN value ELSE <<text[i]>>]
<1>1. /\ text \in Seq(Pieces) /\ value \in Seq(Pieces)
      /\ DOMAIN text = 1..Len(text) /\ Len(text) \in Nat
      /\ \A i \in 1..Len(text) : text[i] \in Pieces
  BY DEF Texts
<1>2. parts \in Seq(Seq(Pieces)) /\ Len(parts) = Len(text)
  <2>1. \A i \in 1..Len(text) : <<text[i]>> \in Seq(Pieces)
    BY <1>1
  <2>2. parts = [i \in 1..Len(text) |-> IF text[i] = p THEN value ELSE <<text[i]>>]
    BY <1>1
  <2>3. parts \in [1..Len(text) -> Seq(Pieces)]
    BY <1>1, <2>1, <2>2
  <2> HIDE DEF parts
  <2> QED
    BY <1>1, <2>3
<1>3. Substituted(text, name, value) = FlattenSeq(parts)
  BY DEF Substituted
<1>4. \A i \in 1..Len(text) : parts[i] = IF text[i] = p THEN value ELSE <<text[i]>>
  BY <1>1
<1> HIDE DEF p, parts
<1>5. /\ FlattenSeq(parts) \in Seq(Pieces)
      /\ \A e : Contains(FlattenSeq(parts), e) => \E i \in 1..Len(parts) : Contains(parts[i], e)
  BY <1>2, FlattenHolds
<1>6. ASSUME NEW e, Contains(FlattenSeq(parts), e)
      PROVE  Contains(value, e) \/ (Contains(text, e) /\ e # p)
  <2>1. PICK i \in 1..Len(text) : Contains(parts[i], e)
    BY <1>2, <1>5, <1>6
  <2>2. CASE text[i] = p
    BY <1>4, <2>1, <2>2
  <2>3. CASE text[i] # p
    <3>1. Contains(<<text[i]>>, e)
      BY <1>4, <2>1, <2>3
    <3>2. e = text[i]
      BY <3>1 DEF Contains
    <3> QED
      BY <2>3, <3>2 DEF Contains
  <2> QED
    BY <2>2, <2>3
<1> QED
  BY <1>3, <1>5, <1>6 DEF Texts, p

PairsOfCalls == Seq([name : PlaceholderNames, value : Texts])

(***************************************************************************)
(* When all pairs are substituted, a placeholder of one of them is there   *)
(* only if its value or that of a later one brings it.                     *)
(***************************************************************************)
LEMMA FilledHolds ==
  ASSUME NEW text \in Texts, NEW pairs \in PairsOfCalls
  PROVE  \A i \in 1..Len(pairs) :
             Contains(Filled(text, pairs), Placeholder(pairs[i].name)) =>
                 \E j \in i..Len(pairs) : Contains(pairs[j].value, Placeholder(pairs[i].name))
<1> DEFINE Step(t, i) == Substituted(t, pairs[i].name, pairs[i].value)
           Is(g, n) == g = [i \in 0..n |-> IF i = 0 THEN text ELSE Step(g[i - 1], i)]
           after == CHOOSE g : Is(g, Len(pairs))
           A == {n \in Nat : \E g : Is(g, n)}
           Clean(t, k) ==
               \A i \in 1..k : Contains(t, Placeholder(pairs[i].name)) =>
                   \E j \in i..k : Contains(pairs[j].value, Placeholder(pairs[i].name))
           B == {k \in Nat : k \in 0..Len(pairs) => after[k] \in Texts /\ Clean(after[k], k)}
<1>1. Filled(text, pairs) = after[Len(pairs)]
  BY DEF Filled
<1>2. Len(pairs) \in Nat /\ \A i \in 1..Len(pairs) : pairs[i].value \in Texts
  <2> DEFINE T == [name : PlaceholderNames, value : Texts]
  <2>1. \A q \in T : q.value \in Texts
    OBVIOUS
  <2>2. pairs \in Seq(T)
    BY DEF PairsOfCalls
  <2> HIDE DEF T
  <2> QED
    BY <2>1, <2>2
<1> HIDE DEF Step
<1>3. \A n \in Nat : n \in A
  <2>1. 0 \in A
    <3> DEFINE h == [i \in 0..0 |-> text]
    <3>1. h = [i \in 0..0 |-> IF i = 0 THEN text ELSE Step(h[i - 1], i)]
      <4>1. \A i \in 0..0 : i = 0
        OBVIOUS
      <4> QED
        BY <4>1
    <3>2. Is(h, 0)
      BY <3>1
    <3> HIDE DEF Is
    <3> QED
      BY <3>2
  <2>2. ASSUME NEW n \in Nat, n \in A
        PROVE  n + 1 \in A
    <3>1. PICK g : Is(g, n)
      BY <2>2
    <3> DEFINE h == [i \in 0..n + 1 |-> IF i = 0 THEN text ELSE Step(g[i - 1], i)]
    <3>2. \A i \in 0..n : h[i] = g[i]
      <4> DEFINE f == [i \in 0..n |-> IF i = 0 THEN text ELSE Step(g[i - 1], i)]
      <4>1. g = f
        BY <3>1
      <4>2. \A i \in 0..n : f[i] = h[i]
        OBVIOUS
      <4> HIDE DEF f, h
      <4> QED
        BY <4>1, <4>2
    <3>3. ASSUME NEW i \in 0..n + 1
          PROVE  h[i] = IF i = 0 THEN text ELSE Step(h[i - 1], i)
      <4>1. CASE i = 0
        BY <4>1
      <4>2. CASE i # 0
        <5>1. i - 1 \in 0..n
          BY <4>2
        <5>2. h[i - 1] = g[i - 1]
          BY <3>2, <5>1
        <5> QED
          BY <4>2, <5>2
      <4> QED
        BY <4>1, <4>2
    <3>4. Is(h, n + 1)
      <4>1. h = [i \in 0..n + 1 |-> h[i]]
        OBVIOUS
      <4> HIDE DEF h
      <4> QED
        BY <3>3, <4>1
    <3> HIDE DEF Is
    <3> QED
      BY <3>4
  <2> HIDE DEF A
  <2> QED
    BY <2>1, <2>2, AllNumbers
<1>4. Is(after, Len(pairs))
  <2>1. Len(pairs) \in A
    <3> HIDE DEF A
    <3> QED
      BY <1>2, <1>3
  <2>2. \E g : Is(g, Len(pairs))
    BY <2>1
  <2> HIDE DEF Is
  <2> QED
    BY <2>2
<1> HIDE DEF after
<1>5. \A i \in 0..Len(pairs) : after[i] = IF i = 0 THEN text ELSE Step(after[i - 1], i)
  <2> DEFINE f == [i \in 0..Len(pairs) |-> IF i = 0 THEN text ELSE Step(after[i - 1], i)]
  <2>1. after = f
    BY <1>4
  <2>2. \A i \in 0..Len(pairs) : f[i] = IF i = 0 THEN text ELSE Step(after[i - 1], i)
    OBVIOUS
  <2> HIDE DEF f
  <2> QED
    BY <2>1, <2>2
<1> HIDE DEF Is
<1>6. \A k \in Nat : k \in B
  <2>1. 0 \in B
    <3>1. after[0] = text
      BY <1>2, <1>5
    <3> QED
      BY <3>1
  <2>2. ASSUME NEW k \in Nat, k \in B, k + 1 \in 0..Len(pairs)
        PROVE  after[k + 1] \in Texts /\ Clean(after[k + 1], k + 1)
    <3> DEFINE t == after[k]
               u == after[k + 1]
               q == pairs[k + 1]
    <3>1. k \in 0..Len(pairs) /\ k + 1 \in 1..Len(pairs) /\ k + 1 # 0 /\ (k + 1) - 1 = k
      BY <1>2, <2>2
    <3>2. t \in Texts /\ Clean(t, k)
      BY <2>2, <3>1
    <3>3. u = Substituted(t, q.name, q.value)
      <4>1. u = IF k + 1 = 0 THEN text ELSE Step(after[(k + 1) - 1], k + 1)
        BY <1>5, <2>2
      <4> QED
        BY <3>1, <4>1 DEF Step
    <3>4. q.value \in Texts
      BY <1>2, <3>1
    <3> HIDE DEF t, u
    <3>5. /\ u \in Texts
          /\ \A e : Contains(u, e) =>
                 Contains(q.value, e) \/ (Contains(t, e) /\ e # Placeholder(q.name))
      BY <3>2, <3>3, <3>4, SubstitutedHolds
    <3>6. ASSUME NEW i \in 1..k + 1, Contains(u, Placeholder(pairs[i].name))
          PROVE  \E j \in i..k + 1 : Contains(pairs[j].value, Placeholder(pairs[i].name))
      <4> DEFINE e == Placeholder(pairs[i].name)
      <4>1. Contains(q.value, e) \/ (Contains(t, e) /\ e # Placeholder(q.name))
        BY <3>5, <3>6
      <4>2. CASE Contains(q.value, e)
        <5>1. k + 1 \in i..k + 1
          OBVIOUS
        <5> QED
          BY <4>2, <5>1
      <4>3. CASE Contains(t, e) /\ e # Placeholder(q.name)
        <5>1. i # k + 1
          BY <4>3
        <5>2. i \in 1..k
          BY <5>1
        <5>3. PICK j \in i..k : Contains(pairs[j].value, e)
          BY <3>2, <4>3, <5>2
        <5>4. j \in i..k + 1
          OBVIOUS
        <5> QED
          BY <5>3, <5>4
      <4> QED
        BY <4>1, <4>2, <4>3
    <3> QED
      BY <3>5, <3>6 DEF u
  <2>3. \A k \in Nat : k \in B => k + 1 \in B
    <3> HIDE DEF Clean
    <3> QED
      BY <2>2
  <2> HIDE DEF B
  <2> QED
    BY <2>1, <2>3, AllNumbers
<1>7. Clean(after[Len(pairs)], Len(pairs))
  <2>1. Len(pairs) \in B
    <3> HIDE DEF B
    <3> QED
      BY <1>2, <1>6
  <2>2. Len(pairs) \in 0..Len(pairs)
    BY <1>2
  <2> HIDE DEF Clean
  <2> QED
    BY <2>1, <2>2
<1> QED
  BY <1>1, <1>7

-----------------------------------------------------------------------------
(* Settings: the rights are those of the user's groups, a file stands in   *)
(* the list once if it has a catalogue, and the text shown last was filled *)
(* with the values of its call.                                            *)

RightsInv ==
    /\ group_rights \in [Libraries -> [Groups -> (SUBSET Actions) \cup {NULL}]]
    /\ user_rights # NULL =>
          /\ user.library \in Libraries
          /\ user.groups \subseteq Groups
          /\ \A g \in user.groups : group_rights[user.library][g] # NULL
          /\ user_rights = UNION {group_rights[user.library][g] : g \in user.groups}

CataloguesInv ==
    /\ content \in [Files -> Catalogs \cup {NULL}]
    /\ cache \in [Files -> Catalogs \cup {NULL}]
    /\ loaded \in Seq(Files)
    /\ localization_entry # NULL => localization_entry \in Files
    /\ CataloguesOwnedOnce

SettingsInv == RightsInv /\ CataloguesInv /\ PlaceholdersReplaced

(* A definition of a group that exists already changes nothing.            *)
LEMMA RightsStep ==
  ASSUME RightsInv,
         \/ \E l \in Libraries, g \in Groups, a \in SUBSET Actions : XSLTDefineGroupRights(l, g, a)
         \/ \E l \in Libraries, gs \in SUBSET Groups : XSLTSetUserContext(l, gs)
  PROVE  RightsInv'
<1>1. ASSUME NEW l \in Libraries, NEW g \in Groups, NEW a \in SUBSET Actions,
             XSLTDefineGroupRights(l, g, a)
      PROVE  RightsInv'
  <2> DEFINE new == Added(group_rights[l], g, a)
  <2>1. group_rights[l] \in [Groups -> (SUBSET Actions) \cup {NULL}]
    BY DEF RightsInv
  <2>2. /\ new \in [Groups -> (SUBSET Actions) \cup {NULL}]
        /\ \A h \in Groups : group_rights[l][h] # NULL => new[h] = group_rights[l][h]
    <3>1. CASE group_rights[l][g] = NULL
      <4>1. new = [group_rights[l] EXCEPT ![g] = a]
        BY <3>1 DEF Added
      <4> HIDE DEF new
      <4> QED
        BY <2>1, <3>1, <4>1
    <3>2. CASE group_rights[l][g] # NULL
      <4>1. new = group_rights[l]
        BY <3>2 DEF Added
      <4> HIDE DEF new
      <4> QED
        BY <2>1, <4>1
    <3> QED
      BY <3>1, <3>2
  <2>3. group_rights' = [group_rights EXCEPT ![l] = new] /\ UNCHANGED <<user_rights, user>>
    BY <1>1 DEF XSLTDefineGroupRights
  <2> HIDE DEF new
  <2>4. /\ group_rights' \in [Libraries -> [Groups -> (SUBSET Actions) \cup {NULL}]]
        /\ \A k \in Libraries : \A h \in Groups :
               group_rights[k][h] # NULL => group_rights'[k][h] = group_rights[k][h]
    BY <2>2, <2>3 DEF RightsInv
  <2>5. ASSUME user_rights # NULL
        PROVE  /\ \A h \in user.groups : group_rights'[user.library][h] = group_rights[user.library][h]
               /\ {group_rights'[user.library][h] : h \in user.groups}
                     = {group_rights[user.library][h] : h \in user.groups}
    <3>1. \A h \in user.groups : group_rights'[user.library][h] = group_rights[user.library][h]
      BY <2>4, <2>5 DEF RightsInv
    <3> QED
      BY <3>1
  <2> QED
    BY <2>3, <2>4, <2>5 DEF RightsInv
<1>2. ASSUME NEW l \in Libraries, NEW gs \in SUBSET Groups, XSLTSetUserContext(l, gs)
      PROVE  RightsInv'
  <2>1. /\ user_rights' = UNION {group_rights[l][g] : g \in Known(l, gs)}
        /\ user'.library = l /\ user'.groups = Known(l, gs)
        /\ UNCHANGED group_rights
    BY <1>2 DEF XSLTSetUserContext, ActionsOf
  <2>2. /\ Known(l, gs) \subseteq Groups
        /\ \A g \in Known(l, gs) : group_rights[l][g] # NULL
    BY DEF Known
  <2> QED
    BY <2>1, <2>2 DEF RightsInv
<1> QED
  BY <1>1, <1>2

(***************************************************************************)
(* A file gets an entry when it has none and no second one                 *)
(* (localization.c:98-111, 209-220).                                       *)
(***************************************************************************)
LEMMA CataloguesStep ==
  ASSUME CataloguesInv, NEW f \in Files, XSLTSetLocalization(f)
  PROVE  CataloguesInv'
<1>1. CASE cache[f] # NULL
  <2>1. localization_entry' = f /\ UNCHANGED <<content, cache, loaded>>
    BY <1>1 DEF XSLTSetLocalization
  <2> QED
    BY <1>1, <2>1 DEF CataloguesInv, CataloguesOwnedOnce
<1>2. CASE cache[f] = NULL /\ Loadable(f)
  <2>1. /\ cache' = [cache EXCEPT ![f] = content[f]] /\ loaded' = Append(loaded, f)
        /\ localization_entry' = f /\ UNCHANGED content
    BY <1>2 DEF XSLTSetLocalization
  <2>2. /\ content[f] # NULL /\ content[f] \in Catalogs \cup {NULL}
        /\ \A i \in 1..Len(loaded) : loaded[i] # f
        /\ Len(loaded) \in Nat /\ DOMAIN loaded = 1..Len(loaded)
    BY <1>2 DEF Loadable, CataloguesInv, CataloguesOwnedOnce
  <2>3. /\ cache' \in [Files -> Catalogs \cup {NULL}]
        /\ cache'[f] # NULL /\ \A g \in Files : g # f => cache'[g] = cache[g]
    BY <2>1, <2>2 DEF CataloguesInv
  <2>4. /\ loaded' \in Seq(Files) /\ Len(loaded') = Len(loaded) + 1
        /\ DOMAIN loaded' = 1..Len(loaded) + 1
        /\ loaded'[Len(loaded) + 1] = f
        /\ \A i \in 1..Len(loaded) : loaded'[i] = loaded[i]
    BY <2>1, <2>2 DEF CataloguesInv
  <2>5. \A i \in 1..Len(loaded) + 1 : i \in 1..Len(loaded) \/ i = Len(loaded) + 1
    BY <2>2
  <2>6. \A g \in Files : cache'[g] # NULL <=> \E i \in 1..Len(loaded) + 1 : loaded'[i] = g
    <3> TAKE g \in Files
    <3>1. CASE g = f
      <4>1. Len(loaded) + 1 \in 1..Len(loaded) + 1
        BY <2>2
      <4> QED
        BY <2>3, <2>4, <3>1, <4>1
    <3>2. CASE g # f
      <4>1. cache[g] # NULL <=> \E i \in 1..Len(loaded) : loaded[i] = g
        BY <2>2 DEF CataloguesInv, CataloguesOwnedOnce
      <4>2. (\E i \in 1..Len(loaded) : loaded[i] = g)
                <=> \E i \in 1..Len(loaded) + 1 : loaded'[i] = g
        BY <2>2, <2>4, <2>5, <3>2
      <4> QED
        BY <2>3, <3>2, <4>1, <4>2
    <3> QED
      BY <3>1, <3>2
  <2>7. \A i, j \in 1..Len(loaded) + 1 : loaded'[i] = loaded'[j] => i = j
    <3>1. \A i, j \in 1..Len(loaded) : loaded[i] = loaded[j] => i = j
      BY <2>2 DEF CataloguesInv, CataloguesOwnedOnce
    <3> QED
      BY <2>2, <2>4, <2>5, <3>1
  <2> QED
    BY <2>1, <2>3, <2>4, <2>6, <2>7 DEF CataloguesInv, CataloguesOwnedOnce
<1>3. CASE cache[f] = NULL /\ ~Loadable(f)
  <2>1. localization_entry' = NULL /\ UNCHANGED <<content, cache, loaded>>
    BY <1>3 DEF XSLTSetLocalization
  <2> QED
    BY <2>1 DEF CataloguesInv, CataloguesOwnedOnce
<1> QED
  BY <1>1, <1>2, <1>3

(* The message of an identifier is one of the catalogue.                   *)
LEMMA SomeLeast ==
  ASSUME NEW I \in SUBSET Nat, I # {}
  PROVE  Min(I) \in I
<1>1. PICK least \in I : \A j \in I : ~(<<j, least>> \in OpToRel(<, Nat))
  BY WFMin, NatLessThanWellFounded, Zenon
<1>2. \A j \in I : ~(j < least)
  BY <1>1, Zenon DEF OpToRel
<1>3. \A j \in I : least <= j
  BY <1>2
<1> QED
  BY <1>3 DEF Min

Messages == [id : Texts, text : Texts, plural : Seq(Texts)]

LEMMA MessageIsOne ==
  ASSUME NEW c \in Catalogs, NEW id, Message(c, id) # NULL
  PROVE  Message(c, id) \in Messages
<1> DEFINE I == {i \in 1..Len(c.messages) : c.messages[i].id = id}
<1>1. c.messages \in Seq(Messages)
  BY SettingsConstants DEF Messages
<1>2. Message(c, id) = IF I # {} THEN (IF Min(I) = 0 THEN NULL ELSE c.messages[Min(I)]) ELSE NULL
  BY DEF Message, SelectInSeq
<1>3. I \in SUBSET Nat /\ I \subseteq 1..Len(c.messages)
  OBVIOUS
<1>4. I # {} => Min(I) \in 1..Len(c.messages)
  <2> HIDE DEF I
  <2> QED
    BY <1>3, SomeLeast
<1> HIDE DEF I
<1> QED
  BY <1>1, <1>2, <1>4

LEMMA LocalizedIsText ==
  ASSUME CataloguesInv, localization_entry # NULL, NEW id, NEW n,
         Localized(id, n) # NULL
  PROVE  Localized(id, n) \in Texts
<1> DEFINE c == cache[localization_entry]
           m == Message(c, id)
           k == get_plural(c.language, n)
<1>1. c \in Catalogs
  BY DEF CataloguesInv, CataloguesOwnedOnce
<1>2. Localized(id, n) = IF m = NULL THEN NULL
                         ELSE IF n = NULL THEN m.text
                         ELSE IF k < Len(m.plural) THEN m.plural[k + 1] ELSE NULL
  BY DEF Localized
<1>3. m # NULL
  BY <1>2
<1>4. k \in 0..2
  <2> HIDE DEF c
  <2> QED
    BY DEF get_plural, slavic, polish, one_or_many
<1> HIDE DEF c
<1>5. m \in Messages
  BY <1>1, <1>3, MessageIsOne
<1> HIDE DEF m, k
<1>6. m.text \in Texts /\ m.plural \in Seq(Texts)
  BY <1>5 DEF Messages
<1>7. k < Len(m.plural) => k + 1 \in 1..Len(m.plural)
  BY <1>4, <1>6
<1> QED
  BY <1>2, <1>3, <1>6, <1>7

(***************************************************************************)
(* The text that is shown: of the catalogue or, where it has none, the     *)
(* identifier itself, with all pairs substituted (functions.c:1175-1286).  *)
(***************************************************************************)
LEMMA ShownStep ==
  ASSUME CataloguesInv, NEW call \in Calls, xf_localization_base(call)
  PROVE  PlaceholdersReplaced'
<1> DEFINE found == IF localization_entry = NULL THEN NULL ELSE Localized(call.id, call.n)
           start == IF found = NULL THEN call.id ELSE found
           pairs == call.pairs
           text == Filled(start, pairs)
<1>1. shown' = [call |-> call, text |-> text]
  BY DEF xf_localization_base
<1>2. call.id \in Texts /\ pairs \in PairsOfCalls
  BY SettingsConstants DEF PairsOfCalls
<1>3. start \in Texts
  <2>1. CASE found = NULL
    BY <1>2, <2>1
  <2>2. CASE found # NULL
    BY <2>2, LocalizedIsText
  <2> QED
    BY <2>1, <2>2
<1> HIDE DEF start
<1>4. \A i \in 1..Len(pairs) :
          Contains(text, Placeholder(pairs[i].name)) =>
              \E j \in i..Len(pairs) : Contains(pairs[j].value, Placeholder(pairs[i].name))
  BY <1>2, <1>3, FilledHolds
<1>5. DOMAIN pairs = 1..Len(pairs)
  BY <1>2 DEF PairsOfCalls
<1>6. shown'.call.pairs = pairs /\ shown'.text = text
  BY <1>1
<1> HIDE DEF pairs, text
<1> QED
  BY <1>4, <1>5, <1>6 DEF PlaceholdersReplaced

LEMMA SettingsInvariant == SettingsSpec => []SettingsInv
<1>1. SettingsInit => SettingsInv
  <2> SUFFICES ASSUME SettingsInit PROVE SettingsInv
    OBVIOUS
  <2>1. RightsInv
    <3>1. [g \in Groups |-> NULL] \in [Groups -> (SUBSET Actions) \cup {NULL}]
      OBVIOUS
    <3>2. group_rights = [l \in Libraries |-> [g \in Groups |-> NULL]] /\ user_rights = NULL
      BY DEF SettingsInit
    <3>3. group_rights \in [Libraries -> [Groups -> (SUBSET Actions) \cup {NULL}]]
      BY <3>1, <3>2
    <3> QED
      BY <3>2, <3>3 DEF RightsInv
  <2>2. CataloguesInv
    BY DEF SettingsInit, CataloguesInv, CataloguesOwnedOnce
  <2>3. PlaceholdersReplaced
    BY DEF SettingsInit, PlaceholdersReplaced
  <2> QED
    BY <2>1, <2>2, <2>3 DEF SettingsInv
<1>2. SettingsInv /\ [SettingsNext]_settingsVars => SettingsInv'
  <2> SUFFICES ASSUME SettingsInv, [SettingsNext]_settingsVars PROVE SettingsInv'
    OBVIOUS
  <2>1. RightsInv /\ CataloguesInv /\ PlaceholdersReplaced
    BY DEF SettingsInv
  <2>2. UNCHANGED rightsVars => RightsInv'
    BY <2>1 DEF rightsVars, RightsInv
  <2>3. UNCHANGED <<content, cache, loaded, localization_entry>> => CataloguesInv'
    BY <2>1 DEF CataloguesInv, CataloguesOwnedOnce
  <2>4. UNCHANGED shown => PlaceholdersReplaced'
    BY <2>1 DEF PlaceholdersReplaced
  <2>5. CASE \/ \E l \in Libraries, g \in Groups, a \in SUBSET Actions : XSLTDefineGroupRights(l, g, a)
             \/ \E l \in Libraries, gs \in SUBSET Groups : XSLTSetUserContext(l, gs)
    <3>1. RightsInv'
      BY <2>1, <2>5, RightsStep
    <3>2. UNCHANGED poVars
      BY <2>5 DEF XSLTDefineGroupRights, XSLTSetUserContext
    <3> QED
      BY <2>3, <2>4, <3>1, <3>2 DEF poVars, SettingsInv
  <2>6. ASSUME NEW f \in Files, XSLTSetLocalization(f) PROVE SettingsInv'
    <3>1. CataloguesInv'
      BY <2>1, <2>6, CataloguesStep
    <3>2. UNCHANGED rightsVars /\ UNCHANGED shown
      BY <2>6 DEF XSLTSetLocalization
    <3> QED
      BY <2>2, <2>4, <3>1, <3>2 DEF SettingsInv
  <2>7. ASSUME NEW f \in Files, NEW c \in Catalogs \cup {NULL}, EditFile(f, c) PROVE SettingsInv'
    <3>1. /\ content' = [content EXCEPT ![f] = c]
          /\ UNCHANGED rightsVars /\ UNCHANGED <<cache, loaded, localization_entry, shown>>
      BY <2>7 DEF EditFile
    <3>2. CataloguesInv'
      BY <2>1, <3>1 DEF CataloguesInv, CataloguesOwnedOnce
    <3> QED
      BY <2>2, <2>4, <3>1, <3>2 DEF SettingsInv
  <2>8. ASSUME NEW call \in Calls, xf_localization_base(call) PROVE SettingsInv'
    <3>1. PlaceholdersReplaced'
      BY <2>1, <2>8, ShownStep
    <3>2. UNCHANGED rightsVars /\ UNCHANGED <<content, cache, loaded, localization_entry>>
      BY <2>8 DEF xf_localization_base
    <3> QED
      BY <2>2, <2>3, <3>1, <3>2 DEF SettingsInv
  <2>9. CASE UNCHANGED settingsVars
    BY <2>2, <2>3, <2>4, <2>9 DEF settingsVars, poVars, SettingsInv
  <2> QED
    BY <2>5, <2>6, <2>7, <2>8, <2>9 DEF SettingsNext
<1> QED
  BY <1>1, <1>2, PTL DEF SettingsSpec

(***************************************************************************)
(* What the application sets up holds (SettingsHold; group_rights.c,       *)
(* localization.c, functions.c:1175-1286): the rights of a user are those  *)
(* of the groups, catalogues stand in the list once, and a placeholder of  *)
(* a call is shown only where a value brought it in, for any tables,       *)
(* catalogues and calls.                                                   *)
(***************************************************************************)
THEOREM SetupHolds == SettingsSpec => []SettingsHold
<1>1. SettingsInv => SettingsHold
  <2> SUFFICES ASSUME SettingsInv PROVE RightsFollowGroups
    BY DEF SettingsInv, CataloguesInv, SettingsHold
  <2> SUFFICES ASSUME user_rights # NULL, NEW a \in Actions
               PROVE  xf_check(a) <=> \E g \in user.groups : a \in group_rights[user.library][g]
    BY DEF RightsFollowGroups
  <2> QED
    BY DEF SettingsInv, RightsInv, xf_check
<1> QED
  BY <1>1, SettingsInvariant, PTL
=============================================================================
