---------------------------- MODULE LinkedProofs ----------------------------
(***************************************************************************)
(* Theorems about the two linked structures and the abstractions that they *)
(* implement: Dictionary, for any names, buckets and sizes, and            *)
(* LinkedQueue, for any threads, values and addresses.                     *)
(***************************************************************************)
EXTENDS Dictionary, LinkedQueue, TLAPS, FiniteSetTheorems, SequenceTheorems,
        WellFoundedInduction

-----------------------------------------------------------------------------
(* Dictionary                                                              *)

Entry == [name : Names, data : Data, next : Nat]

(* The types, with the room that a call to dict_add has already made.      *)
DictTyped ==
    /\ entries \in Seq(Entry)
    /\ allocated \in Nat
    /\ hash \in [Buckets -> Nat]
    /\ lookup \in {Idle} \cup [op : {"find"}, name : Names, data : {NULL}, h : Nat]
                        \cup [op : {"add"}, name : Names, data : Data, h : Nat]

bucket(i) == bucket_number[entries[i].name]

(* A link leads to the last entry before it in the same bucket.            *)
Chained == \A i \in 1..Len(entries) :
             /\ entries[i].next < i
             /\ \A j \in 1..Len(entries) :
                  entries[i].next < j /\ j < i => bucket(j) # bucket(i)

(* The head of a bucket is the last entry of it.                           *)
Headed == \A b \in Buckets :
            /\ hash[b] <= Len(entries)
            /\ \A j \in 1..Len(entries) : hash[b] < j => bucket(j) # b

(* The links of a chain stay in its bucket.                                *)
InBucket == /\ \A i \in 1..Len(entries) :
                 entries[i].next # 0 => bucket(entries[i].next) = bucket(i)
            /\ \A b \in Buckets : hash[b] # 0 => bucket(hash[b]) = b

(* What a walk has passed does not have the name it looks for.             *)
Walked == lookup # Idle =>
            /\ lookup.h <= Len(entries)
            /\ lookup.h # 0 => bucket(lookup.h) = bucket_number[lookup.name]
            /\ \A j \in 1..Len(entries) : lookup.h < j => entries[j].name # lookup.name

(* A name that has entries has a newest one.                               *)
IsNewest(i, n) == i \in EntriesOf(n) /\ \A j \in EntriesOf(n) : j <= i

HasNewest == \A n \in Names : EntriesOf(n) # {} => \E i \in EntriesOf(n) : IsNewest(i, n)

DictInv == /\ DictTyped /\ Chained /\ Headed /\ InBucket
           /\ Walked /\ HasNewest /\ NoOverflow

-----------------------------------------------------------------------------
(* An empty dictionary satisfies the invariant (xmldict.c, dict_new).       *)
LEMMA DictInvInit == DictInit => DictInv
  BY DictConstants DEF DictInit, DictInv, DictTyped, Chained, Headed, InBucket, Walked,
     HasNewest, EntriesOf, NoOverflow, Idle, bucket

(* A new entry in front of its chain keeps the chains in order.            *)
LEMMA PrependKeepsChains ==
  ASSUME DictTyped, Chained, Headed, InBucket, NEW n \in Names, NEW d \in Data, Prepend(n, d)
  PROVE  /\ entries' \in Seq(Entry)
         /\ hash' \in [Buckets -> Nat]
         /\ Chained' /\ Headed' /\ InBucket'
         /\ Len(entries') = Len(entries) + 1
         /\ \A i \in 1..Len(entries) : entries'[i] = entries[i]
         /\ entries'[Len(entries) + 1].name = n
         /\ entries'[Len(entries) + 1].data = d
<1> DEFINE e == [name |-> n, data |-> d, next |-> hash[bucket_number[n]]]
           L == Len(entries)
<1>1. bucket_number[n] \in Buckets /\ hash[bucket_number[n]] \in Nat
  BY DictConstants DEF DictTyped
<1>2. e \in Entry
  BY <1>1 DEF Entry
<1>3. /\ entries' \in Seq(Entry)
      /\ Len(entries') = L + 1
      /\ \A i \in 1..L : entries'[i] = entries[i]
      /\ entries'[L + 1] = e
      /\ L \in Nat
  BY <1>2 DEF Prepend, DictTyped
<1>4. hash' \in [Buckets -> Nat]
  BY <1>3, <1>1 DEF Prepend, DictTyped
<1>5. /\ \A i \in 1..L : bucket(i)' = bucket(i)
      /\ bucket_number[entries'[L + 1].name] = bucket_number[n]
  BY <1>3 DEF bucket
<1>6. /\ \A i \in 1..L : entries[i].next \in Nat
      /\ \A b \in Buckets : hash[b] \in Nat
      /\ hash' = [hash EXCEPT ![bucket_number[n]] = L + 1]
      /\ \A i \in 1..L : bucket(i) \in Buckets
  <2>1. \A i \in 1..L : entries[i] \in Entry
    BY <1>3 DEF DictTyped
  <2> QED BY <2>1, DictConstants DEF DictTyped, Entry, Prepend, bucket
<1>7. Chained'
  <2> SUFFICES ASSUME NEW i \in 1..(L + 1)
               PROVE  /\ entries'[i].next < i
                      /\ \A j \in 1..(L + 1) :
                           entries'[i].next < j /\ j < i => bucket(j)' # bucket(i)'
    BY <1>3 DEF Chained
  <2>1. CASE i = L + 1
    BY <2>1, <1>1, <1>3, <1>5 DEF Headed, bucket
  <2>2. CASE i \in 1..L
    BY <2>2, <1>3, <1>5, <1>6 DEF Chained
  <2> QED BY <2>1, <2>2, <1>3
<1>8. Headed'
  BY <1>1, <1>3, <1>5, <1>6 DEF Headed, bucket, DictTyped
<1>9. InBucket'
  <2>1. ASSUME NEW i \in 1..(L + 1), entries'[i].next # 0
        PROVE  bucket_number[entries'[entries'[i].next].name] = bucket_number[entries'[i].name]
    <3>1. CASE i = L + 1
      <4>1. entries'[i].next = hash[bucket_number[n]] /\ entries'[i].name = n
        BY <3>1, <1>3
      <4>2. entries'[i].next \in 1..L
        BY <4>1, <2>1, <1>1, <1>3 DEF Headed
      <4> QED BY <4>1, <4>2, <2>1, <1>1, <1>3 DEF InBucket, bucket
    <3>2. CASE i \in 1..L
      <4>1. entries'[i] = entries[i] /\ entries[i].next \in 1..L
        BY <3>2, <2>1, <1>3, <1>6 DEF Chained
      <4> QED BY <4>1, <3>2, <2>1, <1>3 DEF InBucket, bucket
    <3> QED BY <3>1, <3>2, <1>3
  <2>2. ASSUME NEW b \in Buckets, hash'[b] # 0
        PROVE  bucket_number[entries'[hash'[b]].name] = b
    <3>1. CASE b = bucket_number[n]
      <4>1. hash'[b] = L + 1
        BY <3>1, <1>6 DEF DictTyped
      <4> QED BY <4>1, <3>1, <1>3
    <3>2. CASE b # bucket_number[n]
      <4>1. hash'[b] = hash[b] /\ hash[b] \in 1..L
        BY <3>2, <2>2, <1>3, <1>6 DEF Headed, DictTyped
      <4> QED BY <4>1, <2>2, <1>3 DEF InBucket, bucket
    <3> QED BY <3>1, <3>2
  <2> QED BY <2>1, <2>2, <1>3 DEF InBucket, bucket
<1> QED BY <1>3, <1>4, <1>7, <1>8, <1>9

(* Growing leaves room for one entry.                                      *)
LEMMA GrowMakesRoom ==
  ASSUME DictTyped, NoOverflow, Grow
  PROVE  allocated' \in Nat /\ allocated' >= allocated /\ Len(entries) < allocated'
  BY DictConstants DEF DictTyped, NoOverflow, Grow

(* The newest entry of a name gives its meaning.                           *)
LEMMA NewestIsMeaning ==
  ASSUME DictTyped, NEW n \in Names, NEW i, IsNewest(i, n)
  PROVE  Meaning[n] = entries[i].data
<1> DEFINE c == CHOOSE k \in EntriesOf(n) : \A j \in EntriesOf(n) : j <= k
<1>1. c \in EntriesOf(n) /\ \A j \in EntriesOf(n) : j <= c
  BY DEF IsNewest
<1>2. c = i
  BY <1>1 DEF IsNewest, EntriesOf, DictTyped
<1> QED BY <1>1, <1>2 DEF Meaning

(* A new entry changes the meaning of its name and of no other.            *)
LEMMA PrependMeaning ==
  ASSUME DictTyped, Chained, Headed, InBucket, HasNewest,
         NEW n \in Names, NEW d \in Data, Prepend(n, d)
  PROVE  HasNewest' /\ Meaning' = [Meaning EXCEPT ![n] = d]
<1> DEFINE L == Len(entries)
<1>1. /\ L \in Nat
      /\ Len(entries') = L + 1
      /\ \A i \in 1..L : entries'[i] = entries[i]
      /\ entries'[L + 1].name = n
      /\ entries'[L + 1].data = d
  BY PrependKeepsChains DEF DictTyped
<1>2. \A m \in Names \ {n} : EntriesOf(m)' = EntriesOf(m)
  BY <1>1 DEF EntriesOf
<1>3. EntriesOf(n)' = EntriesOf(n) \cup {L + 1}
  BY <1>1 DEF EntriesOf
<1>4. L + 1 \in EntriesOf(n)' /\ \A j \in EntriesOf(n)' : j <= L + 1
  BY <1>1, <1>3 DEF EntriesOf
<1>5. HasNewest'
  <2> SUFFICES ASSUME NEW m \in Names, EntriesOf(m)' # {}
               PROVE  \E i \in EntriesOf(m)' : \A j \in EntriesOf(m)' : j <= i
    BY DEF HasNewest, IsNewest
  <2>1. CASE m = n
    BY <2>1, <1>4
  <2>2. CASE m # n
    BY <2>2, <1>2 DEF HasNewest, IsNewest
  <2> QED BY <2>1, <2>2
<1>6. Meaning'[n] = d
  <2> DEFINE c == CHOOSE k \in EntriesOf(n)' : \A j \in EntriesOf(n)' : j <= k
  <2>1. c \in EntriesOf(n)' /\ \A j \in EntriesOf(n)' : j <= c
    BY <1>4
  <2>2. c = L + 1
    BY <2>1, <1>1, <1>4 DEF EntriesOf
  <2> QED BY <2>1, <2>2, <1>1 DEF Meaning
<1>7. ASSUME NEW m \in Names, m # n
      PROVE  Meaning'[m] = Meaning[m]
  <2>1. EntriesOf(m)' = EntriesOf(m)
    BY <1>2, <1>7
  <2>2. CASE EntriesOf(m) = {}
    BY <2>1, <2>2 DEF Meaning
  <2>3. CASE EntriesOf(m) # {}
    <3> DEFINE c == CHOOSE k \in EntriesOf(m) : \A j \in EntriesOf(m) : j <= k
    <3>1. c \in EntriesOf(m)
      BY <2>3 DEF HasNewest, IsNewest
    <3>2. entries'[c] = entries[c]
      BY <3>1, <1>1 DEF EntriesOf
    <3>3. Meaning[m] = entries[c].data
      BY <2>3 DEF Meaning
    <3>4. Meaning'[m] = entries'[c].data
      BY <2>1, <2>3 DEF Meaning
    <3> QED BY <3>2, <3>3, <3>4
  <2> QED BY <2>2, <2>3
<1>8. /\ DOMAIN Meaning = Names
      /\ Meaning = [m \in Names |-> Meaning[m]]
      /\ Meaning' = [m \in Names |-> Meaning'[m]]
  BY DEF Meaning
<1> QED BY <1>5, <1>6, <1>7, <1>8

(* A walk that ends without its name has shown that the name is new.       *)
LEMMA WalkedToTheEnd ==
  ASSUME DictTyped, Walked, lookup # Idle, lookup.h = 0
  PROVE  lookup.name \in Names /\ EntriesOf(lookup.name) = {} /\ Meaning[lookup.name] = NULL
<1>1. lookup.name \in Names
  BY DEF DictTyped
<1>2. EntriesOf(lookup.name) = {}
  BY <1>1 DEF Walked, EntriesOf, DictTyped
<1> QED BY <1>1, <1>2 DEF Meaning

(* A walk that meets its name has met the newest entry of it.              *)
LEMMA FoundIsNewest ==
  ASSUME DictTyped, Walked, Found
  PROVE  /\ lookup.name \in Names
         /\ lookup.h \in 1..Len(entries)
         /\ Meaning[lookup.name] = entries[lookup.h].data
         /\ entries[lookup.h].data \in Data
<1>1. lookup # Idle /\ lookup.h # 0 /\ entries[lookup.h].name = lookup.name
  BY DEF Found
<1>2. lookup.name \in Names /\ lookup.h \in 1..Len(entries)
  BY <1>1 DEF DictTyped, Walked
<1>3. entries[lookup.h] \in Entry
  BY <1>2 DEF DictTyped
<1>4. IsNewest(lookup.h, lookup.name)
  BY <1>1, <1>2 DEF IsNewest, EntriesOf, Walked, DictTyped
<1> QED BY <1>2, <1>3, <1>4, NewestIsMeaning DEF Entry

(* What is left as it is when only the walk or the capacity changes.       *)
LEMMA ChainsStay ==
  ASSUME UNCHANGED <<entries, hash>>
  PROVE  /\ Chained' = Chained /\ Headed' = Headed /\ InBucket' = InBucket
         /\ HasNewest' = HasNewest /\ Meaning' = Meaning
  BY DEF Chained, Headed, InBucket, HasNewest, IsNewest, EntriesOf, Meaning, bucket

(* A walk starts at the head of the bucket of its name.                    *)
LEMMA WalkStarts ==
  ASSUME DictTyped, Headed, InBucket, NEW n \in Names
  PROVE  LET h == hash[bucket_number[n]] IN
         /\ h \in Nat /\ h <= Len(entries)
         /\ h # 0 => bucket(h) = bucket_number[n]
         /\ \A j \in 1..Len(entries) : h < j => entries[j].name # n
<1>1. bucket_number[n] \in Buckets
  BY DictConstants
<1> QED BY <1>1 DEF Headed, InBucket, DictTyped, bucket

(* Every call and every turn of a walk keeps the invariant.                *)
LEMMA DictInvStep == DictInv /\ [DictNext]_dictVars => DictInv'
<1> SUFFICES ASSUME DictInv, [DictNext]_dictVars PROVE DictInv'
  OBVIOUS
<1> USE DEF DictInv
<1>1. ASSUME NEW n \in Names, dict_find(n) PROVE DictInv'
  <2>1. /\ lookup' = [op |-> "find", name |-> n, data |-> NULL, h |-> hash[bucket_number[n]]]
        /\ UNCHANGED <<entries, allocated, hash>>
    BY <1>1 DEF dict_find
  <2>2. DictTyped' /\ Walked' /\ NoOverflow'
    BY <2>1, WalkStarts DEF DictTyped, Walked, NoOverflow, bucket
  <2> QED BY <2>1, <2>2, ChainsStay
<1>2. ASSUME NEW n \in Names, NEW d \in Data, dict_add(n, d) PROVE DictInv'
  <2>1. /\ lookup' = [op |-> "add", name |-> n, data |-> d, h |-> hash[bucket_number[n]]]
        /\ Grow
        /\ UNCHANGED <<entries, hash>>
    BY <1>2 DEF dict_add
  <2>2. allocated' \in Nat /\ Len(entries) < allocated'
    BY <2>1, GrowMakesRoom
  <2>3. DictTyped' /\ Walked' /\ NoOverflow'
    BY <2>1, <2>2, WalkStarts DEF DictTyped, Walked, NoOverflow, bucket
  <2> QED BY <2>1, <2>3, ChainsStay
<1>3. ASSUME NEW n \in Names, NEW d \in Data, dict_replace(n, d) PROVE DictInv'
  <2>1. lookup = Idle /\ lookup' = Idle /\ Grow /\ Prepend(n, d)
    BY <1>3 DEF dict_replace
  <2>2. allocated' \in Nat /\ Len(entries) < allocated'
    BY <2>1, GrowMakesRoom
  <2>3. DictTyped' /\ Walked' /\ NoOverflow'
    BY <2>1, <2>2, PrependKeepsChains DEF DictTyped, Walked, NoOverflow, Idle
  <2> QED BY <2>1, <2>3, PrependKeepsChains, PrependMeaning
<1>4. ASSUME NextEntry PROVE DictInv'
  <2> DEFINE g == entries[lookup.h].next
  <2>1. /\ lookup # Idle /\ lookup.h # 0 /\ entries[lookup.h].name # lookup.name
        /\ lookup' = [lookup EXCEPT !.h = g]
        /\ UNCHANGED <<entries, allocated, hash>>
    BY <1>4 DEF NextEntry
  <2>2. lookup.h \in 1..Len(entries) /\ bucket(lookup.h) = bucket_number[lookup.name]
    BY <2>1 DEF DictTyped, Walked
  <2>3. g \in Nat /\ g < lookup.h /\ (g # 0 => bucket(g) = bucket_number[lookup.name])
    <3>1. entries[lookup.h] \in Entry
      BY <2>2 DEF DictTyped
    <3> QED BY <3>1, <2>2 DEF Entry, Chained, InBucket
  <2>4. \A j \in 1..Len(entries) : g < j => entries[j].name # lookup.name
    <3> SUFFICES ASSUME NEW j \in 1..Len(entries), g < j PROVE entries[j].name # lookup.name
      OBVIOUS
    <3>1. CASE j < lookup.h
      BY <3>1, <2>2 DEF Chained, bucket
    <3>2. CASE j = lookup.h
      BY <3>2, <2>1
    <3>3. CASE lookup.h < j
      BY <3>3, <2>1 DEF Walked
    <3> QED BY <3>1, <3>2, <3>3, <2>2
  <2>5. DictTyped' /\ NoOverflow' /\ lookup'.h = g /\ lookup'.name = lookup.name
    BY <2>1, <2>3 DEF DictTyped, NoOverflow, Idle
  <2>6. Walked'
    BY <2>1, <2>2, <2>3, <2>4, <2>5 DEF Walked, bucket
  <2> QED BY <2>1, <2>5, <2>6, ChainsStay
<1>5. ASSUME Found \/ NotFound PROVE DictInv'
  <2>1. lookup' = Idle /\ UNCHANGED <<entries, allocated, hash>>
    BY <1>5 DEF Found, NotFound
  <2>2. DictTyped' /\ Walked' /\ NoOverflow'
    BY <2>1 DEF DictTyped, Walked, NoOverflow, Idle
  <2> QED BY <2>1, <2>2, ChainsStay
<1>6. ASSUME AddEntry PROVE DictInv'
  <2>1. /\ lookup.op = "add" /\ lookup' = Idle /\ UNCHANGED allocated
        /\ Prepend(lookup.name, lookup.data)
    BY <1>6 DEF AddEntry
  <2>2. lookup.name \in Names /\ lookup.data \in Data
    BY <2>1 DEF DictTyped, Idle
  <2>3. Len(entries) < allocated
    BY <2>1 DEF NoOverflow
  <2>4. DictTyped' /\ Walked' /\ NoOverflow'
    BY <2>1, <2>2, <2>3, PrependKeepsChains DEF DictTyped, Walked, NoOverflow, Idle
  <2> QED BY <2>1, <2>2, <2>4, PrependKeepsChains, PrependMeaning
<1>7. CASE UNCHANGED dictVars
  <2>1. DictTyped' /\ Walked' /\ NoOverflow'
    BY <1>7 DEF dictVars, DictTyped, Walked, NoOverflow, Idle, bucket
  <2> QED BY <1>7, <2>1, ChainsStay DEF dictVars
<1> QED BY <1>1, <1>2, <1>3, <1>4, <1>5, <1>6, <1>7 DEF DictNext

-----------------------------------------------------------------------------
(* The array of entries is never written past its end (xmldict.c:108-122). *)
THEOREM EntriesStayInBounds == DictSpec => []NoOverflow
<1>1. DictInv => NoOverflow
  BY DEF DictInv
<1> QED BY <1>1, DictInvInit, DictInvStep, PTL DEF DictSpec

(* The invariant holds throughout.                                         *)
LEMMA DictInvHolds == DictSpec => []DictInv
  BY DictInvInit, DictInvStep, PTL DEF DictSpec

(* The meaning of a dictionary is a function on the names.                 *)
LEMMA MeaningOnNames == Meaning = [n \in Names |-> Meaning[n]]
  BY DEF Meaning

(* To set a place to the value it has changes nothing.                     *)
LEMMA SameValue ==
  ASSUME NEW S, NEW f, f = [s \in S |-> f[s]], NEW x
  PROVE  f = [f EXCEPT ![x] = f[x]]
  OBVIOUS

(* An empty dictionary means the empty map.                                *)
LEMMA MapInitially == DictInit => Promise!MapInit
  BY DEF DictInit, Promise!MapInit, Promise!Idle, Idle, Meaning, Asked, EntriesOf

(* Every step of the dictionary is a step of the map or none.              *)
LEMMA MapStep == DictInv /\ [DictNext]_dictVars => [Promise!MapNext]_Promise!mapVars
<1> SUFFICES ASSUME DictInv, [DictNext]_dictVars
             PROVE  Promise!MapNext \/ UNCHANGED Promise!mapVars
  OBVIOUS
<1> USE DEF DictInv, Promise!Idle, Idle, Promise!MapNext, Promise!mapVars
<1>1. ASSUME NEW n \in Names, dict_find(n) PROVE Promise!Ask("find", n, NULL)
  <2>1. UNCHANGED Meaning
    BY <1>1, ChainsStay DEF dict_find
  <2> QED BY <1>1, <2>1 DEF dict_find, Promise!Ask, Asked
<1>2. ASSUME NEW n \in Names, NEW d \in Data, dict_add(n, d) PROVE Promise!Ask("add", n, d)
  <2>1. UNCHANGED Meaning
    BY <1>2, ChainsStay DEF dict_add
  <2> QED BY <1>2, <2>1 DEF dict_add, Promise!Ask, Asked
<1>3. ASSUME NEW n \in Names, NEW d \in Data, dict_replace(n, d) PROVE Promise!Replace(n, d)
  <2>1. Meaning' = [Meaning EXCEPT ![n] = d]
    BY <1>3, PrependMeaning DEF dict_replace
  <2> QED BY <1>3, <2>1 DEF dict_replace, Promise!Replace, Asked
<1>4. ASSUME NextEntry PROVE UNCHANGED Promise!mapVars
  <2>1. UNCHANGED Meaning
    BY <1>4, ChainsStay DEF NextEntry
  <2>2. UNCHANGED Asked
    BY <1>4 DEF NextEntry, Asked, DictTyped
  <2> QED BY <1>4, <2>1, <2>2 DEF NextEntry
<1>5. ASSUME Found PROVE Promise!AnswerFind \/ Promise!AnswerAdd
  <2>1. UNCHANGED Meaning /\ lookup' = Idle /\ lookup # Idle
    BY <1>5, ChainsStay DEF Found
  <2>2. /\ lookup.name \in Names
        /\ Meaning[lookup.name] = entries[lookup.h].data
        /\ Meaning[lookup.name] # NULL
    BY <1>5, FoundIsNewest, DictConstants
  <2>3. Asked.op = lookup.op /\ Asked.name = lookup.name /\ Asked' = Idle
    BY <2>1 DEF Asked
  <2>4. CASE lookup.op = "find"
    BY <1>5, <2>1, <2>2, <2>3, <2>4 DEF Found, Promise!AnswerFind
  <2>5. CASE lookup.op = "add"
    <3>1. Meaning = [Meaning EXCEPT ![lookup.name] = Meaning[lookup.name]]
      BY SameValue, MeaningOnNames
    <3>2. result' = 0
      BY <1>5, <2>5 DEF Found
    <3> QED BY <2>1, <2>2, <2>3, <2>5, <3>1, <3>2 DEF Promise!AnswerAdd
  <2> QED BY <2>1, <2>4, <2>5 DEF DictTyped
<1>6. ASSUME NotFound PROVE Promise!AnswerFind
  <2>1. UNCHANGED Meaning
    BY <1>6, ChainsStay DEF NotFound
  <2>2. Meaning[lookup.name] = NULL /\ lookup # Idle
    BY <1>6, WalkedToTheEnd DEF NotFound
  <2> QED BY <1>6, <2>1, <2>2 DEF NotFound, Promise!AnswerFind, Asked
<1>7. ASSUME AddEntry PROVE Promise!AnswerAdd
  <2>1. lookup.op = "add" /\ lookup.h = 0 /\ lookup # Idle
    BY <1>7 DEF AddEntry
  <2>2. lookup.name \in Names /\ lookup.data \in Data /\ Meaning[lookup.name] = NULL
    BY <2>1, WalkedToTheEnd DEF DictTyped
  <2>3. Meaning' = [Meaning EXCEPT ![lookup.name] = lookup.data]
    BY <1>7, <2>2, PrependMeaning DEF AddEntry
  <2>4. /\ Asked.op = "add" /\ Asked.name = lookup.name /\ Asked.data = lookup.data
        /\ Asked' = Idle /\ result' = 1
    BY <1>7, <2>1 DEF AddEntry, Asked
  <2>5. Meaning' = [Meaning EXCEPT ![Asked.name] = IF @ = NULL THEN Asked.data ELSE @]
    BY <2>2, <2>3, <2>4 DEF Meaning
  <2> QED BY <2>1, <2>2, <2>4, <2>5 DEF Promise!AnswerAdd
<1>8. CASE UNCHANGED dictVars
  BY <1>8, ChainsStay DEF dictVars, Asked
<1> QED BY <1>1, <1>2, <1>3, <1>4, <1>5, <1>6, <1>7, <1>8 DEF DictNext

(* The dictionary implements the map its users take it for (xmldict.c),    *)
(* whatever the bucket numbers of the names are.                           *)
THEOREM DictionaryImplementsMap == DictSpec => IsMap
  BY MapInitially, MapStep, DictInvHolds, EntriesStayInBounds, PTL
     DEF DictSpec, IsMap, Promise!MapSpec

-----------------------------------------------------------------------------
(* LinkedQueue                                                             *)

(* Induction over a set of numbers.                                        *)
LEMMA AllNumbers ==
  ASSUME NEW A, 0 \in A, \A k \in Nat : k \in A => k + 1 \in A
  PROVE  \A k \in Nat : k \in A
<1> SUFFICES ASSUME NEW k \in Nat, k \notin A PROVE FALSE
  OBVIOUS
<1> DEFINE B == {j \in Nat : j \notin A}
<1>1. k \in B
  OBVIOUS
<1>2. PICK least \in B : \A j \in B : ~(<<j, least>> \in OpToRel(<, Nat))
  <2>1. B \subseteq Nat
    OBVIOUS
  <2> HIDE DEF B
  <2> QED
    BY <1>1, <2>1, WFMin, NatLessThanWellFounded, Zenon
<1>3. least \in Nat /\ least \notin A /\ least # 0
  OBVIOUS
<1>4. least - 1 \in Nat /\ least - 1 < least /\ (least - 1) + 1 = least
  BY <1>3
<1>5. least - 1 \in B
  BY <1>3, <1>4
<1>6. <<least - 1, least>> \in OpToRel(<, Nat)
  BY <1>3, <1>4, Zenon DEF OpToRel
<1> QED
  BY <1>2, <1>5, <1>6


(* The list from h to t: all that is allocated, each entry once.           *)
IsChain(m, h, t, c) ==
    /\ c \in Seq(DOMAIN m) /\ Len(c) \in Nat \ {0}
    /\ c[1] = h /\ c[Len(c)] = t
    /\ \A i, j \in 1..Len(c) : c[i] = c[j] => i = j
    /\ \A i \in 1..(Len(c) - 1) : m[c[i]].next = c[i + 1]
    /\ m[t].next = NULL
    /\ \A a \in DOMAIN m : \E i \in 1..Len(c) : c[i] = a

MemoryTyped ==
    /\ DOMAIN memory \subseteq Addresses
    /\ \A a \in DOMAIN memory : memory[a] = [value |-> memory[a].value, next |-> memory[a].next]
    /\ memory = [a \in DOMAIN memory |-> memory[a]]

LinkedInv == MemoryTyped /\ \E c : IsChain(memory, head, tail, c)

(* The way along the links is the chain, and NULL from its end on.         *)
LEMMA AlongChain ==
  ASSUME NEW m, NEW h, NEW t, NEW c, IsChain(m, h, t, c), NULL \notin DOMAIN m
  PROVE  \A n \in Nat : Along(m, h)[n] = IF n < Len(c) THEN c[n + 1] ELSE NULL
<1> DEFINE Step(f, n) == IF n = 0 THEN h
                         ELSE IF f[n - 1] \in DOMAIN m THEN m[f[n - 1]].next ELSE NULL
           Is(f) == f = [n \in Nat |-> Step(f, n)]
           At(n) == IF n < Len(c) THEN c[n + 1] ELSE NULL
           g == [n \in Nat |-> At(n)]
           at == Along(m, h)
<1>1. /\ Len(c) \in Nat \ {0} /\ c[1] = h /\ m[c[Len(c)]].next = NULL
      /\ \A i \in 1..Len(c) : c[i] \in DOMAIN m
      /\ \A i \in 1..(Len(c) - 1) : m[c[i]].next = c[i + 1]
  <2>1. Len(c) \in Nat \ {0} /\ c[1] = h
    BY DEF IsChain
  <2>2. m[c[Len(c)]].next = NULL
    BY DEF IsChain
  <2>3. \A i \in 1..Len(c) : c[i] \in DOMAIN m
    BY DEF IsChain
  <2>4. \A i \in 1..(Len(c) - 1) : m[c[i]].next = c[i + 1]
    BY DEF IsChain
  <2> QED
    BY ONLY <2>1, <2>2, <2>3, <2>4
<1>2. ASSUME NEW n \in Nat, NEW f, n # 0 => f[n - 1] = At(n - 1) PROVE Step(f, n) = At(n)
  <2>1. CASE n = 0
    BY <1>1, <2>1
  <2>2. CASE n # 0 /\ n < Len(c)
    <3>1. n \in 1..(Len(c) - 1) /\ n \in 1..Len(c) /\ (n - 1) + 1 = n /\ n - 1 < Len(c)
      BY <1>1, <2>2
    <3>2. f[n - 1] = c[n]
      BY <1>2, <2>2, <3>1
    <3> QED
      BY <1>1, <2>2, <3>1, <3>2
  <2>3. CASE n = Len(c)
    <3>1. n \in 1..Len(c) /\ (n - 1) + 1 = n /\ n - 1 < Len(c) /\ n # 0
      BY <1>1, <2>3
    <3>2. f[n - 1] = c[n]
      BY <1>2, <3>1
    <3> QED
      BY <1>1, <2>3, <3>1, <3>2
  <2>4. CASE n > Len(c)
    <3>1. n # 0 /\ ~(n - 1 < Len(c)) /\ ~(n < Len(c))
      BY <1>1, <2>4
    <3> QED
      BY <1>2, <3>1
  <2> QED
    BY <1>1, <2>1, <2>2, <2>3, <2>4
<1>3. Is(g)
  <2>1. ASSUME NEW n \in Nat PROVE Step(g, n) = At(n)
    <3>1. n # 0 => n - 1 \in Nat
      OBVIOUS
    <3>2. n # 0 => g[n - 1] = At(n - 1)
      BY <3>1
    <3> HIDE DEF Step, At, g
    <3> QED
      BY <1>2, <3>2
  <2> HIDE DEF Step, At
  <2> QED
    BY <2>1
<1>4. at = CHOOSE f : Is(f)
  BY DEF Along
<1>5. Is(at)
  <2> HIDE DEF Is, g, at
  <2> QED
    BY <1>3, <1>4
<1> DEFINE A == {n \in Nat : at[n] = At(n)}
<1>6. \A n \in Nat : at[n] = Step(at, n)
  <2> HIDE DEF Step, at
  <2> QED
    BY <1>5
<1> HIDE DEF Step, At, at, Is, g
<1>7. 0 \in A
  BY <1>2, <1>6
<1>8. ASSUME NEW k \in Nat, k \in A PROVE k + 1 \in A
  <2>1. k + 1 \in Nat /\ (k + 1) - 1 = k
    OBVIOUS
  <2>2. at[(k + 1) - 1] = At((k + 1) - 1)
    BY <1>8, <2>1
  <2>3. Step(at, k + 1) = At(k + 1)
    BY <1>2, <2>1, <2>2
  <2> QED
    BY <1>6, <2>1, <2>3
<1>9. \A n \in Nat : n \in A
  <2> HIDE DEF A
  <2> QED
    BY <1>7, <1>8, AllNumbers
<1>10. \A n \in Nat : at[n] = At(n)
  BY <1>9
<1> QED
  BY <1>10 DEF At, at

(* There are as many entries as the chain is long.                         *)
LEMMA ChainCounts ==
  ASSUME NEW m, NEW h, NEW t, NEW c, IsChain(m, h, t, c)
  PROVE  Cardinality(DOMAIN m) = Len(c)
<1> DEFINE S == 1..Len(c)
<1>1. Len(c) \in Nat /\ \A i \in S : c[i] \in DOMAIN m
  BY DEF IsChain
<1>2. IsFiniteSet(S) /\ Cardinality(S) = Len(c)
  BY <1>1, FS_Interval
<1> DEFINE f == [i \in S |-> c[i]]
<1>3. f \in [S -> DOMAIN m]
  BY <1>1
<1>4. \A i, j \in S : f[i] = f[j] => i = j
  BY DEF IsChain
<1>5. \A a \in DOMAIN m : \E i \in S : f[i] = a
  BY DEF IsChain
<1>6. f \in Injection(S, DOMAIN m)
  BY <1>3, <1>4 DEF Injection, IsInjective
<1>7. f \in Surjection(S, DOMAIN m)
  BY <1>3, <1>5 DEF Surjection
<1>8. ExistsBijection(S, DOMAIN m)
  BY <1>6, <1>7 DEF ExistsBijection, Bijection
<1> QED
  BY <1>2, <1>8, FS_Bijection

(* The contents are the values of the chain but for the dummy's.           *)
LEMMA ValuesOfChain ==
  ASSUME NEW m, NEW h, NEW t, NEW c, IsChain(m, h, t, c), NULL \notin DOMAIN m
  PROVE  ValuesFrom(m, h) = [i \in 1..(Len(c) - 1) |-> m[c[i + 1]].value]
<1> DEFINE at == Along(m, h)
           Ends(n) == at[n] # NULL /\ at[n + 1] = NULL
           last == CHOOSE n \in 0..Cardinality(DOMAIN m) : Ends(n)
<1>1. \A n \in Nat : at[n] = IF n < Len(c) THEN c[n + 1] ELSE NULL
  BY AlongChain
<1>2. Cardinality(DOMAIN m) = Len(c) /\ Len(c) \in Nat \ {0}
  BY ChainCounts DEF IsChain
<1>3. \A i \in 1..Len(c) : c[i] # NULL
  BY DEF IsChain
<1> HIDE DEF at
<1>4. \A n \in 0..Cardinality(DOMAIN m) : Ends(n) <=> n = Len(c) - 1
  <2>1. ASSUME NEW n \in 0..Len(c) PROVE Ends(n) <=> n = Len(c) - 1
    <3>1. n \in Nat /\ n + 1 \in Nat
      BY <1>2
    <3>2. n < Len(c) => n + 1 \in 1..Len(c) /\ at[n] # NULL
      BY <1>1, <1>2, <1>3, <3>1
    <3>3. n + 1 < Len(c) => (n + 1) + 1 \in 1..Len(c) /\ at[n + 1] # NULL
      BY <1>1, <1>2, <1>3, <3>1
    <3>4. ~(n < Len(c)) => at[n] = NULL
      BY <1>1, <3>1
    <3>5. ~(n + 1 < Len(c)) => at[n + 1] = NULL
      BY <1>1, <3>1
    <3> QED
      BY <1>2, <3>1, <3>2, <3>3, <3>4, <3>5
  <2> QED
    BY <1>2, <2>1
<1>5. Len(c) - 1 \in 0..Cardinality(DOMAIN m)
  BY <1>2
<1>6. last = Len(c) - 1
  <2> HIDE DEF Ends
  <2> QED
    BY <1>4, <1>5
<1>7. ValuesFrom(m, h) = [i \in 1..last |-> m[at[i]].value]
  BY DEF ValuesFrom, at
<1> HIDE DEF last
<1>8. \A i \in 1..last : at[i] = c[i + 1]
  BY <1>1, <1>2, <1>6
<1> QED
  BY <1>6, <1>7, <1>8


(* The queue is empty when nothing comes behind the dummy.                 *)
LEMMA EmptyChain ==
  ASSUME NEW m, NEW h, NEW t, NEW c, IsChain(m, h, t, c), NULL \notin DOMAIN m
  PROVE  ValuesFrom(m, h) = <<>> <=> m[h].next = NULL
<1>1. PICK N : N = Len(c)
  OBVIOUS
<1>2. N \in Nat /\ N # 0
  BY <1>1 DEF IsChain
<1>3. /\ c[1] = h /\ c[N] = t /\ m[t].next = NULL
      /\ \A i \in 1..(N - 1) : m[c[i]].next = c[i + 1]
      /\ \A i \in 1..N : c[i] \in DOMAIN m
  BY <1>1 DEF IsChain
<1>4. PICK s : s = [i \in 1..(N - 1) |-> m[c[i + 1]].value]
  OBVIOUS
<1>5. ValuesFrom(m, h) = s
  BY <1>1, <1>4, ValuesOfChain
<1>6. CASE N = 1
  <2>1. m[h].next = NULL
    BY <1>3, <1>6
  <2>2. s = <<>>
    <3>1. 1..(N - 1) = {}
      BY <1>6
    <3> QED
      BY <1>4, <3>1
  <2> QED
    BY <1>5, <2>1, <2>2
<1>7. CASE N # 1
  <2>1. 1 \in 1..(N - 1) /\ 1 + 1 = 2 /\ 2 \in 1..N
    BY <1>2, <1>7
  <2>2. m[h].next = c[2] /\ c[2] # NULL
    BY <1>3, <2>1
  <2>3. DOMAIN s # {}
    BY <1>4, <2>1
  <2>4. s # <<>>
    BY <2>3
  <2> QED
    BY <1>5, <2>2, <2>4
<1> QED
  BY <1>6, <1>7

(* A new entry goes behind the tail.                                       *)
LEMMA ChainGrows ==
  ASSUME NEW m, NEW h, NEW t, NEW c, IsChain(m, h, t, c), NULL \notin DOMAIN m,
         NEW a, a \notin DOMAIN m, a # NULL, NEW v,
         NEW g, DOMAIN g = DOMAIN m \cup {a},
         g[a].value = v, g[a].next = NULL,
         \A x \in DOMAIN m : /\ g[x].value = m[x].value
                             /\ g[x].next = IF x = t THEN a ELSE m[x].next
  PROVE  /\ IsChain(g, h, a, Append(c, a))
         /\ ValuesFrom(g, h) = Append(ValuesFrom(m, h), v)
<1>1. PICK N : N = Len(c)
  OBVIOUS
<1>2. N \in Nat /\ N # 0
  BY <1>1 DEF IsChain
<1>3. /\ c \in Seq(DOMAIN m) /\ c[1] = h /\ c[N] = t /\ m[t].next = NULL
      /\ \A i, j \in 1..N : c[i] = c[j] => i = j
      /\ \A i \in 1..(N - 1) : m[c[i]].next = c[i + 1]
      /\ \A i \in 1..N : c[i] \in DOMAIN m
      /\ \A x \in DOMAIN m : \E i \in 1..N : c[i] = x
  BY <1>1 DEF IsChain
<1>4. PICK d : d = Append(c, a)
  OBVIOUS
<1>5. /\ d \in Seq(DOMAIN g) /\ Len(d) = N + 1 /\ d[N + 1] = a
      /\ \A i \in 1..N : d[i] = c[i]
  <2>1. c \in Seq(DOMAIN g) /\ a \in DOMAIN g
    BY <1>3
  <2> QED
    BY <1>1, <1>4, <2>1, AppendProperties
<1>6. \A k \in 1..(N + 1) : k \in 1..N \/ k = N + 1
  BY <1>2
<1>7. 1 \in 1..N /\ N \in 1..N /\ N + 1 \in 1..(N + 1) /\ N + 1 \in Nat \ {0} /\ (N + 1) - 1 = N
  BY <1>2
<1>8. IsChain(g, h, a, d)
  <2>1. d[1] = h /\ d[Len(d)] = a /\ Len(d) \in Nat \ {0}
    BY <1>3, <1>5, <1>7
  <2>2. ASSUME NEW i \in 1..(N + 1), NEW j \in 1..(N + 1), d[i] = d[j] PROVE i = j
    <3>1. \A k \in 1..N : d[k] # a /\ d[k] = c[k]
      BY <1>3, <1>5
    <3>2. CASE i \in 1..N /\ j \in 1..N
      BY <1>3, <2>2, <3>1, <3>2
    <3>3. CASE ~(i \in 1..N /\ j \in 1..N)
      BY <1>5, <1>6, <2>2, <3>1, <3>3
    <3> QED
      BY <3>2, <3>3
  <2>3. ASSUME NEW i \in 1..N PROVE g[d[i]].next = d[i + 1]
    <3>1. d[i] = c[i] /\ c[i] \in DOMAIN m
      BY <1>3, <1>5
    <3>2. CASE i = N
      BY <1>3, <1>5, <3>1, <3>2
    <3>3. CASE i # N
      <4>1. i \in 1..(N - 1) /\ i + 1 \in 1..N
        BY <1>2, <3>3
      <4>2. c[i] # t
        BY <1>3, <1>7, <3>3
      <4>3. g[d[i]].next = c[i + 1]
        BY <1>3, <3>1, <4>1, <4>2
      <4> QED
        BY <1>5, <4>1, <4>3
    <3> QED
      BY <3>2, <3>3
  <2>4. ASSUME NEW x \in DOMAIN g PROVE \E i \in 1..(N + 1) : d[i] = x
    <3>1. CASE x = a
      BY <1>5, <1>7, <3>1
    <3>2. CASE x \in DOMAIN m
      <4>1. PICK i \in 1..N : c[i] = x
        BY <1>3, <3>2
      <4>2. i \in 1..(N + 1)
        BY <1>2
      <4> QED
        BY <1>5, <4>1, <4>2
    <3> QED
      BY <3>1, <3>2
  <2> QED
    BY <1>5, <1>7, <2>1, <2>2, <2>3, <2>4 DEF IsChain
<1>9. PICK s : s = [i \in 1..(N - 1) |-> m[c[i + 1]].value]
  OBVIOUS
<1>10. PICK r : r = [i \in 1..N |-> g[d[i + 1]].value]
  OBVIOUS
<1>11. ValuesFrom(m, h) = s
  <2>1. ValuesFrom(m, h) = [i \in 1..(Len(c) - 1) |-> m[c[i + 1]].value]
    BY ONLY IsChain(m, h, t, c), NULL \notin DOMAIN m, ValuesOfChain
  <2> QED
    BY ONLY <1>1, <1>9, <2>1
<1>12. ValuesFrom(g, h) = r
  <2>1. NULL \notin DOMAIN g
    OBVIOUS
  <2> QED
    BY <1>5, <1>7, <1>8, <1>10, <2>1, ValuesOfChain
<1>13. r = Append(s, v)
  <2>1. PICK S : S = {s[i] : i \in 1..(N - 1)} \cup {v}
    OBVIOUS
  <2>2. N - 1 \in Nat /\ (N - 1) + 1 = N
    BY <1>2
  <2>3. s \in Seq(S) /\ Len(s) = N - 1
    <3>1. s = [i \in 1..(N - 1) |-> s[i]] /\ \A i \in 1..(N - 1) : s[i] \in S
      BY <1>9, <2>1
    <3> QED
      BY <2>2, <3>1
  <2>4. PICK q : q = Append(s, v)
    OBVIOUS
  <2>5. /\ q \in Seq(S) /\ Len(q) = N /\ q[N] = v
        /\ \A i \in 1..(N - 1) : q[i] = s[i]
    <3>1. v \in S
      BY <2>1
    <3> QED
      BY <2>2, <2>3, <2>4, <3>1, AppendProperties
  <2>6. q = [i \in 1..N |-> q[i]]
    BY <2>5
  <2>7. ASSUME NEW i \in 1..N PROVE q[i] = g[d[i + 1]].value
    <3>1. CASE i = N
      BY <1>5, <2>5, <3>1
    <3>2. CASE i # N
      <4>1. i \in 1..(N - 1) /\ i + 1 \in 1..N
        BY <1>2, <3>2
      <4>2. q[i] = m[c[i + 1]].value
        BY <1>9, <2>5, <4>1
      <4> QED
        BY <1>3, <1>5, <4>1, <4>2
    <3> QED
      BY <3>1, <3>2
  <2> QED
    BY <1>10, <2>4, <2>6, <2>7
<1> QED
  BY <1>4, <1>8, <1>11, <1>12, <1>13

(* The dummy goes, and the entry behind it is the dummy from now on.       *)
LEMMA ChainShrinks ==
  ASSUME NEW m, NEW h, NEW t, NEW c, IsChain(m, h, t, c), NULL \notin DOMAIN m,
         m[h].next # NULL,
         NEW g, g = [x \in DOMAIN m \ {h} |-> m[x]]
  PROVE  /\ IsChain(g, m[h].next, t, Tail(c))
         /\ ValuesFrom(m, h) # <<>>
         /\ m[m[h].next].value = Head(ValuesFrom(m, h))
         /\ ValuesFrom(g, m[h].next) = Tail(ValuesFrom(m, h))
<1>1. PICK N : N = Len(c)
  OBVIOUS
<1>2. N \in Nat /\ N # 0
  BY <1>1 DEF IsChain
<1>3. /\ c \in Seq(DOMAIN m) /\ c[1] = h /\ c[N] = t /\ m[t].next = NULL
      /\ \A i, j \in 1..N : c[i] = c[j] => i = j
      /\ \A i \in 1..(N - 1) : m[c[i]].next = c[i + 1]
      /\ \A i \in 1..N : c[i] \in DOMAIN m
      /\ \A x \in DOMAIN m : \E i \in 1..N : c[i] = x
  BY <1>1 DEF IsChain
<1>4. N # 1
  BY <1>3
<1>5. /\ 1 \in 1..N /\ 1 \in 1..(N - 1) /\ N - 1 \in 1..(N - 1) /\ (N - 1) + 1 = N /\ 1 + 1 = 2
      /\ 2 \in 1..N /\ N - 1 \in Nat \ {0} /\ (N - 1) - 1 = N - 2 /\ N - 2 \in Nat
  BY <1>2, <1>4
<1>6. \A i \in 1..(N - 1) : i + 1 \in 1..N /\ i + 1 # 1
  BY <1>2
<1>7. PICK d : d = Tail(c)
  OBVIOUS
<1>8. /\ d \in Seq(DOMAIN m) /\ Len(d) = N - 1 /\ \A i \in 1..(N - 1) : d[i] = c[i + 1]
  <2>1. c # <<>>
    BY <1>1, <1>2
  <2> QED
    BY <1>1, <1>3, <1>7, <2>1, HeadTailProperties
<1>9. m[h].next = c[2] /\ c[2] \in DOMAIN m
  <2>1. m[c[1]].next = c[1 + 1]
    BY <1>3, <1>5
  <2> QED
    BY <1>3, <1>5, <2>1
<1>10. DOMAIN g = DOMAIN m \ {h} /\ \A x \in DOMAIN m \ {h} : g[x] = m[x]
  OBVIOUS
<1>11. \A i \in 1..(N - 1) : d[i] \in DOMAIN g
  <2> TAKE i \in 1..(N - 1)
  <2>1. c[i + 1] # c[1] /\ c[i + 1] \in DOMAIN m
    BY <1>3, <1>5, <1>6
  <2> QED
    BY <1>3, <1>8, <1>10, <2>1
<1>12. d \in Seq(DOMAIN g)
  <2>1. d = [i \in 1..(N - 1) |-> d[i]]
    BY <1>8
  <2>2. [i \in 1..(N - 1) |-> d[i]] \in Seq(DOMAIN g)
    BY <1>5, <1>11
  <2> QED
    BY <2>1, <2>2
<1>13. IsChain(g, c[2], t, d)
  <2>1. d[1] = c[2] /\ d[Len(d)] = t /\ Len(d) \in Nat \ {0}
    BY <1>3, <1>5, <1>8
  <2>2. ASSUME NEW i \in 1..(N - 1), NEW j \in 1..(N - 1), d[i] = d[j] PROVE i = j
    <3>1. i + 1 = j + 1
      <4>1. i + 1 \in 1..N /\ j + 1 \in 1..N
        BY <1>6
      <4>2. c[i + 1] = c[j + 1]
        BY <1>8, <2>2
      <4> QED
        BY <1>3, <4>1, <4>2
    <3> QED
      BY <3>1
  <2>3. ASSUME NEW i \in 1..(N - 2) PROVE g[d[i]].next = d[i + 1]
    <3>1. i \in 1..(N - 1) /\ i + 1 \in 1..(N - 1)
      BY <1>5
    <3>2. g[d[i]] = m[c[i + 1]]
      BY <1>8, <1>10, <1>11, <3>1
    <3>3. m[c[i + 1]].next = c[(i + 1) + 1]
      BY <1>3, <3>1
    <3> QED
      BY <1>8, <3>1, <3>2, <3>3
  <2>4. g[t].next = NULL
    <3>1. t \in DOMAIN g
      BY <1>5, <1>8, <1>11, <2>1
    <3> QED
      BY <1>3, <1>10, <3>1
  <2>5. ASSUME NEW x \in DOMAIN g PROVE \E i \in 1..(N - 1) : d[i] = x
    <3>1. PICK i \in 1..N : c[i] = x
      BY <1>3, <1>10
    <3>2. i # 1
      BY <1>3, <1>10, <3>1
    <3>3. i - 1 \in 1..(N - 1) /\ (i - 1) + 1 = i
      BY <1>2, <3>2
    <3> QED
      BY <1>8, <3>1, <3>3
  <2> QED
    BY <1>5, <1>8, <1>12, <2>1, <2>2, <2>3, <2>4, <2>5 DEF IsChain
<1>14. PICK s : s = [i \in 1..(N - 1) |-> m[c[i + 1]].value]
  OBVIOUS
<1>15. PICK r : r = [i \in 1..(N - 2) |-> g[d[i + 1]].value]
  OBVIOUS
<1>16. ValuesFrom(m, h) = s
  BY <1>1, <1>14, ValuesOfChain
<1>17. ValuesFrom(g, c[2]) = r
  <2>1. NULL \notin DOMAIN g
    BY <1>10
  <2>2. ValuesFrom(g, c[2]) = [i \in 1..(Len(d) - 1) |-> g[d[i + 1]].value]
    BY ONLY <1>13, <2>1, ValuesOfChain
  <2> QED
    BY ONLY <1>5, <1>8, <1>15, <2>2
<1>18. PICK S : S = {s[i] : i \in 1..(N - 1)}
  OBVIOUS
<1>19. s \in Seq(S) /\ Len(s) = N - 1 /\ s # <<>>
  <2>1. s = [i \in 1..(N - 1) |-> s[i]] /\ \A i \in 1..(N - 1) : s[i] \in S
    BY <1>14, <1>18
  <2>2. s \in Seq(S) /\ Len(s) = N - 1
    BY <1>5, <2>1
  <2> QED
    BY <1>5, <2>2
<1>20. Head(s) = m[c[2]].value
  BY <1>5, <1>14, <1>19
<1>21. r = Tail(s)
  <2>1. PICK q : q = Tail(s)
    OBVIOUS
  <2>2. /\ q \in Seq(S) /\ Len(q) = N - 2
        /\ \A i \in 1..(N - 2) : q[i] = s[i + 1]
    BY <1>5, <1>19, <2>1, HeadTailProperties
  <2>3. q = [i \in 1..(N - 2) |-> q[i]]
    BY <2>2
  <2>4. ASSUME NEW i \in 1..(N - 2) PROVE q[i] = g[d[i + 1]].value
    <3>1. i + 1 \in 1..(N - 1)
      BY <1>5
    <3>2. q[i] = m[c[(i + 1) + 1]].value
      BY <1>14, <2>2, <3>1
    <3>3. g[d[i + 1]] = m[c[(i + 1) + 1]]
      BY <1>8, <1>10, <1>11, <3>1
    <3> QED
      BY <3>2, <3>3
  <2> QED
    BY <1>15, <2>1, <2>3, <2>4
<1> QED
  BY <1>7, <1>9, <1>13, <1>16, <1>17, <1>19, <1>20, <1>21

(* The queue is made with a dummy.                                         *)
LEMMA LinkedInvInit == LinkedInit => LinkedInv
<1> SUFFICES ASSUME NEW dummy \in Addresses,
                    memory = [a \in {dummy} |-> [value |-> NULL, next |-> NULL]],
                    head = dummy, tail = dummy
             PROVE  LinkedInv
  BY DEF LinkedInit
<1>1. MemoryTyped
  BY DEF MemoryTyped
<1>2. IsChain(memory, head, tail, <<dummy>>)
  <2>1. <<dummy>> \in Seq(DOMAIN memory) /\ Len(<<dummy>>) = 1 /\ <<dummy>>[1] = dummy
    OBVIOUS
  <2> QED
    BY <2>1 DEF IsChain
<1> QED
  BY <1>1, <1>2 DEF LinkedInv

(* What unbounded_queue_enqueue does to the chain                          *)
(* (unbounded_queue.c:75-99).                                              *)
LEMMA EnqueueAppends ==
  ASSUME LinkedInv, NEW v \in Values, unbounded_queue_enqueue(v)
  PROVE  LinkedInv' /\ Contents' = Append(Contents, v)
<1>1. PICK c : IsChain(memory, head, tail, c)
  BY DEF LinkedInv
<1>2. PICK a \in Addresses \ DOMAIN memory : memory' = Extended(a, v) /\ tail' = a
  BY DEF unbounded_queue_enqueue
<1>3. head' = head /\ NULL \notin DOMAIN memory /\ a # NULL
  BY LinkedConstants DEF unbounded_queue_enqueue, LinkedInv, MemoryTyped
<1>4. PICK g : g = Extended(a, v)
  OBVIOUS
<1>5. /\ DOMAIN g = DOMAIN memory \cup {a} /\ g[a] = [value |-> v, next |-> NULL]
      /\ \A x \in DOMAIN memory :
            g[x] = IF x = tail THEN [memory[x] EXCEPT !.next = a] ELSE memory[x]
  BY <1>2, <1>4 DEF Extended
<1>6. \A x \in DOMAIN memory : memory[x] = [value |-> memory[x].value, next |-> memory[x].next]
  BY DEF LinkedInv, MemoryTyped
<1>7. \A x \in DOMAIN memory : g[x] = [value |-> memory[x].value,
                                       next |-> IF x = tail THEN a ELSE memory[x].next]
  <2> TAKE x \in DOMAIN memory
  <2>1. [[value |-> memory[x].value, next |-> memory[x].next] EXCEPT !.next = a]
           = [value |-> memory[x].value, next |-> a]
    OBVIOUS
  <2> QED
    BY <1>5, <1>6, <2>1, Zenon
<1>8. /\ g[a].value = v /\ g[a].next = NULL
      /\ \A x \in DOMAIN memory : /\ g[x].value = memory[x].value
                                  /\ g[x].next = IF x = tail THEN a ELSE memory[x].next
  BY <1>5, <1>7
<1>9. /\ IsChain(g, head, a, Append(c, a))
      /\ ValuesFrom(g, head) = Append(ValuesFrom(memory, head), v)
  BY ONLY <1>1, <1>2, <1>3, <1>5, <1>8, ChainGrows
<1>10. MemoryTyped'
  <2>1. DOMAIN memory \subseteq Addresses
    BY DEF LinkedInv, MemoryTyped
  <2>2. memory' = g
    BY <1>2, <1>4
  <2>3. g = [x \in DOMAIN g |-> g[x]]
    BY <1>4 DEF Extended
  <2>4. ASSUME NEW x \in DOMAIN g PROVE g[x] = [value |-> g[x].value, next |-> g[x].next]
    <3>1. CASE x = a
      BY <1>5, <3>1
    <3>2. CASE x \in DOMAIN memory
      <4>1. g[x] = [value |-> memory[x].value, next |-> IF x = tail THEN a ELSE memory[x].next]
        BY <1>7, <3>2
      <4>2. /\ g[x].value = memory[x].value
            /\ g[x].next = IF x = tail THEN a ELSE memory[x].next
        BY <1>8, <3>2
      <4> QED
        BY ONLY <4>1, <4>2
    <3> QED
      BY <1>5, <3>1, <3>2
  <2> QED
    BY <1>5, <2>1, <2>2, <2>3, <2>4 DEF MemoryTyped
<1> QED
  BY <1>2, <1>3, <1>4, <1>9, <1>10 DEF LinkedInv, Contents

(* And unbounded_queue_dequeue (unbounded_queue.c:115-124).                *)
LEMMA DequeueTakes ==
  ASSUME LinkedInv, NEW t \in Readers, unbounded_queue_dequeue(t)
  PROVE  /\ LinkedInv' /\ Contents # <<>> /\ Contents' = Tail(Contents)
         /\ returned' = [returned EXCEPT ![t] = Head(Contents)]
<1>1. PICK c : IsChain(memory, head, tail, c)
  BY DEF LinkedInv
<1>2. PICK first : first = memory[head].next
  OBVIOUS
<1>3. /\ first # NULL /\ memory' = Freed(head) /\ head' = first /\ tail' = tail
      /\ returned' = [returned EXCEPT ![t] = memory[first].value]
  BY <1>2 DEF unbounded_queue_dequeue
<1>4. NULL \notin DOMAIN memory
  BY LinkedConstants DEF LinkedInv, MemoryTyped
<1>5. PICK g : g = [x \in DOMAIN memory \ {head} |-> memory[x]]
  OBVIOUS
<1>6. /\ IsChain(g, first, tail, Tail(c)) /\ ValuesFrom(memory, head) # <<>>
      /\ memory[first].value = Head(ValuesFrom(memory, head))
      /\ ValuesFrom(g, first) = Tail(ValuesFrom(memory, head))
  BY ONLY <1>1, <1>2, <1>3, <1>4, <1>5, ChainShrinks
<1>7. memory' = g
  BY <1>3, <1>5 DEF Freed
<1>8. MemoryTyped'
  <2>1. /\ DOMAIN memory \subseteq Addresses
        /\ \A x \in DOMAIN memory : memory[x] = [value |-> memory[x].value, next |-> memory[x].next]
    BY DEF LinkedInv, MemoryTyped
  <2>2. DOMAIN g = DOMAIN memory \ {head} /\ \A x \in DOMAIN g : g[x] = memory[x]
    BY <1>5
  <2>3. g = [x \in DOMAIN g |-> g[x]]
    BY <1>5
  <2> QED
    BY <1>7, <2>1, <2>2, <2>3 DEF MemoryTyped
<1> QED
  BY <1>3, <1>6, <1>7, <1>8 DEF LinkedInv, Contents

(* What leaves the list alone.                                             *)
LEMMA ListStays ==
  ASSUME LinkedInv, UNCHANGED <<memory, head, tail>>
  PROVE  LinkedInv' /\ Contents' = Contents
  BY DEF LinkedInv, MemoryTyped, Contents

LEMMA LinkedInvNext == LinkedInv /\ [LinkedNext]_linkedVars => LinkedInv'
<1> SUFFICES ASSUME LinkedInv, [LinkedNext]_linkedVars PROVE LinkedInv'
  OBVIOUS
<1>1. ASSUME NEW v \in Values, unbounded_queue_enqueue(v) PROVE LinkedInv'
  BY <1>1, EnqueueAppends
<1>2. ASSUME NEW t \in Readers, unbounded_queue_dequeue(t) PROVE LinkedInv'
  BY <1>2, DequeueTakes
<1>3. ASSUME UNCHANGED <<memory, head, tail>> PROVE LinkedInv'
  BY <1>3, ListStays
<1> QED
  BY <1>1, <1>2, <1>3 DEF LinkedNext, MallocFails, unbounded_queue_close, FindsClosed, Sleeps,
     WakesAlone, linkedVars

(* The list begins as the empty queue.                                     *)
LEMMA QueueInitially == LinkedInit => Queue!QueueInit
<1> SUFFICES ASSUME LinkedInit PROVE Queue!QueueInit
  OBVIOUS
<1>1. LinkedInv
  BY LinkedInvInit
<1>2. PICK c : IsChain(memory, head, tail, c)
  BY <1>1 DEF LinkedInv
<1>3. NULL \notin DOMAIN memory /\ memory[head].next = NULL
  BY <1>1, LinkedConstants DEF LinkedInv, MemoryTyped, LinkedInit
<1>4. Contents = <<>>
  BY <1>2, <1>3, EmptyChain DEF Contents
<1> QED
  BY <1>4 DEF LinkedInit, Queue!QueueInit

(* Every step of the list is a step of the queue (unbounded_queue.c:54-128).*)
LEMMA QueueSteps ==
  LinkedInv /\ [LinkedNext]_linkedVars => [QueueStep]_<<Queue!queueVars, returned>>
<1> SUFFICES ASSUME LinkedInv, [LinkedNext]_linkedVars
             PROVE  [QueueStep]_<<Queue!queueVars, returned>>
  OBVIOUS
<1>1. ASSUME NEW v \in Values, unbounded_queue_enqueue(v)
      PROVE  Queue!Enqueue(v) /\ UNCHANGED returned
  <2>1. Contents' = Append(Contents, v)
    BY <1>1, EnqueueAppends
  <2> QED
    BY <1>1, <2>1 DEF unbounded_queue_enqueue, WakeReaders, Queue!Enqueue, Queue!Broadcast
<1>2. ASSUME UNCHANGED <<memory, head, tail>> PROVE Contents' = Contents
  BY <1>2, ListStays
<1>3. ASSUME MallocFails PROVE Queue!EnqueueFails /\ UNCHANGED returned
  BY <1>2, <1>3 DEF MallocFails, WakeReaders, Queue!EnqueueFails, Queue!Broadcast
<1>4. ASSUME unbounded_queue_close PROVE Queue!CloseQueue /\ UNCHANGED returned
  BY <1>2, <1>4 DEF unbounded_queue_close, Queue!CloseQueue
<1>5. ASSUME NEW t \in Readers, FindsClosed(t)
      PROVE  Queue!DequeueClosed(t) /\ returned' = [returned EXCEPT ![t] = NULL]
  BY <1>2, <1>5 DEF FindsClosed, Queue!DequeueClosed, Queue!queueVars
<1>6. ASSUME NEW t \in Readers, Sleeps(t) PROVE Queue!DequeueSleep(t) /\ UNCHANGED returned
  <2>1. PICK c : IsChain(memory, head, tail, c)
    BY DEF LinkedInv
  <2>2. NULL \notin DOMAIN memory /\ memory[head].next = NULL
    BY <1>6, LinkedConstants DEF LinkedInv, MemoryTyped, Sleeps
  <2>3. Contents = <<>>
    BY <2>1, <2>2, EmptyChain DEF Contents
  <2> QED
    BY <1>2, <1>6, <2>3 DEF Sleeps, AtTest, Queue!DequeueSleep, Queue!AtList
<1>7. ASSUME NEW t \in Readers, WakesAlone(t) PROVE Queue!SpuriousWake(t) /\ UNCHANGED returned
  BY <1>2, <1>7 DEF WakesAlone, Queue!SpuriousWake
<1>8. ASSUME NEW t \in Readers, unbounded_queue_dequeue(t)
      PROVE  Queue!DequeueTake(t) /\ returned' = [returned EXCEPT ![t] = Head(Contents)]
  <2>1. /\ Contents # <<>> /\ Contents' = Tail(Contents)
        /\ returned' = [returned EXCEPT ![t] = Head(Contents)]
    BY <1>8, DequeueTakes
  <2> QED
    BY <1>8, <2>1 DEF unbounded_queue_dequeue, AtTest, Queue!DequeueTake, Queue!AtList
<1>9. CASE UNCHANGED linkedVars
  BY <1>2, <1>9 DEF linkedVars, Queue!queueVars
<1> QED
  BY <1>1, <1>3, <1>4, <1>5, <1>6, <1>7, <1>8, <1>9 DEF LinkedNext, QueueStep

(* What is allocated is what the links from head lead to, and tail is its  *)
(* end: nothing is lost, and no pointer leads to what was freed            *)
(* (unbounded_queue.c:89-93, 120-124).                                     *)
THEOREM EntriesStayList == LinkedSpec => []EntriesAreList
<1>1. LinkedInv => EntriesAreList
  <2> SUFFICES ASSUME LinkedInv PROVE EntriesAreList
    OBVIOUS
  <2>1. PICK c : IsChain(memory, head, tail, c)
    BY DEF LinkedInv
  <2>2. NULL \notin DOMAIN memory
    BY LinkedConstants DEF LinkedInv, MemoryTyped
  <2>3. PICK N : N = Len(c)
    OBVIOUS
  <2>4. N \in Nat /\ N # 0 /\ Cardinality(DOMAIN memory) = N
    BY <2>1, <2>3, ChainCounts DEF IsChain
  <2>5. /\ \A i \in 1..N : c[i] \in DOMAIN memory
        /\ \A a \in DOMAIN memory : \E i \in 1..N : c[i] = a
        /\ c[N] = tail /\ memory[tail].next = NULL
    BY <2>1, <2>3 DEF IsChain
  <2>6. PICK at : at = Along(memory, head)
    OBVIOUS
  <2>7. \A n \in Nat : at[n] = IF n < N THEN c[n + 1] ELSE NULL
    BY <2>1, <2>2, <2>3, <2>6, AlongChain
  <2>8. {at[n] : n \in 0..N} \ {NULL} = DOMAIN memory
    <3>1. ASSUME NEW n \in 0..N, at[n] # NULL PROVE at[n] \in DOMAIN memory
      <4>1. n \in Nat /\ n < N /\ n + 1 \in 1..N
        BY <2>4, <2>7, <3>1
      <4> QED
        BY <2>5, <2>7, <4>1
    <3>2. ASSUME NEW a \in DOMAIN memory PROVE \E n \in 0..N : at[n] = a
      <4>1. PICK i \in 1..N : c[i] = a
        BY <2>5
      <4>2. i - 1 \in 0..N /\ i - 1 \in Nat /\ i - 1 < N /\ (i - 1) + 1 = i
        BY <2>4
      <4> QED
        BY <2>7, <4>1, <4>2
    <3> QED
      BY <2>2, <3>1, <3>2
  <2>9. N \in 1..N
    BY <2>4
  <2> QED
    BY <2>4, <2>5, <2>6, <2>8, <2>9 DEF EntriesAreList
<1> QED
  BY <1>1, LinkedInvInit, LinkedInvNext, PTL DEF LinkedSpec

(* The list implements the queue on which the pool is built: whatever      *)
(* malloc returns, and for any number of readers and values, each step on  *)
(* head, tail and links is the step of UnboundedQueue on a sequence        *)
(* (unbounded_queue.c:75-128).                                             *)
THEOREM ListImplementsQueue == LinkedSpec => IsQueue
<1>1. LinkedSpec => []LinkedInv
  BY LinkedInvInit, LinkedInvNext, PTL DEF LinkedSpec
<1> QED
  BY <1>1, QueueInitially, QueueSteps, EntriesStayList, PTL DEF LinkedSpec, IsQueue
=============================================================================
