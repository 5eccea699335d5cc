---------------------------- MODULE KhashEnsProof ----------------------------
(***************************************************************************)
(* The ensemble of KhashEns is one map, for any number of tables, any keys *)
(* and any hash function, and its size is that of the map and the number   *)
(* of puts that failed.                                                    *)
(*                                                                         *)
(* The invariant is that the keys and the answers are routed, which makes  *)
(* the tables disjoint, and that count exceeds the number of elements by   *)
(* the number of failed puts, which keeps it from dropping below zero; and *)
(* an iterator a client may use leads to an element that is there, so that *)
(* deleting through it removes exactly one.                                *)
(***************************************************************************)
EXTENDS KhashEns, TLAPS, FiniteSetTheorems

CountIsRight == IsFiniteSet(All) /\ SizeIsElements

KeysOf(S) == {b.key : b \in S}

\* answer r refers to the element of key k
Refers(r, k) ==
  \/ r = [op |-> "get", key |-> k, found |-> TRUE]
  \/ r = [op |-> "put", key |-> k, status |-> "absent"]
  \/ r = [op |-> "put", key |-> k, status |-> "present"]

HeldIsBound ==
  \A k \in Key : Refers(sub[last].reply, k) => k \in KeysOf(sub[last].dict)

EInv ==
  TypeOK /\ KeysAreRouted /\ AnswersAreRouted /\ HeldIsBound /\ CountIsRight

\* The low bits of a hash are the index of a table.
LEMMA RouteIsASub == \A k \in Key : Route(k) \in Subs
  BY SMT, EnsembleAssumption DEF Route, Subs

\* A call about one key to one table leaves the others alone and every table
\* a table.
LEMMA CallIsLocal ==
  ASSUME TypeOK, NEW k \in Key, NEW t \in Subs, At(t, k)
  PROVE  /\ last' = t
         /\ \A u \in Subs \ {t} : sub'[u] = sub[u]
         /\ sub' \in [Subs -> SubState(Key)]
<1>1. Reply({k}) \subseteq Reply(Key)
  BY DEF Reply
<1>2. SubState({k}) \subseteq SubState(Key)
  BY <1>1 DEF SubState
<1> QED BY <1>2 DEF At, TypeOK

\* The elements of the table a key is routed to are the elements of the
\* ensemble with such keys.
LEMMA TableIsPart ==
  ASSUME TypeOK, KeysAreRouted, NEW t \in Subs
  PROVE  /\ sub[t].dict = {b \in All : Route(b.key) = t}
         /\ \A k \in Key : Route(k) = t => (k \in KeysOf(sub[t].dict) <=> k \in KeysOf(All))
<1>1. sub[t].dict = {b \in All : Route(b.key) = t}
  BY DEF KeysAreRouted, All
<1> QED BY <1>1 DEF KeysOf

\* What the ensemble holds after a call to table t that left it with D.
LEMMA WholeAfterCall ==
  ASSUME TypeOK, KeysAreRouted, NEW t \in Subs, NEW D,
         sub' \in [Subs -> SubState(Key)],
         \A u \in Subs \ {t} : sub'[u] = sub[u],
         sub'[t].dict = D
  PROVE  All' = {b \in All : Route(b.key) # t} \cup D
<1>1. ASSUME NEW b, b \in All' PROVE b \in {c \in All : Route(c.key) # t} \cup D
  <2>1. PICK u \in Subs : b \in sub'[u].dict
    BY <1>1 DEF All
  <2>2. CASE u = t BY <2>1, <2>2
  <2>3. CASE u # t
    <3>1. b \in sub[u].dict BY <2>1, <2>3
    <3> QED BY <3>1, <2>3 DEF All, KeysAreRouted
  <2> QED BY <2>2, <2>3
<1>2. ASSUME NEW b, b \in All, Route(b.key) # t PROVE b \in All'
  <2>1. PICK u \in Subs : b \in sub[u].dict
    BY <1>2 DEF All
  <2>2. u # t BY <2>1, <1>2 DEF KeysAreRouted
  <2>3. b \in sub'[u].dict BY <2>1, <2>2
  <2> QED BY <2>3 DEF All
<1>3. D \subseteq All' BY DEF All
<1> QED BY <1>1, <1>2, <1>3

\* Routing is preserved by a call that leaves its table routed.
LEMMA RoutingAfterCall ==
  ASSUME KeysAreRouted, NEW t \in Subs,
         \A u \in Subs \ {t} : sub'[u] = sub[u],
         \A b, c \in sub'[t].dict :
           Route(b.key) = t /\ (b.key = c.key => b = c)
  PROVE  KeysAreRouted'
  BY DEF KeysAreRouted, Route

\* Every element is a binding.
LEMMA ElementsAreBindings ==
  ASSUME TypeOK
  PROVE  All \subseteq [key : Key, val : Val]
  BY DEF TypeOK, All, SubState

-----------------------------------------------------------------------------
\* A get changes nothing and answers for the ensemble.
LEMMA GetStep ==
  ASSUME EInv, NEW k \in Key, Get(k)
  PROVE  EInv' /\ All' = All /\ Whole!Get(k)
<1> DEFINE t == Route(k)
<1> USE DEF EInv
<1>1. t \in Subs BY RouteIsASub
<1>2. At(t, k) /\ Table(t)!Get(k) /\ count' = count /\ failures' = failures
  BY DEF Get
<1>3. /\ last' = t
      /\ \A u \in Subs \ {t} : sub'[u] = sub[u]
      /\ sub' \in [Subs -> SubState(Key)]
  BY <1>1, <1>2, CallIsLocal
<1>4. sub'[t].reply = [op |-> "get", key |-> k, found |-> k \in KeysOf(sub[t].dict)]
  BY <1>2 DEF Table!Get, Table!Bound, KeysOf
<1>5. sub'[t].dict = sub[t].dict
  BY <1>2 DEF Table!Get
<1> HIDE DEF t
<1>6. t = Route(k) BY DEF t
<1>7. All' = All
  <2>1. All' = {b \in All : Route(b.key) # t} \cup sub[t].dict
    BY <1>1, <1>3, <1>5, WholeAfterCall
  <2> QED BY <2>1, <1>1, TableIsPart
<1>8. sub'[last'].reply = [op |-> "get", key |-> k, found |-> k \in KeysOf(All)]
  BY <1>1, <1>3, <1>4, <1>6, TableIsPart
<1>9. Whole!Get(k)
  BY <1>7, <1>8 DEF Whole!Get, Whole!Bound, KeysOf
<1>10. TypeOK' BY <1>1, <1>2, <1>3 DEF TypeOK
<1>11. KeysAreRouted'
  BY <1>1, <1>3, <1>5, RoutingAfterCall DEF KeysAreRouted
<1>12. AnswersAreRouted'
  BY <1>8, <1>3, <1>6 DEF AnswersAreRouted, Route
<1>13. CountIsRight'
  BY <1>2, <1>7 DEF CountIsRight, SizeIsElements
<1>14. HeldIsBound'
  <2>1. ASSUME NEW q \in Key, Refers(sub'[t].reply, q)
        PROVE  q \in KeysOf(sub[t].dict)
    <3>1. sub'[t].reply = [op |-> "get", key |-> q, found |-> TRUE]
      BY <1>4, <2>1 DEF Refers
    <3>2. sub'[t].reply.found = TRUE /\ sub'[t].reply.key = q
      BY <3>1
    <3>3. sub'[t].reply.found = (k \in KeysOf(sub[t].dict)) /\ sub'[t].reply.key = k
      BY <1>4
    <3> QED BY <3>2, <3>3
  <2>2. KeysOf(sub'[last'].dict) = KeysOf(sub[t].dict)
    BY <1>3, <1>5
  <2>3. \A q \in Key : Refers(sub'[last'].reply, q) => q \in KeysOf(sub'[last'].dict)
    BY <1>3, <2>1, <2>2
  <2> QED BY <2>3 DEF HeldIsBound, Refers, KeysOf
<1> QED BY <1>7, <1>9, <1>10, <1>11, <1>12, <1>13, <1>14

\* A put adds the key where it is routed to, if it is not there, and counts it.
LEMMA PutStep ==
  ASSUME EInv, NEW k \in Key, Put(k)
  PROVE  EInv' /\ (Whole!PutNew(k) \/ Whole!PutOld(k) \/ Whole!PutNoMemory(k))
<1> DEFINE t == Route(k)
<1> USE DEF EInv
<1>1. t \in Subs BY RouteIsASub
<1>2. At(t, k) /\ count' = Counted(sub'[t].reply.status)
  BY DEF Put
<1>3. /\ last' = t
      /\ \A u \in Subs \ {t} : sub'[u] = sub[u]
      /\ sub' \in [Subs -> SubState(Key)]
  BY <1>1, <1>2, CallIsLocal
<1>4. \/ Table(t)!PutNew(k) /\ failures' = failures
      \/ Table(t)!PutOld(k) /\ failures' = failures
      \/ failures < MaxFailures /\ Table(t)!PutNoMemory(k) /\ failures' = failures + 1
  BY DEF Put
<1> HIDE DEF t
<1>5. t = Route(k) BY DEF t
<1>6. k \in KeysOf(sub[t].dict) <=> k \in KeysOf(All)
  BY <1>1, <1>5, TableIsPart
<1>7. CASE Table(t)!PutNew(k) /\ failures' = failures
  <2>1. k \notin KeysOf(sub[t].dict)
    BY <1>7 DEF Table!PutNew, Table!Bound, KeysOf
  <2>2. PICK v \in Val : sub'[t].dict = sub[t].dict \cup {[key |-> k, val |-> v]}
    BY <1>7 DEF Table!PutNew
  <2>3. sub'[t].reply = [op |-> "put", key |-> k, status |-> "absent"]
    BY <1>7 DEF Table!PutNew
  <2>4. All' = All \cup {[key |-> k, val |-> v]}
    <3>1. All' = {b \in All : Route(b.key) # t} \cup (sub[t].dict \cup {[key |-> k, val |-> v]})
      BY <1>1, <1>3, <2>2, WholeAfterCall
    <3> QED BY <3>1, <1>1, TableIsPart
  <2>5. Whole!PutNew(k)
    BY <1>3, <1>6, <2>1, <2>3, <2>4 DEF Whole!PutNew, Whole!Bound, KeysOf
  <2>6. count' = count + 1 BY <1>2, <2>3 DEF Counted
  <2>7. [key |-> k, val |-> v] \notin All
    BY <1>6, <2>1 DEF KeysOf
  <2>8. CountIsRight'
    <3>1. IsFiniteSet(All') /\ Cardinality(All') = Cardinality(All) + 1
      BY <2>4, <2>7, FS_AddElement DEF CountIsRight
    <3>2. Cardinality(All) \in Nat BY FS_CardinalityType DEF CountIsRight
    <3> QED BY <1>7, <2>6, <3>1, <3>2 DEF CountIsRight, SizeIsElements, TypeOK
  <2>9. KeysAreRouted'
    <3>1. \A b, c \in sub'[t].dict : Route(b.key) = t /\ (b.key = c.key => b = c)
      BY <1>1, <1>5, <2>1, <2>2 DEF KeysAreRouted, KeysOf
    <3> QED BY <1>1, <1>3, <3>1, RoutingAfterCall
  <2>10. TypeOK' BY <1>1, <1>3, <1>7, <2>6 DEF TypeOK
  <2>11. AnswersAreRouted' BY <1>3, <1>5, <2>3 DEF AnswersAreRouted, Route
  <2>12. HeldIsBound'
    <3>1. \A q \in Key : Refers(sub'[last'].reply, q) => q = k
      BY <1>3, <2>3 DEF Refers
    <3>2. k \in {b.key : b \in sub'[last'].dict}
      <4>1. [key |-> k, val |-> v] \in sub'[last'].dict BY <1>3, <2>2
      <4>2. [key |-> k, val |-> v].key = k OBVIOUS
      <4> QED BY <4>1, <4>2
    <3> QED BY <3>1, <3>2 DEF HeldIsBound, Refers, KeysOf
  <2> QED BY <2>5, <2>8, <2>9, <2>10, <2>11, <2>12
<1>8. ASSUME sub'[t].dict = sub[t].dict,
             sub'[t].reply.op = "put", sub'[t].reply.key = k,
             Refers(sub'[t].reply, k) => k \in KeysOf(sub[t].dict),
             count' = Cardinality(All) + failures',
             failures' \in 0..MaxFailures, count' \in Nat
      PROVE  EInv' /\ All' = All
  <2>1. All' = All
    <3>1. All' = {b \in All : Route(b.key) # t} \cup sub[t].dict
      BY <1>1, <1>3, <1>8, WholeAfterCall
    <3> QED BY <3>1, <1>1, TableIsPart
  <2>2. CountIsRight' BY <1>8, <2>1 DEF CountIsRight, SizeIsElements
  <2>3. KeysAreRouted'
    BY <1>1, <1>3, <1>8, RoutingAfterCall DEF KeysAreRouted
  <2>4. TypeOK' BY <1>1, <1>3, <1>8 DEF TypeOK
  <2>5. AnswersAreRouted' BY <1>3, <1>5, <1>8 DEF AnswersAreRouted, Route
  <2>6. HeldIsBound' BY <1>3, <1>8 DEF HeldIsBound, Refers, KeysOf
  <2> QED BY <2>1, <2>2, <2>3, <2>4, <2>5, <2>6
<1>9. CASE Table(t)!PutOld(k) /\ failures' = failures
  <2>1. /\ k \in KeysOf(sub[t].dict)
        /\ sub'[t].dict = sub[t].dict
        /\ sub'[t].reply = [op |-> "put", key |-> k, status |-> "present"]
    BY <1>9 DEF Table!PutOld, Table!Bound, KeysOf
  <2>2. count' = count BY <1>2, <2>1 DEF Counted
  <2>3. EInv' /\ All' = All
    BY <1>8, <1>9, <2>1, <2>2 DEF CountIsRight, SizeIsElements, TypeOK
  <2>4. Whole!PutOld(k)
    BY <1>3, <1>6, <2>1, <2>3 DEF Whole!PutOld, Whole!Bound, KeysOf
  <2> QED BY <2>3, <2>4
<1>10. CASE failures < MaxFailures /\ Table(t)!PutNoMemory(k) /\ failures' = failures + 1
  <2>1. /\ sub'[t].dict = sub[t].dict
        /\ sub'[t].reply = [op |-> "put", key |-> k, status |-> "noMemory"]
    BY <1>10 DEF Table!PutNoMemory
  <2>2. count' = count + 1 BY <1>2, <2>1 DEF Counted
  <2>3. Cardinality(All) \in Nat BY FS_CardinalityType DEF CountIsRight
  <2>4. /\ count' = Cardinality(All) + failures'
        /\ failures' \in 0..MaxFailures /\ count' \in Nat
    BY <1>10, <2>2, <2>3, EnsembleAssumption DEF CountIsRight, SizeIsElements, TypeOK
  <2>5. EInv' /\ All' = All
    BY <1>8, <2>1, <2>4 DEF Refers
  <2>6. Whole!PutNoMemory(k)
    BY <1>3, <2>1, <2>5 DEF Whole!PutNoMemory
  <2> QED BY <2>5, <2>6
<1> QED BY <1>4, <1>7, <1>9, <1>10

\* Storing through an iterator replaces the one element of its key.
LEMMA SetValStep ==
  ASSUME EInv, NEW k \in Key, NEW v \in Val, SetVal(k, v)
  PROVE  EInv' /\ Whole!SetVal(k, v)
<1> DEFINE t == last
           New == [key |-> k, val |-> v]
<1> USE DEF EInv
<1>1. t \in Subs BY DEF TypeOK
<1>2. At(t, k) /\ count' = count /\ failures' = failures
  BY DEF SetVal
<1>3. /\ last' = t
      /\ \A u \in Subs \ {t} : sub'[u] = sub[u]
      /\ sub' \in [Subs -> SubState(Key)]
  BY <1>1, <1>2, CallIsLocal
<1>4. /\ Refers(sub[t].reply, k)
      /\ sub'[t].dict = {b \in sub[t].dict : b.key # k} \cup {New}
      /\ sub'[t].reply = sub[t].reply
  BY <1>3 DEF SetVal, Table!SetVal, Table!RefersTo, Refers
<1>5. Route(k) = t /\ k \in KeysOf(sub[t].dict)
  BY <1>4 DEF AnswersAreRouted, HeldIsBound, Refers
<1>6. t = last OBVIOUS
<1> HIDE DEF t
<1>7. All' = {b \in All : b.key # k} \cup {New}
  <2>1. All' = {b \in All : Route(b.key) # t} \cup ({b \in sub[t].dict : b.key # k} \cup {New})
    BY <1>1, <1>3, <1>4, WholeAfterCall
  <2>2. sub[t].dict = {b \in All : Route(b.key) = t} BY <1>1, TableIsPart
  <2> QED BY <2>1, <2>2, <1>5
<1>8. PICK old \in All : old.key = k
  BY <1>1, <1>5 DEF KeysOf, All
<1>9. \A b \in All : b.key = k => b = old
  BY <1>8 DEF All, KeysAreRouted
<1>10. CountIsRight'
  <2> DEFINE Rest == {b \in All : b.key # k}
  <2>1. IsFiniteSet(All) BY DEF CountIsRight
  <2>2. Rest = All \ {old} BY <1>8, <1>9
  <2>3. IsFiniteSet(Rest) /\ Cardinality(Rest) = Cardinality(All) - 1
    BY <1>8, <2>1, <2>2, FS_RemoveElement
  <2>4. New \notin Rest OBVIOUS
  <2>5. All' = Rest \cup {New} BY <1>7
  <2> HIDE DEF Rest, New
  <2>6. IsFiniteSet(All') /\ Cardinality(All') = Cardinality(Rest) + 1
    BY <2>3, <2>4, <2>5, FS_AddElement
  <2>7. Cardinality(All) \in Nat BY <2>1, FS_CardinalityType
  <2> QED BY <1>2, <2>3, <2>6, <2>7 DEF CountIsRight, SizeIsElements
<1>11. KeysAreRouted'
  <2>1. \A b, c \in sub'[t].dict : Route(b.key) = t /\ (b.key = c.key => b = c)
    BY <1>1, <1>4, <1>5 DEF KeysAreRouted
  <2> QED BY <1>1, <1>3, <2>1, RoutingAfterCall
<1>12. TypeOK' BY <1>1, <1>2, <1>3 DEF TypeOK
<1>13. AnswersAreRouted' BY <1>3, <1>4, <1>6 DEF AnswersAreRouted, Route
<1>14. HeldIsBound'
  <2>1. \A q \in Key : Refers(sub'[last'].reply, q) => q = k
    BY <1>3, <1>4 DEF Refers
  <2>2. k \in {b.key : b \in sub'[last'].dict}
    <3>1. New \in sub'[last'].dict BY <1>3, <1>4
    <3>2. New.key = k OBVIOUS
    <3> QED BY <3>1, <3>2
  <2> QED BY <2>1, <2>2 DEF HeldIsBound, Refers, KeysOf
<1>15. Whole!SetVal(k, v)
  BY <1>3, <1>4, <1>6, <1>7 DEF Whole!SetVal, Whole!RefersTo, Refers
<1> QED BY <1>10, <1>11, <1>12, <1>13, <1>14, <1>15

\* Deleting through an iterator removes one element and uncounts it.
LEMMA DelStep ==
  ASSUME EInv, NEW k \in Key, Del(k)
  PROVE  EInv' /\ Whole!Del(k)
<1> DEFINE t == last
<1> USE DEF EInv
<1>1. t \in Subs BY DEF TypeOK
<1>2. At(t, k) /\ count' = count - 1 /\ failures' = failures
  BY DEF Del
<1>3. /\ last' = t
      /\ \A u \in Subs \ {t} : sub'[u] = sub[u]
      /\ sub' \in [Subs -> SubState(Key)]
  BY <1>1, <1>2, CallIsLocal
<1>4. /\ Refers(sub[t].reply, k)
      /\ sub'[t].dict = {b \in sub[t].dict : b.key # k}
      /\ sub'[t].reply = [op |-> "del", key |-> k]
  BY <1>3 DEF Del, Table!Del, Table!RefersTo, Refers
<1>5. Route(k) = t /\ k \in KeysOf(sub[t].dict)
  BY <1>4 DEF AnswersAreRouted, HeldIsBound, Refers
<1>6. t = last OBVIOUS
<1> HIDE DEF t
<1>7. All' = {b \in All : b.key # k}
  <2>1. All' = {b \in All : Route(b.key) # t} \cup {b \in sub[t].dict : b.key # k}
    BY <1>1, <1>3, <1>4, WholeAfterCall
  <2>2. sub[t].dict = {b \in All : Route(b.key) = t} BY <1>1, TableIsPart
  <2> QED BY <2>1, <2>2, <1>5
<1>8. PICK old \in All : old.key = k
  BY <1>1, <1>5 DEF KeysOf, All
<1>9. \A b \in All : b.key = k => b = old
  BY <1>8 DEF All, KeysAreRouted
<1>10. CountIsRight' /\ count' \in Nat
  <2>1. IsFiniteSet(All) BY DEF CountIsRight
  <2>2. All' = All \ {old} BY <1>7, <1>8, <1>9
  <2>3. IsFiniteSet(All') /\ Cardinality(All') = Cardinality(All) - 1
    BY <1>8, <2>1, <2>2, FS_RemoveElement
  <2>4. Cardinality(All) \in Nat /\ Cardinality(All') \in Nat
    BY <2>1, <2>3, FS_CardinalityType
  <2> QED BY <1>2, <2>3, <2>4, EnsembleAssumption DEF CountIsRight, SizeIsElements, TypeOK
<1>11. KeysAreRouted'
  BY <1>1, <1>3, <1>4, RoutingAfterCall DEF KeysAreRouted
<1>12. TypeOK' BY <1>1, <1>2, <1>3, <1>10 DEF TypeOK
<1>13. AnswersAreRouted' BY <1>3, <1>4, <1>5 DEF AnswersAreRouted, Route
<1>14. HeldIsBound' BY <1>3, <1>4 DEF HeldIsBound, Refers
<1>15. Whole!Del(k)
  BY <1>3, <1>4, <1>6, <1>7 DEF Whole!Del, Whole!RefersTo, Refers
<1> QED BY <1>10, <1>11, <1>12, <1>13, <1>14, <1>15

\* Clearing every table clears the ensemble.
LEMMA ClearStep ==
  ASSUME EInv, Clear
  PROVE  EInv' /\ Whole!Clear
<1> USE DEF EInv
<1>1. /\ sub' = [u \in Subs |-> [dict |-> {}, reply |-> [op |-> "clear"]]]
      /\ count' = 0 /\ failures' = 0 /\ last' = last /\ last \in Subs
  BY DEF Clear, TypeOK
<1>2. All' = {} BY <1>1 DEF All
<1>3. CountIsRight'
  BY <1>1, <1>2, FS_EmptySet, EnsembleAssumption DEF CountIsRight, SizeIsElements
<1>4. TypeOK'
  <2>1. [dict |-> {}, reply |-> [op |-> "clear"]] \in SubState(Key)
    BY DEF SubState, Reply
  <2> QED BY <1>1, <2>1, EnsembleAssumption DEF TypeOK
<1>5. KeysAreRouted' BY <1>1 DEF KeysAreRouted
<1>6. AnswersAreRouted' BY <1>1 DEF AnswersAreRouted
<1>7. HeldIsBound' BY <1>1 DEF HeldIsBound, Refers
<1>8. Whole!Clear BY <1>1, <1>2 DEF Whole!Clear
<1> QED BY <1>3, <1>4, <1>5, <1>6, <1>7, <1>8

-----------------------------------------------------------------------------
\* The invariant holds initially, when the ensemble is empty.
LEMMA InitHolds == Init => EInv /\ Whole!Init
<1> SUFFICES ASSUME Init PROVE EInv /\ Whole!Init
  OBVIOUS
<1>1. /\ sub = [u \in Subs |-> [dict |-> {}, reply |-> [op |-> "none"]]]
      /\ count = 0 /\ last = 0 /\ failures = 0
  BY DEF Init
<1>2. 0 \in Subs BY EnsembleAssumption DEF Subs
<1>3. All = {} BY <1>1 DEF All
<1>4. CountIsRight
  BY <1>1, <1>3, FS_EmptySet, EnsembleAssumption DEF CountIsRight, SizeIsElements
<1>5. TypeOK
  <2>1. [dict |-> {}, reply |-> [op |-> "none"]] \in SubState(Key)
    BY DEF SubState, Reply
  <2> QED BY <1>1, <1>2, <2>1, EnsembleAssumption DEF TypeOK
<1>6. KeysAreRouted BY <1>1 DEF KeysAreRouted
<1>7. AnswersAreRouted BY <1>1, <1>2 DEF AnswersAreRouted
<1>8. HeldIsBound BY <1>1, <1>2 DEF HeldIsBound, Refers
<1>9. Whole!Init BY <1>1, <1>2, <1>3 DEF Whole!Init, Whole!Silent
<1> QED BY <1>4, <1>5, <1>6, <1>7, <1>8, <1>9 DEF EInv

\* Every step keeps the invariant and is a step of the abstract map.
LEMMA StepHolds == EInv /\ [Next]_vars => EInv' /\ [Whole!Next]_(Whole!vars)
<1> SUFFICES ASSUME EInv, [Next]_vars PROVE EInv' /\ [Whole!Next]_(Whole!vars)
  OBVIOUS
<1>1. ASSUME NEW k \in Key, Get(k) PROVE EInv' /\ [Whole!Next]_(Whole!vars)
  BY <1>1, GetStep DEF Whole!Next
<1>2. ASSUME NEW k \in Key, Put(k) PROVE EInv' /\ [Whole!Next]_(Whole!vars)
  BY <1>2, PutStep DEF Whole!Next
<1>3. ASSUME NEW k \in Key, Del(k) PROVE EInv' /\ [Whole!Next]_(Whole!vars)
  BY <1>3, DelStep DEF Whole!Next
<1>4. ASSUME NEW k \in Key, NEW v \in Val, SetVal(k, v)
      PROVE  EInv' /\ [Whole!Next]_(Whole!vars)
  BY <1>4, SetValStep DEF Whole!Next
<1>5. CASE Clear BY <1>5, ClearStep DEF Whole!Next
<1>6. CASE UNCHANGED vars
  <2>1. sub' = sub /\ count' = count /\ last' = last /\ failures' = failures
    BY <1>6 DEF vars
  <2> QED BY <2>1 DEF EInv, TypeOK, KeysAreRouted, AnswersAreRouted, HeldIsBound,
                      CountIsRight, SizeIsElements, All, Route, Whole!vars
<1> QED BY <1>1, <1>2, <1>3, <1>4, <1>5, <1>6 DEF Next

\* The inductive invariant: routing, types and the count hold of ensembles of
\* every size.
THEOREM EnsembleInvariant == Spec => []EInv
BY InitHolds, StepHolds, PTL DEF Spec

\* Keys are bound where getp and putp look for them, and nowhere else.
THEOREM KeysStayRouted == Spec => []KeysAreRouted
BY EnsembleInvariant, PTL DEF EInv

\* kh_ens_size counts the elements and the puts that failed, and nothing else.
THEOREM SizeIsRight == Spec => []SizeIsElements
BY EnsembleInvariant, PTL DEF EInv, CountIsRight

\* An ensemble of maps is a map.
THEOREM EnsembleImplementsDict == Spec => ImplementsDict
BY InitHolds, StepHolds, EnsembleInvariant, PTL DEF Spec, ImplementsDict, Whole!Spec
=============================================================================
