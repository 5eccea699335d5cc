------------------------------ MODULE KeyedMap ------------------------------
(***************************************************************************)
(* What the benchmarked libraries promise the benchmark: a partial map     *)
(* whose calls are given a key.  A call takes effect at one instant;       *)
(* growing, rehashing and moving elements are invisible.                   *)
(*                                                                         *)
(* Dict serves tables whose calls go through a position the client holds;  *)
(* the libraries of the repository's other directories take keys only.     *)
(***************************************************************************)
EXTENDS FiniteSets

CONSTANTS
  Key,
  Stored     \* the values a key may be bound to

VARIABLES
  map,       \* the bindings: a set of [key, val] records
  answer     \* what the last call said

vars == <<map, answer>>

Said(op, k, found, vals) == [op |-> op, key |-> k, found |-> found, vals |-> vals]

Silent == [op |-> "none"]

ValuesOf(k) == {b.val : b \in {c \in map : c.key = k}}
Has(k) == ValuesOf(k) # {}
Without(k) == {b \in map : b.key # k}

Init == map = {} /\ answer = Silent

\* a call that answers nothing: it reserved, rehashed, began, or never ended
Quiet == answer' = Silent /\ UNCHANGED map

\* the call with this answer was given this key
Asked(o, k) ==
  /\ answer'.op = o
  /\ answer' \in [op : {o}, key : {k}, found : BOOLEAN, vals : SUBSET Stored[k]]

\* the value the key is bound to, if any
Find(k) ==
  /\ Asked("find", k)
  /\ answer' = Said("find", k, Has(k), ValuesOf(k))
  /\ UNCHANGED map

\* bind the key unless it is bound
Insert(k) ==
  /\ Asked("insert", k)
  /\ answer' = Said("insert", k, Has(k), {})
  /\ IF Has(k) THEN UNCHANGED map
     ELSE \E v \in Stored[k] : map' = map \cup {[key |-> k, val |-> v]}

\* bind the key whether or not it is bound
Assign(k) ==
  /\ Asked("assign", k)
  /\ \E v \in Stored[k] :
       /\ answer' = Said("assign", k, TRUE, {v})
       /\ map' = Without(k) \cup {[key |-> k, val |-> v]}

\* a function of the client's replaces the value of a key that is bound
Update(k) ==
  /\ answer'.op = "update" /\ answer'.key = k
  /\ Has(k)
  /\ map' = Without(k) \cup {[key |-> k, val |-> answer'.by[v]] : v \in ValuesOf(k)}

Erase(k) ==
  /\ Asked("erase", k)
  /\ answer' = Said("erase", k, Has(k), {})
  /\ map' = Without(k)

Clear ==
  /\ answer' = [op |-> "clear"]
  /\ map' = {}

\* a table of several parts is cleared one part at a time
ClearPart ==
  /\ answer'.op = "clear part"
  /\ map' = {b \in map : b.key \notin answer'.keys}

\* a vector takes the map's place; of the bindings of a key one is kept
Replace ==
  /\ answer'.op = "replace"
  /\ map' \subseteq answer'.with
  /\ \A b \in answer'.with : Cardinality({c \in map' : c.key = b.key}) = 1

Next ==
  \/ Quiet
  \/ Replace
  \/ Clear
  \/ ClearPart
  \/ \E k \in Key : Find(k) \/ Insert(k) \/ Assign(k) \/ Update(k) \/ Erase(k)

Spec == Init /\ [][Next]_vars
=============================================================================
